-------------------------- MODULE MCPackageSession --------------------------
(***************************************************************************)
(* Two kinds of package.  The first follows the roles of a document stored *)
(* at two paths, one of them reached under two base URIs; the second the   *)
(* container, the mimetype and the rules that read them, for a document    *)
(* whose own report may be satisfied or not.                               *)
(***************************************************************************)
EXTENDS PackageSession

CONSTANTS doc, path, partPath, base, otherBase

Context(p, b) == <<doc, p, b>>
MCContexts == {Context(path, base), Context(path, otherBase), Context(partPath, base)}
\* As in package_session_test.go: a rootfile rule that requires a package rule.
MCRequires ==
  [rule \in PackageRules |-> IF rule = "first-root" THEN {"container-path"} ELSE {}]

Table(first, second) == [c \in Contexts |-> IF c[2] = path THEN first ELSE second]
RolePackage ==
  [order |-> <<"score-before-parts">>, contexts |-> MCContexts, rootfile |-> path, satisfied |-> {doc},
   entries |-> {<<partPath, FALSE>>}, bytes |-> {}, needs |-> {TRUE},
   answers |-> {Table("score", "part"), Table("part", "score")} \X {TRUE}]

EntryPackage(satisfied) ==
  [order |-> <<"container-path", "mimetype-no-prefix", "mimetype-advice", "first-root">>,
   contexts |-> {Context(path, base)}, rootfile |-> path, satisfied |-> satisfied,
   entries |-> {<<"container", FALSE>>, <<"container", TRUE>>, <<"mimetype", FALSE>>, <<"mimetype", TRUE>>},
   bytes |-> {"exact", "padded"}, needs |-> BOOLEAN, answers |-> {}]

MCInputs == {RolePackage, EntryPackage({}), EntryPackage({doc})}
=============================================================================
