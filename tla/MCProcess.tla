----------------------------- MODULE MCProcess -----------------------------
(***************************************************************************)
(* Process over a small file system: the contract root /api, a directory   *)
(* beside it, and links into, out of and around it.                        *)
(***************************************************************************)
EXTENDS Process

MCTree ==
  (<<>> :> Directory) @@
  (<<"api">> :> Directory) @@
  (<<"api", "a">> :> File("loaded")) @@
  (<<"api", "..b">> :> File("invalid_json")) @@
  (<<"api", "sub">> :> Directory) @@
  (<<"api", "sub", "c">> :> File("loaded")) @@
  (<<"api", "sub", "a">> :> Link(Relative(<<"..", "a">>))) @@
  (<<"api", "loop">> :> Link(Relative(<<"loop">>))) @@
  (<<"api", "out">> :> Link(Absolute(<<"other">>))) @@
  (<<"other">> :> Directory) @@
  (<<"other", "a">> :> File("loaded")) @@
  (<<"other", "back">> :> Link(Relative(<<"..", "api", "sub">>))) @@
  (<<"link">> :> Link(Relative(<<"api">>)))

\* Edits: a file becomes a link that leads out, a directory disappears.
MCTrees ==
  {MCTree,
   (<<"api", "a">> :> Link(Relative(<<"..", "other", "a">>))) @@ MCTree,
   [path \in {p \in DOMAIN MCTree : ~ IsPrefix(<<"api", "sub">>, p)} |-> MCTree[path]]}

MCPaths ==
  {Relative(names) : names \in
     {<<>>, <<"a">>, <<"..b">>, <<"loop">>, <<"sub", "a">>, <<"sub", "c">>,
      <<"out", "a">>, <<"..", "other", "a">>, <<"sub", "..">>,
      <<"sub", "..", ".", "a">>, <<"out", "back", "a">>}}
  \cup
  {Absolute(names) : names \in
     {<<"link", "a">>, <<"other", "back", "none">>, <<"api">>}}

MCEnvironment(contractRoot, openAPIFile) ==
  [workingDirectory |-> <<"api">>, contractRoot |-> contractRoot,
   openAPIFile |-> openAPIFile, endpointIsValid |-> TRUE]

\* The roots name /api in several ways, or nothing.
MCEnvironments ==
  {MCEnvironment(Relative(<<>>), Relative(<<"a">>)),
   MCEnvironment(Absolute(<<"link">>), Relative(<<>>)),
   MCEnvironment(Relative(<<"a">>), Unset),
   [MCEnvironment(Absolute(<<"other", "back", "..">>), Unset)
      EXCEPT !.endpointIsValid = FALSE],
   [MCEnvironment(Relative(<<>>), Unset) EXCEPT !.workingDirectory = NoPath],
   [MCEnvironment(Relative(<<"sub", "..">>), Unset)
      EXCEPT !.workingDirectory = <<"link">>]}

=============================================================================
