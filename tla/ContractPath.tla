---------------------------- MODULE ContractPath ----------------------------
(***************************************************************************)
(* The contract root boundary (internal/control/contract_path.go): which   *)
(* file of the file system a contract path names, and whether it lies      *)
(* under the root.                                                         *)
(*                                                                         *)
(* An absolute path is the sequence of its names; an input is such a       *)
(* sequence with its "." and "..", absolute or not, and blank if it has no *)
(* names.  A tree maps the absolute paths that exist to nodes.             *)
(***************************************************************************)
EXTENDS Integers, Sequences, SequencesExt

CONSTANT MaxLinks   \* symbolic links followed on one path (255 in the program)

ASSUME LinksAssumption == MaxLinks \in Nat

Directory == [kind |-> "directory"]
File(content) == [kind |-> "file", content |-> content]
Link(target) == [kind |-> "link", target |-> target]

Absolute(names) == [absolute |-> TRUE, names |-> names]
Relative(names) == [absolute |-> FALSE, names |-> names]

\* The result of an operation that fails.
NoPath == <<"">>

IsDirectory(tree, path) == path \in DOMAIN tree /\ tree[path] = Directory
IsFile(tree, path) == path \in DOMAIN tree /\ tree[path].kind = "file"
IsLink(tree, path) == path \in DOMAIN tree /\ tree[path].kind = "link"

PathInputs == [absolute : BOOLEAN, names : Seq(STRING)]

\* What loading a file that can be read comes to (OpenAPIContract).
LoadOutcomes ==
  {"loaded", "invalid_json", "unsupported_openapi_version", "missing_paths"}

\* Whatever exists is in a directory, and no name is empty, "." or "..".
IsTree(tree) ==
  /\ IsDirectory(tree, <<>>)
  /\ \A path \in DOMAIN tree :
       /\ path \in Seq(STRING) \ {NoPath}
       /\ path # <<>> => IsDirectory(tree, Front(path))
       /\ {".", ".."} \cap ToSet(path) = {}
       /\ \/ IsDirectory(tree, path)
          \/ IsFile(tree, path) /\ tree[path].content \in LoadOutcomes
          \/ IsLink(tree, path) /\ tree[path].target \in PathInputs

-----------------------------------------------------------------------------
(***************************************************************************)
(* filepath: Clean is lexical, EvalSymlinks looks at the tree.             *)
(***************************************************************************)
CleanName(absolute, done, name) ==
  CASE name = "." -> done
    [] name = ".." /\ done # <<>> /\ Last(done) # ".." -> Front(done)
    [] name = ".." /\ done = <<>> /\ absolute -> done
    [] OTHER -> Append(done, name)

Clean(path) ==
  LET cleaned[n \in 0 .. Len(path.names)] ==
        IF n = 0 THEN <<>>
        ELSE CleanName(path.absolute, cleaned[n - 1], path.names[n])
  IN  cleaned[Len(path.names)]

Join(directory, names) == Clean(Absolute(directory \o names))

\* A walk has come as far as done and goes on along todo; it may follow so
\* many links.
Positions == [done : Seq(STRING), todo : Seq(STRING), links : Nat]

At(done, todo, links) == [done |-> done, todo |-> todo, links |-> links]

\* It ends where nothing exists, at one link too many, below a file, or
\* at the end of its way.
Fails(tree, at) ==
  \/ at.done \notin DOMAIN tree
  \/ IsLink(tree, at.done) /\ at.links = 0
  \/ IsFile(tree, at.done) /\ at.todo # <<>>

Arrives(tree, at) == at.todo = <<>> /\ ~ IsLink(tree, at.done)

Parent(path) == IF path = <<>> THEN path ELSE Front(path)

\* Where a name leads from a directory.
Enter(directory, name) ==
  CASE name = "." -> directory
    [] name = ".." -> Parent(directory)
    [] OTHER -> Append(directory, name)

Follow(at, target) ==
  At(IF target.absolute THEN <<>> ELSE Parent(at.done),
     target.names \o at.todo, at.links - 1)

Onward(tree, at) ==
  IF IsLink(tree, at.done)
    THEN Follow(at, tree[at.done].target)
    ELSE At(Enter(at.done, Head(at.todo)), Tail(at.todo), at.links)

WalkIn(tree) ==
  LET walk[at \in Positions] ==
        IF Fails(tree, at) THEN NoPath
        ELSE IF Arrives(tree, at) THEN at.done
        ELSE walk[Onward(tree, at)]
  IN  walk

Walk(tree, from, names, maxLinks) == WalkIn(tree)[At(from, names, maxLinks)]

EvalSymlinks(tree, path) == Walk(tree, <<>>, path, MaxLinks)

Rel(base, path) ==
  LET common == Max({n \in 0 .. Len(base) : IsPrefix(SubSeq(base, 1, n), path)})
  IN  [i \in 1 .. Len(base) - common |-> ".."]
      \o SubSeq(path, common + 1, Len(path))

-----------------------------------------------------------------------------
(***************************************************************************)
(* newContractRoot.  A blank root is the working directory, a relative one *)
(* starts there; where the root came from is left out.                     *)
(***************************************************************************)
NewContractRoot(tree, workingDirectory, path) ==
  LET absolute == IF path.absolute THEN Clean(path)
                                   ELSE Join(workingDirectory, path.names)
      resolved == EvalSymlinks(tree, absolute)
  IN  IF ~ path.absolute /\ workingDirectory = NoPath THEN NoPath
      ELSE IF IsDirectory(tree, resolved) THEN resolved
      ELSE NoPath

(***************************************************************************)
(* evaluatePathForBoundary: what exists of the path is resolved, the rest  *)
(* is taken as it is written.                                              *)
(***************************************************************************)
\* Mutants of EvaluatePathForBoundary: links count for nothing; only a
\* path that exists is resolved.
BoundaryAsWritten(tree, path) == path

BoundaryIfThere(tree, path) ==
  IF EvalSymlinks(tree, path) = NoPath THEN path ELSE EvalSymlinks(tree, path)

EvaluatePathForBoundary(tree, path) ==
  LET resolves == {n \in 0 .. Len(path) :
                     EvalSymlinks(tree, SubSeq(path, 1, n)) # NoPath}
      n == Max(resolves)
  IN  Join(EvalSymlinks(tree, SubSeq(path, 1, n)), SubSeq(path, n + 1, Len(path)))

PathWithinRoot(root, path) ==
  LET relative == Rel(root, path)
  IN  relative = <<>> \/ relative[1] # ".."

(***************************************************************************)
(* contractRoot.resolve: a code, the path to read and the path to show.    *)
(***************************************************************************)
Refusal(code) == [code |-> code, readPath |-> NoPath, sourcePath |-> NoPath]

\* Mutant of Resolved: only the name of the file is shown.
ResolvedByName(root, boundary) ==
  [code |-> "resolved", readPath |-> boundary, sourcePath |-> <<Last(boundary)>>]

Resolved(root, boundary) ==
  [code |-> "resolved", readPath |-> boundary, sourcePath |-> Rel(root, boundary)]

Candidate(root, path) ==
  IF path.absolute THEN Clean(path) ELSE Join(root, Clean(path))

Resolve(tree, root, path) ==
  LET boundary == EvaluatePathForBoundary(tree, Candidate(root, path))
  IN  IF ~ path.absolute /\ Clean(path) = <<>> THEN Refusal("missing_path")
      ELSE IF ~ PathWithinRoot(root, boundary)
        THEN Refusal("contract_path_not_allowed")
      ELSE Resolved(root, boundary)

(***************************************************************************)
(* os.ReadFile and the decoding of what it finds (OpenAPIContract).        *)
(***************************************************************************)
LoadFrom(tree, path) ==
  LET file == EvalSymlinks(tree, path)
  IN  IF ~ IsFile(tree, file) THEN "unreadable_file" ELSE tree[file].content

=============================================================================
