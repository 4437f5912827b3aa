------------------------ MODULE ContractPath_proofs ------------------------
(***************************************************************************)
(* Proofs about ContractPath, for any tree and any path: a walk through    *)
(* links comes to an end and can be taken in parts; a path without ".."    *)
(* leads where its cleaned form leads; the boundary of a path is its       *)
(* longest part that resolves, and what is missing after it.  From these   *)
(* follows what resolve promises of one tree: what loads is the file under *)
(* the root that the path names, the path shown leads back to it, and what *)
(* is refused as outside does lead outside.                                *)
(*                                                                         *)
(* Names hides the sequences that paths are: most steps need no more of    *)
(* them than how parts of a path make it up.                               *)
(***************************************************************************)
EXTENDS ContractPath, Recursion, SequenceTheorems

\* Paths, and ways ahead.
Names == Seq(STRING)

(***************************************************************************)
(* A walk goes on to a position with fewer links to follow, or as many and *)
(* fewer names ahead.                                                      *)
(***************************************************************************)
Links == [at \in Positions |-> at.links]
Ahead == [at \in Positions |-> Len(at.todo)]

Closer == ShrinksLex(Positions, Links, Ahead)

GoesOn(files, at) == ~ Fails(files, at) /\ ~ Arrives(files, at)

\* The measures of a position are natural numbers.
LEMMA CloserType ==
  /\ Links \in [Positions -> Nat]
  /\ Ahead \in [Positions -> Nat]
BY DEF Links, Ahead, Positions

\* Closer is lexicographic: links first, then names ahead.
LEMMA CloserMeaning ==
  ASSUME NEW x \in Positions, NEW y \in Positions,
         \/ x.links < y.links
         \/ x.links = y.links /\ Len(x.todo) < Len(y.todo)
  PROVE  <<x, y>> \in Closer
<1>1. /\ Links[x] = x.links /\ Links[y] = y.links
      /\ Ahead[x] = Len(x.todo) /\ Ahead[y] = Len(y.todo)
  BY DEF Links, Ahead
<1>. QED
  BY <1>1 DEF Closer, ShrinksLex

\* The first name of two ways in a row, and what follows it.
LEMMA HeadTailOfConcat ==
  ASSUME NEW s \in Names, NEW t \in Names, s # <<>>
  PROVE  Head(s \o t) = Head(s) /\ Tail(s \o t) = Tail(s) \o t
<1>. USE DEF Names
<1>1. /\ Head(s) \in STRING /\ Tail(s) \in Names /\ Len(s) \in Nat \ {0}
      /\ Len(Tail(s)) = Len(s) - 1
      /\ \A i \in 1 .. Len(Tail(s)) : Tail(s)[i] = s[i + 1]
  BY HeadTailProperties, EmptySeq
<1>2. /\ s \o t \in Names /\ s \o t # <<>> /\ Len(t) \in Nat
      /\ Len(s \o t) = Len(s) + Len(t)
      /\ \A i \in 1 .. Len(s) + Len(t) :
           (s \o t)[i] = IF i <= Len(s) THEN s[i] ELSE t[i - Len(s)]
  BY ConcatProperties, ConcatEqualIffEmpty, LenProperties
<1>3. /\ Tail(s \o t) \in Names
      /\ Len(Tail(s \o t)) = Len(s) + Len(t) - 1
      /\ \A i \in 1 .. Len(Tail(s \o t)) : Tail(s \o t)[i] = (s \o t)[i + 1]
  BY <1>2, HeadTailProperties
<1>4. /\ Tail(s) \o t \in Names
      /\ Len(Tail(s) \o t) = Len(Tail(s)) + Len(t)
      /\ \A i \in 1 .. Len(Tail(s)) + Len(t) :
           (Tail(s) \o t)[i] = IF i <= Len(Tail(s)) THEN Tail(s)[i] ELSE t[i - Len(Tail(s))]
  BY <1>1, ConcatProperties
<1>5. \A i \in 1 .. Len(Tail(s \o t)) : Tail(s \o t)[i] = (Tail(s) \o t)[i]
  BY <1>1, <1>2, <1>3, <1>4
<1>6. Tail(s \o t) = Tail(s) \o t
  BY <1>1, <1>2, <1>3, <1>4, <1>5, SeqEqual
<1>7. Head(s \o t) = Head(s)
  BY <1>1, <1>2
<1>. QED
  BY <1>6, <1>7

\* Ways in a row.
LEMMA ConcatNames ==
  /\ \A s, t \in Names : s \o t \in Names /\ (s # <<>> => s \o t # <<>>)
  /\ \A s, t, u \in Names : s \o (t \o u) = (s \o t) \o u
  /\ \A s \in Names : s \o <<>> = s /\ <<>> \o s = s
  /\ <<>> \in Names
<1>1. ASSUME NEW s \in Seq(STRING), NEW t \in Seq(STRING), NEW u \in Seq(STRING)
      PROVE  s \o (t \o u) = (s \o t) \o u
  <2>1. (s \o t) \o u = s \o (t \o u)
    BY ConcatAssociative
  <2>. QED
    BY ONLY <2>1, Zenon
<1>2. \A s, t \in Seq(STRING) : s \o t \in Seq(STRING) /\ (s # <<>> => s \o t # <<>>)
  BY ConcatProperties, ConcatEqualIffEmpty
<1>3. \A s \in Seq(STRING) : s \o <<>> = s /\ <<>> \o s = s
  BY ConcatEmptySeq
<1>4. <<>> \in Seq(STRING)
  BY EmptySeq
<1>. QED
  BY <1>1, <1>2, <1>3, <1>4, Zenon DEF Names

(***************************************************************************)
(* A way of one name.                                                      *)
(***************************************************************************)
Only(name) == <<name>>

\* A way of one name is a way; Append adds it at the end.
LEMMA OnlyNames ==
  \A name \in STRING :
    /\ Only(name) \in Names /\ Only(name) # <<>>
    /\ Head(Only(name)) = name /\ Tail(Only(name)) = <<>>
    /\ Len(Only(name)) = 1 /\ Only(name)[1] = name
    /\ \A s \in Names : Append(s, name) = s \o Only(name)
<1>. SUFFICES ASSUME NEW name \in STRING
              PROVE  /\ Only(name) \in Names /\ Only(name) # <<>>
                     /\ Head(Only(name)) = name /\ Tail(Only(name)) = <<>>
                     /\ Len(Only(name)) = 1 /\ Only(name)[1] = name
                     /\ \A s \in Names : Append(s, name) = s \o Only(name)
  OBVIOUS
<1>1. <<name>> \in Seq(STRING)
  <2>1. Append(<<>>, name) \in Seq(STRING)
    BY EmptySeq, AppendProperties
  <2>2. Append(<<>>, name) = <<name>>
    OBVIOUS
  <2>. QED
    BY <2>1, <2>2
<1>2. <<name>> # <<>> /\ Head(<<name>>) = name /\ Tail(<<name>>) = <<>>
  OBVIOUS
<1>3. Len(<<name>>) = 1 /\ <<name>>[1] = name
  OBVIOUS
<1>4. \A s \in Seq(STRING) : Append(s, name) = s \o <<name>>
  BY AppendIsConcat
<1>. QED
  BY <1>1, <1>2, <1>3, <1>4, Zenon DEF Only, Names

\* One more name between two ways.
LEMMA OnlyBefore ==
  \A name \in STRING, more \in Names :
    /\ Only(name) \o more \in Names /\ Only(name) \o more # <<>>
    /\ \A s \in Names : Append(s, name) \o more = s \o (Only(name) \o more)
<1>. SUFFICES ASSUME NEW name \in STRING, NEW more \in Names
              PROVE  /\ Only(name) \o more \in Names /\ Only(name) \o more # <<>>
                     /\ \A s \in Names : Append(s, name) \o more = s \o (Only(name) \o more)
  OBVIOUS
<1>1. PICK only \in Names : only = Only(name) /\ only # <<>>
  BY OnlyNames
<1>2. only \o more \in Names /\ only \o more # <<>>
  BY <1>1, ConcatNames
<1>3. ASSUME NEW s \in Names
      PROVE  Append(s, name) \o more = s \o (only \o more)
  <2>1. Append(s, name) = s \o only
    BY <1>1, OnlyNames, Zenon
  <2>2. s \o (only \o more) = (s \o only) \o more
    BY ConcatNames, Zenon
  <2>. QED
    BY <2>1, <2>2, Zenon
<1>. QED
  BY <1>1, <1>2, <1>3, Zenon

\* A position is one.
LEMMA AtPosition ==
  ASSUME NEW done \in Names, NEW todo \in Names, NEW links \in Nat
  PROVE  At(done, todo, links) \in Positions
BY DEF At, Positions, Names

\* A node of a tree is a directory, a file or a link, and one of them.
LEMMA NodeKinds ==
  ASSUME NEW files, IsTree(files), NEW path \in DOMAIN files
  PROVE  /\ path \in Names /\ path # NoPath
         /\ IsDirectory(files, path) \/ IsFile(files, path) \/ IsLink(files, path)
         /\ IsLink(files, path) => files[path].target \in PathInputs
         /\ IsDirectory(files, path) => ~ IsFile(files, path) /\ ~ IsLink(files, path)
         /\ ~ (IsFile(files, path) /\ IsLink(files, path))
BY DEF IsTree, IsDirectory, IsFile, IsLink, Directory, Names

\* The parent of a path is a path.
LEMMA ParentType ==
  ASSUME NEW path \in Names
  PROVE  Parent(path) \in Names
<1>1. CASE path = <<>>
  BY <1>1 DEF Parent
<1>2. CASE path # <<>>
  BY <1>2 DEF Parent, Front, Names
<1>. QED
  BY <1>1, <1>2

\* Wherever a name leads is a path.
LEMMA EnterType ==
  ASSUME NEW path \in Names, NEW name \in STRING
  PROVE  Enter(path, name) \in Names
<1>1. Append(path, name) \in Names
  BY AppendProperties DEF Names
<1>. QED
  BY <1>1, ParentType DEF Enter

\* A walk that goes on comes closer to its end.
LEMMA OnwardIsCloser ==
  ASSUME NEW files, IsTree(files), NEW at \in Positions, GoesOn(files, at)
  PROVE  /\ Onward(files, at) \in Positions
         /\ <<Onward(files, at), at>> \in Closer
         /\ Onward(files, at).links <= at.links
<1>. DEFINE on == Onward(files, at)
<1>1. /\ at.done \in Names /\ at.todo \in Names /\ at.links \in Nat
      /\ at.done \in DOMAIN files
  BY DEF Positions, Names, GoesOn, Fails
<1>2. CASE IsLink(files, at.done)
  <2>. DEFINE target == files[at.done].target
  <2>1. target \in PathInputs
    BY <1>1, <1>2, NodeKinds
  <2>2. at.links # 0
    BY <1>2 DEF GoesOn, Fails
  <2>3. /\ on = Follow(at, target)
    BY <1>2 DEF Onward
  <2>. HIDE DEF on, target
  <2>4. target.names \o at.todo \in Names
    BY <1>1, <2>1, ConcatProperties DEF PathInputs, Names
  <2>5. (IF target.absolute THEN <<>> ELSE Parent(at.done)) \in Names
    BY <1>1, ParentType, EmptySeq DEF Names
  <2>6. on \in Positions /\ on.links = at.links - 1
    BY <1>1, <2>2, <2>3, <2>4, <2>5 DEF Follow, At, Positions, Names
  <2>. QED
    BY <1>1, <2>2, <2>6, CloserMeaning DEF on
<1>3. CASE ~ IsLink(files, at.done)
  <2>1. at.todo # <<>>
    BY <1>3 DEF GoesOn, Arrives
  <2>2. /\ Head(at.todo) \in STRING /\ Tail(at.todo) \in Names
        /\ Len(Tail(at.todo)) = Len(at.todo) - 1
    BY <1>1, <2>1, HeadTailProperties DEF Names
  <2>3. PICK done \in Names : on = At(done, Tail(at.todo), at.links)
    <3>1. Enter(at.done, Head(at.todo)) \in Names
      BY <1>1, <2>2, EnterType
    <3>. QED
      BY <1>3, <3>1 DEF Onward
  <2>. HIDE DEF on
  <2>4. on \in Positions /\ on.links = at.links /\ on.todo = Tail(at.todo)
    BY <1>1, <2>2, <2>3 DEF At, Positions, Names
  <2>5. Len(at.todo) \in Nat
    BY <1>1, LenProperties DEF Names
  <2>6. Len(on.todo) < Len(at.todo)
    BY <2>2, <2>4, <2>5
  <2>7. <<on, at>> \in Closer
    BY <2>4, <2>6, CloserMeaning
  <2>. QED
    BY <1>1, <2>4, <2>7 DEF on
<1>. QED
  BY <1>2, <1>3

\* What holds where walks end, and before wherever it holds, holds
\* everywhere.
LEMMA WalkInduction ==
  ASSUME NEW files, IsTree(files), NEW P \in SUBSET Positions,
         \A at \in Positions :
           (GoesOn(files, at) => Onward(files, at) \in P) => at \in P
  PROVE  P = Positions
<1>1. Inductive(Closer, Positions)
  BY CloserType, LexInductive DEF Closer
<1>2. \A at \in Positions :
        (\A y \in Positions : <<y, at>> \in Closer => y \in P) => at \in P
  BY OnwardIsCloser
<1>. QED
  BY <1>1, <1>2 DEF Inductive

WalkBody(walk, files, at) ==
  IF Fails(files, at) THEN NoPath
  ELSE IF Arrives(files, at) THEN at.done
  ELSE walk[Onward(files, at)]

\* WalkIn satisfies its definition.
LEMMA WalkUnfolds ==
  ASSUME NEW files, IsTree(files)
  PROVE  \A at \in Positions : WalkIn(files)[at] = WalkBody(WalkIn(files), files, at)
<1>. DEFINE T == Names \cup {NoPath}
            F == [g \in [Positions -> T] |-> [at \in Positions |-> WalkBody(g, files, at)]]
            Unfolds(g) == g = [at \in Positions |-> WalkBody(g, files, at)]
<1>1. F \in [[Positions -> T] -> [Positions -> T]]
  <2>1. \A g \in [Positions -> T], at \in Positions : WalkBody(g, files, at) \in T
    BY OnwardIsCloser DEF WalkBody, GoesOn, Positions, Names
  <2>. HIDE DEF T
  <2>. QED
    BY <2>1
<1>2. ReadsBelow(F, Closer, Positions, T)
  <2>1. ASSUME NEW g \in [Positions -> T], NEW h \in [Positions -> T], NEW at \in Positions,
               \A y \in Positions : <<y, at>> \in Closer => g[y] = h[y]
        PROVE  WalkBody(g, files, at) = WalkBody(h, files, at)
    BY <2>1, OnwardIsCloser DEF WalkBody, GoesOn
  <2>2. ASSUME NEW g \in [Positions -> T], NEW h \in [Positions -> T], NEW at \in Positions,
               \A y \in Positions : <<y, at>> \in Closer => g[y] = h[y]
        PROVE  F[g][at] = F[h][at]
    <3>1. F[g][at] = WalkBody(g, files, at) /\ F[h][at] = WalkBody(h, files, at)
      OBVIOUS
    <3>. HIDE DEF F
    <3>. QED
      BY <2>1, <2>2, <3>1
  <2>. HIDE DEF F, T
  <2>. QED
    BY <1>1, <2>2 DEF ReadsBelow
<1>3. \E g : Unfolds(g)
  <2>1. Inductive(Closer, Positions)
    BY CloserType, LexInductive DEF Closer
  <2>2. Transitive(Closer, Positions)
    BY CloserType DEF Transitive, Closer, ShrinksLex
  <2>3. T # {}
    OBVIOUS
  <2>4. \E g \in [Positions -> T] : g = F[g]
    <3>. HIDE DEF F, T
    <3>. QED
      BY <1>2, <2>1, <2>2, <2>3, RecursiveFunction
  <2>5. PICK g \in [Positions -> T] : g = F[g]
    BY <2>4
  <2>6. Unfolds(g)
    BY <2>5
  <2>. QED
    BY <2>6
<1>4. WalkIn(files) = CHOOSE g : Unfolds(g)
  BY DEF WalkIn, WalkBody
<1>5. Unfolds(WalkIn(files))
  <2>. HIDE DEF Unfolds
  <2>. QED
    BY <1>3, <1>4
<1>. QED
  BY <1>5

-----------------------------------------------------------------------------
\* A walk that arrives, arrives at a directory or a file.
LEMMA WalkEnds ==
  ASSUME NEW files, IsTree(files), NEW at \in Positions, WalkIn(files)[at] # NoPath
  PROVE  WalkIn(files)[at] \in DOMAIN files /\ ~ IsLink(files, WalkIn(files)[at])
<1>. DEFINE w == WalkIn(files)
            P == {x \in Positions : w[x] # NoPath => w[x] \in DOMAIN files /\ ~ IsLink(files, w[x])}
<1>1. ASSUME NEW x \in Positions, GoesOn(files, x) => Onward(files, x) \in P
      PROVE  x \in P
  <2>1. w[x] = WalkBody(w, files, x)
    BY WalkUnfolds
  <2>. HIDE DEF w
  <2>. QED
    BY <1>1, <2>1 DEF WalkBody, GoesOn, Fails, Arrives
<1>2. P \in SUBSET Positions
  OBVIOUS
<1>3. P = Positions
  <2>. HIDE DEF P
  <2>. QED
    BY <1>1, <1>2, WalkInduction
<1>. QED
  BY <1>3

Extended(at, more, links) == At(at.done, at.todo \o more, at.links + links)

\* A position with more names ahead, and more links to follow.
LEMMA ExtendedType ==
  ASSUME NEW at \in Positions, NEW more \in Names, NEW links \in Nat
  PROVE  /\ Extended(at, more, links) \in Positions
         /\ Extended(at, more, links).done = at.done
         /\ Extended(at, more, links).todo = at.todo \o more
         /\ Extended(at, more, links).links = at.links + links
<1>1. at.todo \o more \in Names
  BY ConcatProperties DEF Positions, Names
<1>. QED
  BY <1>1 DEF Extended, At, Positions, Names

\* A walk that fails fails with more names ahead.
LEMMA ExtendedFails ==
  ASSUME NEW files, NEW at \in Positions, Fails(files, at), NEW more \in Names
  PROVE  Fails(files, Extended(at, more, 0))
<1>. DEFINE x == Extended(at, more, 0)
<1>1. x.done = at.done /\ x.todo = at.todo \o more /\ x.links = at.links
  <2>1. /\ x.done = at.done /\ x.todo = at.todo \o more /\ x.links = at.links + 0
    BY ExtendedType
  <2>2. at.links \in Nat
    BY DEF Positions
  <2>. HIDE DEF x
  <2>. QED
    BY <2>1, <2>2
<1>2. at.todo # <<>> => x.todo # <<>>
  <2>1. at.todo \in Seq(STRING) /\ more \in Seq(STRING)
    BY DEF Positions, Names
  <2>. HIDE DEF x
  <2>. QED
    BY <1>1, <2>1, ConcatEqualIffEmpty
<1>. HIDE DEF x
<1>3. Fails(files, x)
  BY <1>1, <1>2 DEF Fails
<1>. QED
  BY <1>3 DEF x

\* A walk that goes on does so alike with more names ahead.
LEMMA ExtendedGoesOn ==
  ASSUME NEW files, IsTree(files), NEW at \in Positions, GoesOn(files, at),
         NEW more \in Names, NEW links \in Nat
  PROVE  /\ GoesOn(files, Extended(at, more, links))
         /\ Onward(files, Extended(at, more, links))
              = Extended(Onward(files, at), more, links)
<1>. DEFINE x == Extended(at, more, links)
<1>1. /\ x.done = at.done /\ x.todo = at.todo \o more /\ x.links = at.links + links
      /\ at.done \in Names /\ at.todo \in Names /\ at.links \in Nat
      /\ at.done \in DOMAIN files /\ x \in Positions
  BY ExtendedType DEF Positions, Names, GoesOn, Fails
<1>. HIDE DEF x
<1>2. CASE IsLink(files, at.done)
  <2>1. files[at.done].target.names \in Names
    BY <1>1, <1>2, NodeKinds DEF PathInputs, Names
  <2>2. at.links # 0
    BY <1>2 DEF GoesOn, Fails
  <2>3. GoesOn(files, x)
    BY <1>1, <1>2, <2>2, NodeKinds DEF GoesOn, Fails, Arrives
  <2>4. PICK names \in Names : names = files[at.done].target.names
    BY <2>1
  <2>5. PICK start : start = IF files[at.done].target.absolute THEN <<>> ELSE Parent(at.done)
    OBVIOUS
  <2>6. /\ Onward(files, at) = At(start, names \o at.todo, at.links - 1)
        /\ Onward(files, x) = At(start, names \o (at.todo \o more), at.links + links - 1)
    BY <1>1, <1>2, <2>4, <2>5, SMTT(60) DEF Onward, Follow
  <2>7. /\ names \o (at.todo \o more) = (names \o at.todo) \o more
        /\ at.links + links - 1 = (at.links - 1) + links
    <3>1. names \o (at.todo \o more) = (names \o at.todo) \o more
      BY <1>1, ConcatNames, ZenonT(60)
    <3>2. at.links \in Nat /\ links \in Nat
      BY <1>1
    <3>. QED
      BY <3>1, <3>2, SMTT(60)
  <2>8. Onward(files, x) = Extended(Onward(files, at), more, links)
    <3>1. /\ Onward(files, at).done = start
          /\ Onward(files, at).todo = names \o at.todo
          /\ Onward(files, at).links = at.links - 1
      BY <2>6 DEF At
    <3>. QED
      BY <2>6, <2>7, <3>1 DEF Extended
  <2>. QED
    BY <2>3, <2>8 DEF x
<1>3. CASE ~ IsLink(files, at.done)
  <2>1. at.todo # <<>> /\ ~ IsFile(files, at.done)
    BY <1>3 DEF GoesOn, Arrives, Fails
  <2>2. x.todo # <<>>
    BY <1>1, <2>1, ConcatEqualIffEmpty DEF Names
  <2>3. GoesOn(files, x)
    BY <1>1, <1>3, <2>1, <2>2 DEF GoesOn, Fails, Arrives
  <2>4. Head(x.todo) = Head(at.todo) /\ Tail(x.todo) = Tail(at.todo) \o more
    BY <1>1, <2>1, HeadTailOfConcat
  <2>. DEFINE next == Enter(at.done, Head(at.todo))
  <2>6. /\ Onward(files, at) = At(next, Tail(at.todo), at.links)
        /\ Onward(files, x) = At(next, Tail(at.todo) \o more, at.links + links)
    BY <1>1, <1>3, <2>4 DEF Onward
  <2>7. Onward(files, x) = Extended(Onward(files, at), more, links)
    <3>. HIDE DEF next
    <3>1. /\ Onward(files, at).done = next /\ Onward(files, at).todo = Tail(at.todo)
          /\ Onward(files, at).links = at.links
      BY <2>6 DEF At
    <3>. QED
      BY <2>6, <3>1 DEF Extended
  <2>. QED
    BY <2>3, <2>7 DEF x
<1>. QED
  BY <1>2, <1>3

(***************************************************************************)
(* A walk in two parts: what fails on the way fails on every longer way,   *)
(* and a way that ends is gone on from there with the links that are left. *)
(***************************************************************************)
Composes(w, at) ==
  /\ w[at] = NoPath => \A more \in Names : w[Extended(at, more, 0)] = NoPath
  /\ w[at] # NoPath =>
       \E left \in Nat :
         /\ left <= at.links
         /\ \A more \in Names, links \in Nat :
              w[Extended(at, more, links)] = w[At(w[at], more, left + links)]

\* A walk composes, from every position.
LEMMA WalkComposes ==
  ASSUME NEW files, IsTree(files), NEW at \in Positions
  PROVE  Composes(WalkIn(files), at)
<1>. DEFINE P == {x \in Positions : Composes(WalkIn(files), x)}
<1>1. ASSUME NEW x \in Positions, GoesOn(files, x) => Onward(files, x) \in P
      PROVE  x \in P
  <2>. PICK w : w = WalkIn(files)
    OBVIOUS
  <2>1. \A y \in Positions : w[y] = WalkBody(w, files, y)
    BY WalkUnfolds
  <2>2. x.done \in Names /\ x.todo \in Names /\ x.links \in Nat
    BY DEF Positions, Names
  <2>3. CASE Fails(files, x)
    <3>1. w[x] = NoPath
      BY <2>1, <2>3 DEF WalkBody
    <3>2. ASSUME NEW more \in Names
          PROVE  w[Extended(x, more, 0)] = NoPath
      <4>1. Extended(x, more, 0) \in Positions
        BY ExtendedType
      <4>. QED
        BY <2>1, <2>3, <4>1, ExtendedFails DEF WalkBody
    <3>. QED
      BY <3>1, <3>2 DEF Composes
  <2>4. CASE ~ Fails(files, x) /\ Arrives(files, x)
    <3>1. w[x] = x.done /\ x.done \in DOMAIN files /\ x.todo = <<>>
      BY <2>1, <2>4 DEF WalkBody, Fails, Arrives
    <3>2. w[x] # NoPath
      BY <3>1, NodeKinds
    <3>3. ASSUME NEW more \in Names, NEW links \in Nat
          PROVE  Extended(x, more, links) = At(w[x], more, x.links + links)
      BY <3>1, ConcatNames DEF Extended
    <3>4. \E left \in Nat :
            /\ left <= x.links
            /\ \A more \in Names, links \in Nat :
                 w[Extended(x, more, links)] = w[At(w[x], more, left + links)]
      BY <2>2, <3>3
    <3>. QED
      BY <3>2, <3>4 DEF Composes
  <2>5. CASE GoesOn(files, x)
    <3>. DEFINE on == Onward(files, x)
    <3>1. on \in Positions /\ on.links <= x.links /\ Composes(w, on) /\ on.links \in Nat
      BY <1>1, <2>5, OnwardIsCloser DEF Positions
    <3>2. w[x] = w[on]
      BY <2>1, <2>5 DEF WalkBody, GoesOn
    <3>3. ASSUME NEW more \in Names, NEW links \in Nat
          PROVE  w[Extended(x, more, links)] = w[Extended(on, more, links)]
      <4>1. Extended(x, more, links) \in Positions
        BY ExtendedType
      <4>2. /\ GoesOn(files, Extended(x, more, links))
            /\ Onward(files, Extended(x, more, links)) = Extended(on, more, links)
        BY <2>5, ExtendedGoesOn
      <4>. QED
        BY <2>1, <4>1, <4>2 DEF WalkBody, GoesOn
    <3>. HIDE DEF on
    <3>4. CASE w[x] = NoPath
      <4>1. \A more \in Names : w[Extended(on, more, 0)] = NoPath
        BY <3>1, <3>2, <3>4 DEF Composes
      <4>2. \A more \in Names : w[Extended(x, more, 0)] = NoPath
        BY <3>3, <4>1
      <4>. QED
        BY <3>4, <4>2 DEF Composes
    <3>5. CASE w[x] # NoPath
      <4>1. PICK left \in Nat :
              /\ left <= on.links
              /\ \A more \in Names, links \in Nat :
                   w[Extended(on, more, links)] = w[At(w[on], more, left + links)]
        BY <3>1, <3>2, <3>5 DEF Composes
      <4>2. left <= x.links
        BY <2>2, <3>1, <4>1
      <4>3. \A more \in Names, links \in Nat :
              w[Extended(x, more, links)] = w[At(w[x], more, left + links)]
        BY <3>2, <3>3, <4>1
      <4>. QED
        BY <3>5, <4>2, <4>3 DEF Composes
    <3>. QED
      BY <3>4, <3>5
  <2>. QED
    BY <2>3, <2>4, <2>5 DEF GoesOn
<1>2. P \in SUBSET Positions
  OBVIOUS
<1>3. P = Positions
  <2>. HIDE DEF P
  <2>. QED
    BY <1>1, <1>2, WalkInduction
<1>. QED
  BY <1>3

(***************************************************************************)
(* The same of Walk.                                                       *)
(***************************************************************************)
LEMMA WalkType ==
  ASSUME NEW files, IsTree(files),
         NEW from \in Names, NEW way \in Names, NEW links \in Nat,
         Walk(files, from, way, links) # NoPath
  PROVE  /\ from \in DOMAIN files
         /\ Walk(files, from, way, links) \in DOMAIN files
         /\ ~ IsLink(files, Walk(files, from, way, links))
         /\ Walk(files, from, way, links) \in Names
<1>. DEFINE at == At(from, way, links)
<1>1. at \in Positions /\ at.done = from
  BY AtPosition DEF At
<1>2. Walk(files, from, way, links) = WalkIn(files)[at]
  BY DEF Walk
<1>. HIDE DEF at
<1>3. WalkIn(files)[at] = WalkBody(WalkIn(files), files, at)
  BY <1>1, WalkUnfolds
<1>4. ~ Fails(files, at)
  BY <1>2, <1>3 DEF WalkBody
<1>5. from \in DOMAIN files
  BY <1>1, <1>4 DEF Fails
<1>. QED
  BY <1>1, <1>2, <1>5, WalkEnds, NodeKinds

\* Without a name ahead a walk stays where it is.
LEMMA WalkStays ==
  ASSUME NEW files, IsTree(files),
         NEW from \in DOMAIN files, ~ IsLink(files, from), NEW links \in Nat
  PROVE  Walk(files, from, <<>>, links) = from
<1>. DEFINE at == At(from, <<>>, links)
<1>1. at \in Positions /\ at.done = from /\ at.todo = <<>>
  BY AtPosition, ConcatNames, NodeKinds DEF At
<1>2. Walk(files, from, <<>>, links) = WalkIn(files)[at]
  BY DEF Walk
<1>. HIDE DEF at
<1>3. WalkIn(files)[at] = WalkBody(WalkIn(files), files, at)
  BY <1>1, WalkUnfolds
<1>4. ~ Fails(files, at) /\ Arrives(files, at)
  BY <1>1 DEF Fails, Arrives
<1>. QED
  BY <1>1, <1>2, <1>3, <1>4 DEF WalkBody

Continues(files, from, way, links, left) ==
  \A more \in Names, extra \in Nat :
    Walk(files, from, way \o more, links + extra)
      = Walk(files, Walk(files, from, way, links), more, left + extra)

\* A walk fails with all that go on from it, or is gone on from.
LEMMA WalkOn ==
  ASSUME NEW files, IsTree(files),
         NEW from \in Names, NEW way \in Names, NEW links \in Nat
  PROVE  /\ Walk(files, from, way, links) = NoPath =>
              \A more \in Names : Walk(files, from, way \o more, links) = NoPath
         /\ Walk(files, from, way, links) # NoPath =>
              \E left \in Nat : left <= links /\ Continues(files, from, way, links, left)
<1>. DEFINE at == At(from, way, links)
<1>1. /\ at \in Positions /\ at.done = from /\ at.todo = way /\ at.links = links
      /\ Walk(files, from, way, links) = WalkIn(files)[at]
  BY AtPosition DEF At, Walk
<1>. HIDE DEF at
<1>2. Composes(WalkIn(files), at)
  BY <1>1, WalkComposes
<1>3. \A more \in Names, extra \in Nat :
        Walk(files, from, way \o more, links + extra) = WalkIn(files)[Extended(at, more, extra)]
  BY <1>1 DEF Walk, Extended
<1>4. \A more \in Names :
        Walk(files, from, way \o more, links) = WalkIn(files)[Extended(at, more, 0)]
  <2>1. links + 0 = links
    OBVIOUS
  <2>. QED
    BY <1>3, <2>1
<1>5. CASE Walk(files, from, way, links) = NoPath
  BY <1>1, <1>2, <1>4, <1>5 DEF Composes
<1>6. CASE Walk(files, from, way, links) # NoPath
  <2>1. PICK left \in Nat :
          /\ left <= links
          /\ \A more \in Names, extra \in Nat :
               WalkIn(files)[Extended(at, more, extra)]
                 = WalkIn(files)[At(WalkIn(files)[at], more, left + extra)]
    BY <1>1, <1>2, <1>6 DEF Composes
  <2>2. \A more \in Names, extra \in Nat :
          Walk(files, from, way \o more, links + extra)
            = Walk(files, Walk(files, from, way, links), more, left + extra)
    <3>. PICK end : end = Walk(files, from, way, links)
      OBVIOUS
    <3>1. \A more \in Names, extra \in Nat :
            WalkIn(files)[Extended(at, more, extra)] = Walk(files, end, more, left + extra)
      BY <1>1, <2>1 DEF Walk
    <3>. QED
      BY <1>3, <3>1
  <2>. QED
    BY <1>6, <2>1, <2>2 DEF Continues
<1>. QED
  BY <1>5, <1>6

(***************************************************************************)
(* Links to spare change nothing.                                          *)
(***************************************************************************)
LEMMA MoreLinks ==
  ASSUME NEW files, IsTree(files),
         NEW from \in Names, NEW way \in Names, NEW links \in Nat,
         Walk(files, from, way, links) # NoPath, NEW extra \in Nat
  PROVE  Walk(files, from, way, links + extra) = Walk(files, from, way, links)
<1>1. PICK end \in Names : end = Walk(files, from, way, links)
  BY WalkType
<1>2. end \in DOMAIN files /\ ~ IsLink(files, end)
  BY <1>1, WalkType
<1>3. PICK left \in Nat : Continues(files, from, way, links, left)
  BY WalkOn
<1>4. Walk(files, from, way \o <<>>, links + extra) = Walk(files, end, <<>>, left + extra)
  BY <1>1, <1>3, ConcatNames DEF Continues
<1>5. left + extra \in Nat
  OBVIOUS
<1>6. Walk(files, end, <<>>, left + extra) = end
  BY <1>2, <1>5, WalkStays
<1>. QED
  BY <1>1, <1>4, <1>6, ConcatNames

(***************************************************************************)
(* One name of the way, from a directory.                                  *)
(***************************************************************************)
LEMMA WalkEnters ==
  ASSUME NEW files, IsTree(files), NEW from \in DOMAIN files, IsDirectory(files, from),
         NEW name \in STRING, NEW more \in Names, NEW links \in Nat
  PROVE  Walk(files, from, Only(name) \o more, links)
           = Walk(files, Enter(from, name), more, links)
<1>. DEFINE at == At(from, Only(name) \o more, links)
<1>1. /\ Only(name) \in Names /\ Only(name) # <<>>
      /\ Head(Only(name)) = name /\ Tail(Only(name)) = <<>>
  BY OnlyNames
<1>. HIDE DEF at
<1>2. /\ Head(Only(name) \o more) = name
      /\ Tail(Only(name) \o more) = more
      /\ Only(name) \o more # <<>> /\ Only(name) \o more \in Names
  <2>1. /\ Head(Only(name) \o more) = Head(Only(name))
        /\ Tail(Only(name) \o more) = Tail(Only(name)) \o more
    BY <1>1, HeadTailOfConcat
  <2>2. <<>> \o more = more /\ Only(name) \o more # <<>> /\ Only(name) \o more \in Names
    BY <1>1, ConcatNames, Zenon
  <2>. QED
    BY <1>1, <2>1, <2>2
<1>3. from \in Names /\ ~ IsLink(files, from) /\ ~ IsFile(files, from)
  BY NodeKinds
<1>4. /\ at \in Positions /\ at.done = from /\ at.links = links
      /\ at.todo # <<>> /\ Head(at.todo) = name /\ Tail(at.todo) = more
  BY <1>2, <1>3, AtPosition DEF at, At
<1>5. Walk(files, from, Only(name) \o more, links) = WalkIn(files)[at]
  BY DEF Walk, at
<1>6. WalkIn(files)[at] = WalkBody(WalkIn(files), files, at)
  BY <1>4, WalkUnfolds
<1>7. ~ Fails(files, at) /\ ~ Arrives(files, at)
  BY <1>3, <1>4 DEF Fails, Arrives
<1>8. Onward(files, at) = At(Enter(from, name), more, links)
  BY <1>3, <1>4 DEF Onward
<1>. QED
  BY <1>5, <1>6, <1>7, <1>8 DEF WalkBody, Walk

\* The front of a path and its last name.
LEMMA FrontLast ==
  ASSUME NEW path \in Names, path # <<>>
  PROVE  /\ Front(path) \in Names /\ Last(path) \in STRING
         /\ Len(path) \in Nat \ {0}
         /\ Len(Front(path)) = Len(path) - 1
         /\ \A i \in 1 .. Len(path) - 1 : Front(path)[i] = path[i]
         /\ path = Append(Front(path), Last(path))
         /\ path = Front(path) \o Only(Last(path))
<1>1. PICK front \in Seq(STRING), last \in STRING : path = Append(front, last)
  BY SequenceEmptyOrAppend DEF Names
<1>2. /\ Len(path) = Len(front) + 1 /\ Len(front) \in Nat
      /\ path[Len(front) + 1] = last
      /\ \A i \in 1 .. Len(front) : path[i] = front[i]
  <2>1. /\ Len(Append(front, last)) = Len(front) + 1
        /\ \A i \in 1 .. Len(front) : Append(front, last)[i] = front[i]
        /\ Append(front, last)[Len(front) + 1] = last
    <3>1. Len(Append(front, last)) = Len(front) + 1
      BY AppendProperties
    <3>2. \A i \in 1 .. Len(front) : Append(front, last)[i] = front[i]
      BY AppendProperties
    <3>3. Append(front, last)[Len(front) + 1] = last
      BY AppendProperties
    <3>. QED
      BY <3>1, <3>2, <3>3
  <2>2. Len(front) \in Nat
    BY LenProperties
  <2>. QED
    BY <1>1, <2>1, <2>2
<1>3. Last(path) = last
  BY <1>2 DEF Last
<1>4. Front(path) = front
  <2>1. \A i \in 1 .. Len(path) - 1 : path[i] \in STRING
    BY <1>2, ElementOfSeq
  <2>2. /\ SubSeq(path, 1, Len(path) - 1) \in Seq(STRING)
        /\ Len(SubSeq(path, 1, Len(path) - 1)) = Len(front)
        /\ \A i \in 1 .. Len(front) : SubSeq(path, 1, Len(path) - 1)[i] = path[i]
    BY <1>2, <2>1, SubSeqProperties
  <2>3. SubSeq(path, 1, Len(path) - 1) = front
    BY <1>2, <2>2, SeqEqual
  <2>. QED
    BY <2>3 DEF Front
<1>5. path = front \o Only(last) /\ front \in Names
  BY <1>1, OnlyNames DEF Names
<1>6. Len(path) \in Nat \ {0} /\ Len(front) = Len(path) - 1
  BY <1>2
<1>7. \A i \in 1 .. Len(path) - 1 : front[i] = path[i]
  BY <1>2
<1>. QED
  BY <1>1, <1>3, <1>4, <1>5, <1>6, <1>7

(***************************************************************************)
(* A path that exists has only directories before it: a walk along it goes *)
(* there.                                                                  *)
(***************************************************************************)
LEMMA WalkAlongExisting ==
  ASSUME NEW files, IsTree(files), NEW links \in Nat
  PROVE  \A path \in DOMAIN files, more \in Names :
           Walk(files, <<>>, path \o more, links) = Walk(files, path, more, links)
<1>. DEFINE T == {n \in Nat : \A path \in DOMAIN files : Len(path) = n =>
                   \A more \in Names :
                     Walk(files, <<>>, path \o more, links) = Walk(files, path, more, links)}
<1>1. \A path \in DOMAIN files : path \in Names /\ Len(path) \in Nat
  BY NodeKinds, LenProperties DEF Names
<1>2. 0 \in T
  <2>1. \A path \in DOMAIN files : Len(path) = 0 => path = <<>>
    BY <1>1, EmptySeq DEF Names
  <2>. QED
    BY <2>1, ConcatNames
<1>3. ASSUME NEW n \in Nat, n \in T
      PROVE  n + 1 \in T
  <2>. SUFFICES ASSUME NEW path \in DOMAIN files, Len(path) = n + 1, NEW more \in Names
                PROVE  Walk(files, <<>>, path \o more, links) = Walk(files, path, more, links)
    OBVIOUS
  <2>1. path \in Names /\ path # <<>>
    BY <1>1, EmptySeq DEF Names
  <2>2. /\ Front(path) \in Names /\ Last(path) \in STRING /\ Len(path) \in Nat
        /\ Len(Front(path)) = Len(path) - 1 /\ path = Append(Front(path), Last(path))
        /\ path = Front(path) \o Only(Last(path))
    BY <2>1, FrontLast
  <2>. DEFINE front == Front(path)
              last == Last(path)
  <2>3. IsDirectory(files, front) /\ {".", ".."} \cap ToSet(path) = {}
    BY <2>1 DEF IsTree
  <2>4. front \in DOMAIN files
    BY <2>3 DEF IsDirectory
  <2>5. last # "." /\ last # ".."
    <3>1. last = path[n + 1] /\ DOMAIN path = 1 .. n + 1
      BY <2>1, <2>2, LenProperties DEF Last, Names
    <3>2. last \in ToSet(path)
      BY <3>1 DEF ToSet
    <3>. QED
      BY <2>3, <3>2
  <2>. HIDE DEF front, last
  <2>. SUFFICES Walk(files, <<>>, (front \o Only(last)) \o more, links) = Walk(files, path, more, links)
    BY <2>2 DEF front, last
  <2>6. Only(last) \in Names /\ Only(last) \o more \in Names
    BY <2>2, OnlyNames, ConcatNames DEF last
  <2>7. (front \o Only(last)) \o more = front \o (Only(last) \o more)
    BY <2>2, <2>6, ConcatNames, SMTT(60) DEF front
  <2>8. Walk(files, <<>>, front \o (Only(last) \o more), links)
          = Walk(files, front, Only(last) \o more, links)
    <3>1. Len(front) = n
      BY <2>2 DEF front
    <3>. QED
      BY <1>3, <3>1, <2>4, <2>6
  <2>9. Enter(front, last) = path
    BY <2>2, <2>5 DEF Enter, front, last
  <2>10. Walk(files, front, Only(last) \o more, links) = Walk(files, path, more, links)
    <3>1. last \in STRING
      BY <2>2 DEF last
    <3>. QED
      BY <2>3, <2>4, <2>9, <3>1, WalkEnters
  <2>. QED
    BY <2>7, <2>8, <2>10
<1>4. Nat \subseteq T
  <2>. HIDE DEF T
  <2>. QED
    BY <1>2, <1>3, SetInduction
<1>. QED
  BY <1>1, <1>4

-----------------------------------------------------------------------------
(***************************************************************************)
(* Induction along a path, from its beginning.                             *)
(***************************************************************************)
LEMMA NamesInduction ==
  ASSUME NEW P, <<>> \in P,
         \A s \in Names, name \in STRING : s \in P => Append(s, name) \in P
  PROVE  Names \subseteq P
<1>. DEFINE T == {n \in Nat : \A s \in Names : Len(s) = n => s \in P}
<1>1. 0 \in T
  <2>1. \A s \in Names : Len(s) = 0 => s = <<>>
    BY EmptySeq DEF Names
  <2>. QED
    BY <2>1
<1>2. ASSUME NEW n \in Nat, n \in T
      PROVE  n + 1 \in T
  <2>. SUFFICES ASSUME NEW s \in Names, Len(s) = n + 1 PROVE s \in P
    OBVIOUS
  <2>1. s # <<>>
    BY EmptySeq DEF Names
  <2>2. /\ Front(s) \in Names /\ Last(s) \in STRING /\ Len(Front(s)) = n
        /\ s = Append(Front(s), Last(s))
    BY <2>1, FrontLast
  <2>. QED
    BY <1>2, <2>2
<1>3. Nat \subseteq T
  <2>. HIDE DEF T
  <2>. QED
    BY <1>1, <1>2, SetInduction
<1>. QED
  BY <1>3, LenProperties DEF Names

(***************************************************************************)
(* What Clean does with each name of a path in turn.                       *)
(***************************************************************************)
CleanedBy(absolute, names, c) ==
  c = [n \in 0 .. Len(names) |->
         IF n = 0 THEN <<>> ELSE CleanName(absolute, c[n - 1], names[n])]

\* One step of Clean makes a path of a path.
LEMMA CleanNameType ==
  ASSUME NEW absolute, NEW done \in Names, NEW name \in STRING
  PROVE  CleanName(absolute, done, name) \in Names
<1>1. Append(done, name) \in Names
  BY AppendProperties DEF Names
<1>2. done # <<>> => Front(done) \in Names
  BY FrontLast
<1>. QED
  BY <1>1, <1>2, Zenon DEF CleanName

\* Clean steps through the names of its path.
LEMMA CleanUnfolds ==
  ASSUME NEW absolute, NEW names \in Names
  PROVE  \E c : /\ CleanedBy(absolute, names, c)
                /\ Clean([absolute |-> absolute, names |-> names]) = c[Len(names)]
<1>. DEFINE S == 0 .. Len(names)
            m == [n \in S |-> n]
            Body(g, n) == IF n = 0 THEN <<>> ELSE CleanName(absolute, g[n - 1], names[n])
            F == [g \in [S -> Names] |-> [n \in S |-> Body(g, n)]]
            Unfolds(g) == CleanedBy(absolute, names, g)
<1>1. Len(names) \in Nat /\ \A n \in 1 .. Len(names) : names[n] \in STRING
  BY LenProperties, ElementOfSeq DEF Names
<1>2. \A n \in S \ {0} : n - 1 \in S /\ n \in 1 .. Len(names) /\ m[n - 1] < m[n]
  BY <1>1
<1>3. \A g \in [S -> Names], n \in S : Body(g, n) \in Names
  BY <1>1, <1>2, CleanNameType, ConcatNames
<1>4. \A g, h \in [S -> Names], n \in S :
        (\A k \in S : m[k] < m[n] => g[k] = h[k]) => Body(g, n) = Body(h, n)
  BY <1>2
<1>5. Contractive(F, m, S, Names)
  <2>1. F \in [[S -> Names] -> [S -> Names]]
    <3>. HIDE DEF S, Body
    <3>. QED
      BY <1>3
  <2>2. \A g \in [S -> Names], n \in S : F[g][n] = Body(g, n)
    <3>. HIDE DEF S, Body
    <3>. QED
      OBVIOUS
  <2>. HIDE DEF F, S, m, Body
  <2>. QED
    BY <1>4, <2>1, <2>2 DEF Contractive
<1>6. \E g : Unfolds(g)
  <2>1. m \in [S -> Nat] /\ Names # {}
    BY <1>1, ConcatNames
  <2>2. \E g \in [S -> Names] : g = F[g]
    <3>. HIDE DEF F, S, m
    <3>. QED
      BY <1>5, <2>1, FixedPoint
  <2>3. PICK g \in [S -> Names] : g = F[g]
    BY <2>2
  <2>4. F[g] = [n \in S |-> Body(g, n)]
    <3>. HIDE DEF S, Body
    <3>. QED
      OBVIOUS
  <2>5. Unfolds(g)
    BY <2>3, <2>4 DEF CleanedBy
  <2>. QED
    BY <2>5
<1>7. Unfolds(CHOOSE g : Unfolds(g))
  <2>. HIDE DEF Unfolds
  <2>. QED
    BY <1>6
<1>8. Clean([absolute |-> absolute, names |-> names]) = (CHOOSE g : Unfolds(g))[Len(names)]
  BY Zenon DEF Clean, CleanedBy
<1>. QED
  BY <1>7, <1>8

\* Its steps, one for each name.
LEMMA CleanedNames ==
  ASSUME NEW absolute, NEW names \in Names, NEW c, CleanedBy(absolute, names, c)
  PROVE  /\ c[0] = <<>>
         /\ \A n \in 1 .. Len(names) : c[n] = CleanName(absolute, c[n - 1], names[n])
<1>1. Len(names) \in Nat
  BY LenProperties DEF Names
<1>. QED
  BY <1>1 DEF CleanedBy

\* Clean of no names.
LEMMA CleanOfEmpty ==
  ASSUME NEW absolute
  PROVE  Clean([absolute |-> absolute, names |-> <<>>]) = <<>>
<1>1. PICK c : /\ CleanedBy(absolute, <<>>, c)
               /\ Clean([absolute |-> absolute, names |-> <<>>]) = c[Len(<<>>)]
  BY CleanUnfolds, ConcatNames
<1>. QED
  BY <1>1, EmptySeq DEF CleanedBy

\* Clean of one more name.
LEMMA CleanOfAppend ==
  ASSUME NEW absolute, NEW names \in Names, NEW name \in STRING
  PROVE  /\ Clean([absolute |-> absolute, names |-> names]) \in Names
         /\ Clean([absolute |-> absolute, names |-> Append(names, name)])
              = CleanName(absolute, Clean([absolute |-> absolute, names |-> names]), name)
<1>. DEFINE longer == Append(names, name)
<1>1. /\ longer \in Names /\ Len(longer) = Len(names) + 1 /\ Len(names) \in Nat
      /\ longer[Len(longer)] = name
      /\ \A n \in 1 .. Len(names) : longer[n] = names[n] /\ names[n] \in STRING
  <2>1. /\ longer \in Names /\ Len(longer) = Len(names) + 1
        /\ longer[Len(names) + 1] = name
    BY AppendProperties DEF Names
  <2>2. \A n \in 1 .. Len(names) : longer[n] = names[n]
    BY AppendProperties DEF Names
  <2>3. Len(names) \in Nat /\ \A n \in 1 .. Len(names) : names[n] \in STRING
    BY LenProperties, ElementOfSeq DEF Names
  <2>. QED
    BY <2>1, <2>2, <2>3
<1>. HIDE DEF longer
<1>2. PICK c : /\ CleanedBy(absolute, names, c)
               /\ Clean([absolute |-> absolute, names |-> names]) = c[Len(names)]
  BY CleanUnfolds
<1>3. PICK d : /\ CleanedBy(absolute, longer, d)
               /\ Clean([absolute |-> absolute, names |-> longer]) = d[Len(longer)]
  BY <1>1, CleanUnfolds
<1>4. /\ c[0] = <<>> /\ d[0] = <<>>
      /\ \A n \in 1 .. Len(names) :
           /\ c[n] = CleanName(absolute, c[n - 1], names[n])
           /\ d[n] = CleanName(absolute, d[n - 1], names[n])
      /\ d[Len(longer)] = CleanName(absolute, d[Len(names)], name)
  <2>1. c[0] = <<>> /\ \A n \in 1 .. Len(names) : c[n] = CleanName(absolute, c[n - 1], names[n])
    BY <1>2, CleanedNames, ZenonT(60)
  <2>2. d[0] = <<>> /\ \A n \in 1 .. Len(longer) : d[n] = CleanName(absolute, d[n - 1], longer[n])
    BY <1>1, <1>3, CleanedNames
  <2>3. Len(longer) \in 1 .. Len(longer) /\ Len(longer) - 1 = Len(names)
    BY <1>1
  <2>4. \A n \in 1 .. Len(names) : n \in 1 .. Len(longer)
    BY <1>1
  <2>. QED
    BY <1>1, <2>1, <2>2, <2>3, <2>4
<1>. DEFINE T == {n \in Nat : n <= Len(names) => c[n] = d[n] /\ c[n] \in Names}
<1>5. 0 \in T
  BY <1>4, ConcatNames
<1>6. ASSUME NEW n \in Nat, n \in T
      PROVE  n + 1 \in T
  <2>. SUFFICES ASSUME n + 1 <= Len(names)
                PROVE  c[n + 1] = d[n + 1] /\ c[n + 1] \in Names
    OBVIOUS
  <2>1. n + 1 \in 1 .. Len(names) /\ (n + 1) - 1 = n
    BY <1>1
  <2>2. c[n] = d[n] /\ c[n] \in Names
    BY <1>1, <1>6
  <2>. HIDE DEF T
  <2>3. /\ c[n + 1] = CleanName(absolute, c[n], names[n + 1])
        /\ d[n + 1] = CleanName(absolute, d[n], names[n + 1])
    BY <1>4, <2>1
  <2>4. names[n + 1] \in STRING
    BY <1>1, <2>1
  <2>. QED
    BY <2>2, <2>3, <2>4, CleanNameType
<1>7. Nat \subseteq T
  <2>. HIDE DEF T
  <2>. QED
    BY <1>5, <1>6, SetInduction
<1>8. c[Len(names)] = d[Len(names)] /\ c[Len(names)] \in Names
  BY <1>1, <1>7
<1>. QED
  BY <1>2, <1>3, <1>4, <1>8 DEF longer

(***************************************************************************)
(* Clean leaves no "." and no ".." in an absolute path, and a path without *)
(* them as it is.                                                          *)
(***************************************************************************)
DotFree(names) == {".", ".."} \cap ToSet(names) = {}

CleanAbsolute(names) == Clean(Absolute(names))

\* The names of a longer path.
LEMMA NamesOf ==
  /\ ToSet(<<>>) = {}
  /\ \A s \in Names, name \in STRING : ToSet(Append(s, name)) = ToSet(s) \cup {name}
<1>1. ToSet(<<>>) = {}
  BY DEF ToSet
<1>2. ASSUME NEW s \in Names, NEW name \in STRING
      PROVE  ToSet(Append(s, name)) = ToSet(s) \cup {name}
  <2>. DEFINE t == Append(s, name)
  <2>1. /\ t \in Seq(STRING) /\ s \in Seq(STRING) /\ Len(t) = Len(s) + 1
        /\ t[Len(s) + 1] = name
    BY AppendProperties DEF Names
  <2>2. \A i \in 1 .. Len(s) : t[i] = s[i]
    BY AppendProperties DEF Names
  <2>. HIDE DEF t
  <2>3. DOMAIN t = 1 .. Len(s) + 1 /\ DOMAIN s = 1 .. Len(s) /\ Len(s) \in Nat
    BY <2>1, LenProperties
  <2>4. {t[i] : i \in 1 .. Len(s) + 1} = {s[i] : i \in 1 .. Len(s)} \cup {name}
    <3>1. ASSUME NEW i \in 1 .. Len(s) + 1
          PROVE  t[i] \in {s[j] : j \in 1 .. Len(s)} \cup {name}
      <4>1. i \in 1 .. Len(s) \/ i = Len(s) + 1
        BY <2>3
      <4>. QED
        BY <2>1, <2>2, <4>1
    <3>2. ASSUME NEW i \in 1 .. Len(s)
          PROVE  s[i] \in {t[j] : j \in 1 .. Len(s) + 1}
      <4>1. i \in 1 .. Len(s) + 1
        BY <2>3
      <4>. QED
        BY <2>2, <4>1
    <3>3. name \in {t[j] : j \in 1 .. Len(s) + 1}
      <4>1. Len(s) + 1 \in 1 .. Len(s) + 1
        BY <2>3
      <4>. QED
        BY <2>1, <4>1
    <3>. QED
      BY <3>1, <3>2, <3>3
  <2>. QED
    BY <2>3, <2>4 DEF ToSet, t
<1>. QED
  BY <1>1, <1>2

\* The names of a path are those of its front and the last.
LEMMA FrontLastNames ==
  ASSUME NEW path \in Names, path # <<>>
  PROVE  ToSet(path) = ToSet(Front(path)) \cup {Last(path)}
<1>1. /\ Front(path) \in Names /\ Last(path) \in STRING
      /\ path = Append(Front(path), Last(path))
  BY FrontLast
<1>2. ToSet(Append(Front(path), Last(path))) = ToSet(Front(path)) \cup {Last(path)}
  BY <1>1, NamesOf, Zenon
<1>. QED
  BY <1>1, <1>2, Zenon

\* A cleaned absolute path has no "." and no "..".
LEMMA CleanIsDotFree ==
  \A names \in Names : CleanAbsolute(names) \in Names /\ DotFree(CleanAbsolute(names))
<1>. DEFINE P == {s \in Names : CleanAbsolute(s) \in Names /\ DotFree(CleanAbsolute(s))}
<1>1. <<>> \in P
  BY CleanOfEmpty, ConcatNames, NamesOf DEF CleanAbsolute, Absolute, DotFree
<1>2. ASSUME NEW s \in Names, NEW name \in STRING, s \in P
      PROVE  Append(s, name) \in P
  <2>. PICK done \in Names : done = CleanAbsolute(s)
    BY <1>2
  <2>1. CleanAbsolute(Append(s, name)) = CleanName(TRUE, done, name)
    BY CleanOfAppend DEF CleanAbsolute, Absolute
  <2>2. DotFree(done)
    BY <1>2
  <2>3. CleanName(TRUE, done, name) \in Names
    BY CleanNameType
  <2>4. DotFree(CleanName(TRUE, done, name))
    <3>1. CASE name = "."
      <4>1. CleanName(TRUE, done, name) = done
        BY <3>1 DEF CleanName
      <4>. QED
        BY <2>2, <4>1
    <3>2. CASE name = ".." /\ done = <<>>
      <4>1. CleanName(TRUE, done, name) = done
        BY <3>2 DEF CleanName
      <4>. QED
        BY <2>2, <4>1
    <3>3. CASE name = ".." /\ done # <<>>
      <4>1. Last(done) # ".."
        BY <2>2, <3>3, FrontLastNames DEF DotFree
      <4>2. CleanName(TRUE, done, name) = Front(done)
        BY <3>3, <4>1 DEF CleanName
      <4>3. ToSet(Front(done)) \subseteq ToSet(done)
        BY <3>3, FrontLastNames
      <4>. QED
        BY <2>2, <4>2, <4>3 DEF DotFree
    <3>4. CASE name # "." /\ name # ".."
      <4>1. CleanName(TRUE, done, name) = Append(done, name)
        BY <3>4 DEF CleanName
      <4>2. ToSet(Append(done, name)) = ToSet(done) \cup {name}
        BY NamesOf
      <4>. QED
        BY <2>2, <3>4, <4>1, <4>2 DEF DotFree
    <3>. QED
      BY <3>1, <3>2, <3>3, <3>4
  <2>5. Append(s, name) \in Names
    BY AppendProperties DEF Names
  <2>. QED
    BY <2>1, <2>3, <2>4, <2>5
<1>3. Names \subseteq P
  <2>. HIDE DEF P
  <2>. QED
    BY <1>1, <1>2, NamesInduction
<1>. QED
  BY <1>3

\* Clean keeps a path without them.
LEMMA CleanOfDotFree ==
  ASSUME NEW absolute
  PROVE  \A names \in Names :
           DotFree(names) => Clean([absolute |-> absolute, names |-> names]) = names
<1>. DEFINE P == {s \in Names : DotFree(s) =>
                   Clean([absolute |-> absolute, names |-> s]) = s}
<1>1. <<>> \in P
  BY CleanOfEmpty, ConcatNames
<1>2. ASSUME NEW s \in Names, NEW name \in STRING, s \in P
      PROVE  Append(s, name) \in P
  <2>1. Append(s, name) \in Names
    BY AppendProperties DEF Names
  <2>2. ASSUME DotFree(Append(s, name))
        PROVE  Clean([absolute |-> absolute, names |-> Append(s, name)]) = Append(s, name)
    <3>1. DotFree(s) /\ name # "." /\ name # ".."
      BY <2>2, NamesOf DEF DotFree
    <3>2. Clean([absolute |-> absolute, names |-> s]) = s
      BY <1>2, <3>1
    <3>3. Clean([absolute |-> absolute, names |-> Append(s, name)]) = CleanName(absolute, s, name)
      BY <3>2, CleanOfAppend
    <3>4. CleanName(absolute, s, name) = Append(s, name)
      BY <3>1 DEF CleanName
    <3>. QED
      BY <3>3, <3>4
  <2>. QED
    BY <2>1, <2>2
<1>3. Names \subseteq P
  <2>. HIDE DEF P
  <2>. QED
    BY <1>1, <1>2, NamesInduction
<1>. QED
  BY <1>3

(***************************************************************************)
(* Without "..", Clean leads where the system goes: a "." asks no more     *)
(* than that there is a directory, which any name after it asks as well.   *)
(***************************************************************************)
LEMMA CleanOfLonger ==
  ASSUME NEW names \in Names, NEW name \in STRING, name # ".."
  PROVE  CleanAbsolute(Append(names, name))
           = IF name = "." THEN CleanAbsolute(names) ELSE Append(CleanAbsolute(names), name)
<1>1. CleanAbsolute(Append(names, name)) = CleanName(TRUE, CleanAbsolute(names), name)
  BY CleanOfAppend DEF CleanAbsolute, Absolute
<1>2. CASE name = "."
  BY <1>1, <1>2 DEF CleanName
<1>3. CASE name # "."
  BY <1>1, <1>3 DEF CleanName
<1>. QED
  BY <1>2, <1>3

\* The elements of a path.
LEMMA ElementsOfPath ==
  ASSUME NEW path \in Names
  PROVE  /\ Len(path) \in Nat
         /\ path = <<>> <=> Len(path) = 0
         /\ ToSet(path) = {path[i] : i \in 1 .. Len(path)}
<1>1. Len(path) \in Nat /\ DOMAIN path = 1 .. Len(path)
  BY LenProperties DEF Names
<1>2. path = <<>> <=> Len(path) = 0
  BY EmptySeq DEF Names
<1>. QED
  BY <1>1, <1>2 DEF ToSet

\* The elements of a longer path.
LEMMA AppendNames ==
  \A s \in Names, name \in STRING :
    /\ Append(s, name) \in Names
    /\ Len(Append(s, name)) = Len(s) + 1
    /\ \A i \in 1 .. Len(s) : Append(s, name)[i] = s[i]
    /\ Append(s, name)[Len(s) + 1] = name
<1>1. ASSUME NEW s \in Seq(STRING), NEW name \in STRING
      PROVE  /\ Append(s, name) \in Seq(STRING)
             /\ Len(Append(s, name)) = Len(s) + 1
             /\ \A i \in 1 .. Len(s) : Append(s, name)[i] = s[i]
             /\ Append(s, name)[Len(s) + 1] = name
  <2>1. Append(s, name) \in Seq(STRING)
    BY AppendProperties
  <2>2. Len(Append(s, name)) = Len(s) + 1
    BY AppendProperties
  <2>3. \A i \in 1 .. Len(s) : Append(s, name)[i] = s[i]
    BY AppendProperties
  <2>4. Append(s, name)[Len(s) + 1] = name
    BY AppendProperties
  <2>. QED
    BY <2>1, <2>2, <2>3, <2>4, Zenon
<1>. QED
  BY <1>1, Zenon DEF Names

\* The front of a path one name longer.
LEMMA FrontOfLonger ==
  ASSUME NEW path \in Names, NEW name \in STRING
  PROVE  /\ Append(path, name) # <<>>
         /\ Front(Append(path, name)) = path
         /\ Last(Append(path, name)) = name
<1>1. PICK longer \in Names : longer = Append(path, name)
  BY AppendNames
<1>2. /\ Len(path) \in Nat /\ Len(longer) = Len(path) + 1
      /\ \A i \in 1 .. Len(path) : longer[i] = path[i]
      /\ longer[Len(path) + 1] = name
  BY <1>1, AppendNames, ElementsOfPath
<1>3. longer # <<>>
  BY <1>2, ElementsOfPath
<1>4. Last(longer) = name
  BY <1>2 DEF Last
<1>5. Front(longer) = path
  <2>1. /\ Front(longer) \in Names /\ Len(Front(longer)) = Len(path)
        /\ \A i \in 1 .. Len(path) : Front(longer)[i] = path[i]
    BY <1>2, <1>3, FrontLast
  <2>. QED
    BY <2>1, SeqEqual DEF Names
<1>. QED
  BY <1>1, <1>3, <1>4, <1>5

\* One more name at the end of two ways in a row.
LEMMA ConcatAppend ==
  ASSUME NEW s \in Names, NEW t \in Names, NEW name \in STRING
  PROVE  s \o t \in Names /\ s \o Append(t, name) = Append(s \o t, name)
<1>1. PICK only \in Names :
        /\ Append(t, name) = t \o only
        /\ \A u \in Names : Append(u, name) = u \o only
  BY OnlyNames, Zenon
<1>2. s \o t \in Names /\ s \o (t \o only) = (s \o t) \o only
  BY ConcatNames, Zenon
<1>. QED
  BY <1>1, <1>2, Zenon

CleanRelative(names) == Clean(Relative(names))

\* A relative path that was cleaned before it is joined comes to the same.
LEMMA CleanTwice ==
  ASSUME NEW base \in Names
  PROVE  \A names \in Names :
           /\ CleanRelative(names) \in Names
           /\ CleanAbsolute(base \o CleanRelative(names)) = CleanAbsolute(base \o names)
<1>. DEFINE P == {s \in Names :
                    /\ CleanRelative(s) \in Names /\ "." \notin ToSet(CleanRelative(s))
                    /\ CleanAbsolute(base \o CleanRelative(s)) = CleanAbsolute(base \o s)}
<1>1. <<>> \in P
  <2>1. CleanRelative(<<>>) = <<>>
    BY CleanOfEmpty DEF CleanRelative, Relative
  <2>. QED
    BY <2>1, ConcatNames, NamesOf
<1>2. ASSUME NEW s \in Names, NEW name \in STRING, s \in P
      PROVE  Append(s, name) \in P
  <2>1. PICK done \in Names :
          /\ done = CleanRelative(s) /\ "." \notin ToSet(done)
          /\ CleanAbsolute(base \o done) = CleanAbsolute(base \o s)
    BY <1>2
  <2>2. /\ CleanRelative(Append(s, name)) = CleanName(FALSE, done, name)
        /\ CleanName(FALSE, done, name) \in Names /\ Append(s, name) \in Names
    BY <2>1, CleanOfAppend, CleanNameType, AppendNames DEF CleanRelative, Relative
  <2>3. ASSUME NEW t \in Names, NEW n \in STRING
        PROVE  CleanAbsolute(base \o Append(t, n))
                 = CleanName(TRUE, CleanAbsolute(base \o t), n)
    <3>1. PICK both \in Names :
            both = base \o t /\ base \o Append(t, n) = Append(both, n)
      BY ConcatAppend, ZenonT(60)
    <3>2. CleanAbsolute(Append(both, n)) = CleanName(TRUE, CleanAbsolute(both), n)
      BY CleanOfAppend DEF CleanAbsolute, Absolute
    <3>. QED
      BY <3>1, <3>2
  <2>4. CleanAbsolute(base \o Append(s, name))
          = CleanName(TRUE, CleanAbsolute(base \o done), name)
    BY <2>1, <2>3
  <2>5. CASE name = "."
    BY <2>1, <2>2, <2>4, <2>5 DEF CleanName
  <2>6. CASE name = ".." /\ done # <<>> /\ Last(done) # ".."
    <3>1. PICK front \in Names, last \in STRING :
            front = Front(done) /\ last = Last(done) /\ done = Append(front, last)
      BY <2>6, FrontLast
    <3>2. last # "." /\ last # ".." /\ ToSet(front) \subseteq ToSet(done)
      BY <2>1, <2>6, <3>1, FrontLastNames
    <3>3. CleanName(FALSE, done, name) = front
      BY <2>6, <3>1 DEF CleanName
    <3>4. PICK upper \in Names : upper = CleanAbsolute(base \o front)
      BY <3>1, ConcatNames, CleanIsDotFree
    <3>5. CleanAbsolute(base \o done) = Append(upper, last)
      BY <2>3, <3>1, <3>2, <3>4 DEF CleanName
    <3>6. CleanName(TRUE, Append(upper, last), name) = upper
      BY <2>6, <3>2, FrontOfLonger DEF CleanName
    <3>. QED
      BY <2>1, <2>2, <2>4, <3>2, <3>3, <3>4, <3>5, <3>6
  <2>7. CASE \/ name # "." /\ name # ".."
             \/ name = ".." /\ (done = <<>> \/ Last(done) = "..")
    <3>1. CleanName(FALSE, done, name) = Append(done, name)
      BY <2>7 DEF CleanName
    <3>2. CleanAbsolute(base \o Append(done, name))
            = CleanName(TRUE, CleanAbsolute(base \o done), name)
      BY <2>3
    <3>3. "." \notin ToSet(Append(done, name))
      BY <2>1, <2>7, NamesOf
    <3>. QED
      BY <2>2, <2>4, <3>1, <3>2, <3>3
  <2>. QED
    BY <2>5, <2>6, <2>7
<1>3. Names \subseteq P
  <2>. HIDE DEF P
  <2>. QED
    BY <1>1, <1>2, NamesInduction
<1>. QED
  BY <1>3

\* There is nothing below a file.
LEMMA BelowFile ==
  ASSUME NEW files, IsTree(files), NEW from \in Names, IsFile(files, from),
         NEW way \in Names, way # <<>>, NEW links \in Nat
  PROVE  Walk(files, from, way, links) = NoPath
<1>. DEFINE at == At(from, way, links)
<1>1. at \in Positions /\ at.done = from /\ at.todo = way
  BY AtPosition DEF At
<1>2. Walk(files, from, way, links) = WalkIn(files)[at]
  BY DEF Walk
<1>. HIDE DEF at
<1>3. WalkIn(files)[at] = WalkBody(WalkIn(files), files, at)
  BY <1>1, WalkUnfolds
<1>4. Fails(files, at)
  BY <1>1 DEF Fails
<1>. QED
  BY <1>2, <1>3, <1>4 DEF WalkBody

\* A "." on the way can be left out, unless it is the last name and the walk
\* fails.
LEMMA DotAhead ==
  ASSUME NEW files, IsTree(files), NEW dot \in STRING, dot = ".",
         NEW way \in Names, NEW more \in Names, NEW links \in Nat,
         \/ Walk(files, <<>>, way \o (Only(dot) \o more), links) # NoPath
         \/ more # <<>>
  PROVE  Walk(files, <<>>, way \o (Only(dot) \o more), links)
           = Walk(files, <<>>, way \o more, links)
<1>1. Only(dot) \o more \in Names /\ Only(dot) \o more # <<>> /\ <<>> \in Names
  BY OnlyBefore, ConcatNames, Zenon
<1>2. CASE Walk(files, <<>>, way, links) = NoPath
  BY <1>1, <1>2, WalkOn
<1>3. CASE Walk(files, <<>>, way, links) # NoPath
  <2>. PICK end : end = Walk(files, <<>>, way, links)
    OBVIOUS
  <2>1. end \in DOMAIN files /\ ~ IsLink(files, end) /\ end \in Names
    BY <1>1, <1>3, WalkType
  <2>2. PICK left \in Nat : Continues(files, <<>>, way, links, left)
    BY <1>1, <1>3, WalkOn
  <2>3. links + 0 = links /\ left + 0 = left
    OBVIOUS
  <2>4. \A u \in Names : Walk(files, <<>>, way \o u, links) = Walk(files, end, u, left)
    BY <2>2, <2>3 DEF Continues
  <2>5. CASE IsDirectory(files, end)
    <3>1. Enter(end, dot) = end
      BY DEF Enter
    <3>2. Walk(files, end, Only(dot) \o more, left) = Walk(files, end, more, left)
      BY <2>1, <2>5, <3>1, WalkEnters
    <3>. QED
      BY <1>1, <2>4, <3>2
  <2>6. CASE IsFile(files, end)
    <3>1. Walk(files, end, Only(dot) \o more, left) = NoPath
      BY <1>1, <2>1, <2>6, BelowFile
    <3>2. Walk(files, <<>>, way \o (Only(dot) \o more), links) = NoPath
      BY <1>1, <2>4, <3>1
    <3>3. more # <<>>
      BY <3>2
    <3>4. Walk(files, end, more, left) = NoPath
      BY <2>1, <2>6, <3>3, BelowFile
    <3>. QED
      BY <2>4, <3>2, <3>4
  <2>. QED
    BY <2>1, <2>5, <2>6, NodeKinds
<1>. QED
  BY <1>2, <1>3

\* The cleaned path leads where the path does.
LEMMA CleanLeadsThere ==
  ASSUME NEW files, IsTree(files), NEW links \in Nat
  PROVE  \A names \in Names : ".." \notin ToSet(names) =>
           \A more \in Names :
             Walk(files, <<>>, names \o more, links) # NoPath \/ more # <<>> =>
               Walk(files, <<>>, names \o more, links)
                 = Walk(files, <<>>, CleanAbsolute(names) \o more, links)
<1>. DEFINE Same(s) == \A more \in Names :
             Walk(files, <<>>, s \o more, links) # NoPath \/ more # <<>> =>
               Walk(files, <<>>, s \o more, links)
                 = Walk(files, <<>>, CleanAbsolute(s) \o more, links)
            P == {s \in Names : ".." \notin ToSet(s) => Same(s)}
<1>1. <<>> \in P
  BY CleanOfEmpty, ConcatNames DEF CleanAbsolute, Absolute
<1>2. ASSUME NEW s \in Names, NEW name \in STRING, s \in P
      PROVE  Append(s, name) \in P
  <2>1. Append(s, name) \in Names
    BY AppendProperties DEF Names
  <2>2. SUFFICES ASSUME ".." \notin ToSet(Append(s, name)) PROVE Same(Append(s, name))
    BY <2>1
  <2>3. ".." \notin ToSet(s) /\ name # ".."
    BY <2>2, NamesOf
  <2>4. Same(s)
    BY <1>2, <2>3
  <2>. HIDE DEF P
  <2>. SUFFICES ASSUME NEW more \in Names,
                       Walk(files, <<>>, Append(s, name) \o more, links) # NoPath \/ more # <<>>
                PROVE  Walk(files, <<>>, Append(s, name) \o more, links)
                         = Walk(files, <<>>, CleanAbsolute(Append(s, name)) \o more, links)
    OBVIOUS
  <2>5. PICK next \in Names : next = Only(name) \o more /\ next # <<>>
    BY OnlyBefore, Zenon
  <2>6. \A t \in Names : Append(t, name) \o more = t \o next
    BY <2>5, OnlyBefore, Zenon
  <2>7. Walk(files, <<>>, s \o next, links) = Walk(files, <<>>, CleanAbsolute(s) \o next, links)
    BY <2>4, <2>5
  <2>8. CleanAbsolute(s) \in Names
    BY CleanIsDotFree
  <2>9. CASE name = "."
    <3>1. CleanAbsolute(Append(s, name)) = CleanAbsolute(s)
      BY <2>9, CleanOfLonger
    <3>2. Walk(files, <<>>, CleanAbsolute(s) \o next, links) # NoPath \/ more # <<>>
      BY <2>6, <2>7
    <3>3. Walk(files, <<>>, CleanAbsolute(s) \o next, links)
            = Walk(files, <<>>, CleanAbsolute(s) \o more, links)
      BY <2>5, <2>8, <2>9, <3>2, DotAhead
    <3>. QED
      BY <2>6, <2>7, <3>1, <3>3
  <2>10. CASE name # "."
    <3>1. CleanAbsolute(Append(s, name)) = Append(CleanAbsolute(s), name)
      BY <2>3, <2>10, CleanOfLonger
    <3>2. CleanAbsolute(Append(s, name)) \o more = CleanAbsolute(s) \o next
      BY <2>6, <2>8, <3>1
    <3>. QED
      BY <2>6, <2>7, <3>2
  <2>. QED
    BY <2>9, <2>10
<1>3. Names \subseteq P
  <2>. HIDE DEF P
  <2>. QED
    BY <1>1, <1>2, NamesInduction
<1>. QED
  BY <1>3

-----------------------------------------------------------------------------
(***************************************************************************)
(* A path up to a name and after it.                                       *)
(***************************************************************************)
UpTo(path, n) == SubSeq(path, 1, n)
After(path, n) == SubSeq(path, n + 1, Len(path))

\* The parts of a path make it up.
LEMMA PathParts ==
  ASSUME NEW path \in Names, NEW n \in 0 .. Len(path)
  PROVE  /\ UpTo(path, n) \in Names /\ After(path, n) \in Names
         /\ Len(path) \in Nat /\ n \in Nat
         /\ Len(UpTo(path, n)) = n /\ Len(After(path, n)) = Len(path) - n
         /\ \A i \in 1 .. n : UpTo(path, n)[i] = path[i]
         /\ \A i \in 1 .. Len(path) - n : After(path, n)[i] = path[n + i]
         /\ path = UpTo(path, n) \o After(path, n)
<1>1. Len(path) \in Nat /\ \A i \in 1 .. Len(path) : path[i] \in STRING
  BY LenProperties, ElementOfSeq DEF Names
<1>2. n \in Nat /\ n <= Len(path)
  BY <1>1
<1>3. /\ UpTo(path, n) \in Seq(STRING) /\ Len(UpTo(path, n)) = n
      /\ \A i \in 1 .. n : UpTo(path, n)[i] = path[i]
  <2>1. 1 \in Int /\ n \in Int /\ \A i \in 1 .. n : path[i] \in STRING
    BY <1>1, <1>2
  <2>2. /\ SubSeq(path, 1, n) \in Seq(STRING)
        /\ Len(SubSeq(path, 1, n)) = IF 1 <= n THEN n - 1 + 1 ELSE 0
        /\ \A i \in 1 .. n - 1 + 1 : SubSeq(path, 1, n)[i] = path[1 + i - 1]
    BY <2>1, SubSeqProperties
  <2>. QED
    BY <1>2, <2>2 DEF UpTo
<1>4. /\ After(path, n) \in Seq(STRING) /\ Len(After(path, n)) = Len(path) - n
      /\ \A i \in 1 .. Len(path) - n : After(path, n)[i] = path[n + i]
  <2>1. PICK m \in Int : m = n + 1
    BY <1>2
  <2>2. Len(path) \in Int /\ \A i \in m .. Len(path) : path[i] \in STRING
    BY <1>1, <1>2, <2>1
  <2>3. /\ SubSeq(path, m, Len(path)) \in Seq(STRING)
        /\ Len(SubSeq(path, m, Len(path))) = IF m <= Len(path) THEN Len(path) - m + 1 ELSE 0
        /\ \A i \in 1 .. Len(path) - m + 1 : SubSeq(path, m, Len(path))[i] = path[m + i - 1]
    BY <2>2, SubSeqProperties
  <2>. QED
    BY <1>1, <1>2, <2>1, <2>3 DEF After
<1>5. path = UpTo(path, n) \o After(path, n)
  <2>. PICK up \in Seq(STRING), after \in Seq(STRING) : up = UpTo(path, n) /\ after = After(path, n)
    BY <1>3, <1>4
  <2>1. /\ up \o after \in Seq(STRING)
        /\ Len(up \o after) = Len(up) + Len(after)
        /\ \A i \in 1 .. Len(up) + Len(after) :
             (up \o after)[i] = IF i <= Len(up) THEN up[i] ELSE after[i - Len(up)]
    BY ConcatProperties
  <2>2. Len(up) = n /\ Len(after) = Len(path) - n
    BY <1>3, <1>4
  <2>3. ASSUME NEW i \in 1 .. Len(path)
        PROVE  path[i] = (up \o after)[i]
    <3>1. (up \o after)[i] = IF i <= n THEN up[i] ELSE after[i - n]
      BY <1>1, <1>2, <2>1, <2>2
    <3>2. CASE i <= n
      BY <1>2, <1>3, <3>1, <3>2
    <3>3. CASE ~ (i <= n)
      <4>1. i - n \in 1 .. Len(path) - n /\ n + (i - n) = i
        BY <1>1, <1>2, <3>3
      <4>2. after[i - n] = path[i]
        BY <1>4, <4>1
      <4>. QED
        BY <3>1, <3>3, <4>2
    <3>. QED
      BY <3>2, <3>3
  <2>4. Len(path) = Len(up \o after)
    BY <1>1, <1>2, <2>1, <2>2
  <2>5. path \in Seq(STRING)
    BY DEF Names
  <2>6. path = up \o after
    BY <2>1, <2>3, <2>4, <2>5, SeqEqual
  <2>. QED
    BY <2>6
<1>. QED
  BY <1>1, <1>2, <1>3, <1>4, <1>5 DEF Names

\* A part has no name that the path has not.
LEMMA NamesOfParts ==
  ASSUME NEW path \in Names, NEW n \in 0 .. Len(path)
  PROVE  /\ ToSet(UpTo(path, n)) \subseteq ToSet(path)
         /\ ToSet(After(path, n)) \subseteq ToSet(path)
<1>1. PICK up \in Names, after \in Names :
        /\ up = UpTo(path, n) /\ after = After(path, n)
        /\ Len(path) \in Nat /\ n \in Nat /\ Len(up) = n /\ Len(after) = Len(path) - n
        /\ \A i \in 1 .. n : up[i] = path[i]
        /\ \A i \in 1 .. Len(path) - n : after[i] = path[n + i]
  BY PathParts
<1>2. /\ ToSet(up) = {up[i] : i \in 1 .. n}
      /\ ToSet(after) = {after[i] : i \in 1 .. Len(path) - n}
      /\ ToSet(path) = {path[i] : i \in 1 .. Len(path)}
  BY <1>1, ElementsOfPath
<1>3. \A i \in 1 .. n : i \in 1 .. Len(path)
  BY <1>1
<1>4. \A i \in 1 .. Len(path) - n : n + i \in 1 .. Len(path)
  BY <1>1
<1>5. ToSet(up) \subseteq ToSet(path)
  <2>1. \A i \in 1 .. n : up[i] \in {path[j] : j \in 1 .. Len(path)}
    BY <1>1, <1>3
  <2>. QED
    BY <1>2, <2>1, Zenon
<1>6. ToSet(after) \subseteq ToSet(path)
  <2>1. \A i \in 1 .. Len(path) - n : after[i] \in {path[j] : j \in 1 .. Len(path)}
    BY <1>1, <1>4
  <2>. QED
    BY <1>2, <2>1, Zenon
<1>. QED
  BY <1>1, <1>5, <1>6, Zenon

\* The names of two ways in a row.
LEMMA NamesOfConcat ==
  ASSUME NEW s \in Names, NEW t \in Names
  PROVE  ToSet(s \o t) = ToSet(s) \cup ToSet(t)
<1>. DEFINE P == {u \in Names : ToSet(s \o u) = ToSet(s) \cup ToSet(u)}
<1>1. <<>> \in P
  BY ConcatNames, NamesOf
<1>2. ASSUME NEW u \in Names, NEW name \in STRING, u \in P
      PROVE  Append(u, name) \in P
  <2>1. Append(u, name) \in Names /\ s \o u \in Names
    BY AppendProperties, ConcatNames DEF Names
  <2>2. s \o Append(u, name) = Append(s \o u, name)
    <3>1. PICK only \in Names : only = Only(name)
      BY OnlyNames
    <3>2. Append(u, name) = u \o only /\ Append(s \o u, name) = (s \o u) \o only
      BY <2>1, <3>1, OnlyNames, Zenon
    <3>3. s \o (u \o only) = (s \o u) \o only
      BY ConcatNames, Zenon
    <3>. QED
      BY <3>2, <3>3, Zenon
  <2>3. ToSet(Append(s \o u, name)) = ToSet(s \o u) \cup {name}
    BY <2>1, NamesOf, Zenon
  <2>4. ToSet(Append(u, name)) = ToSet(u) \cup {name}
    BY NamesOf, Zenon
  <2>5. ToSet(s \o u) = ToSet(s) \cup ToSet(u)
    BY <1>2
  <2>. HIDE DEF P
  <2>6. ToSet(s \o Append(u, name)) = ToSet(s) \cup ToSet(Append(u, name))
    BY <2>2, <2>3, <2>4, <2>5
  <2>. QED
    BY <2>1, <2>6 DEF P
<1>3. Names \subseteq P
  <2>. HIDE DEF P
  <2>. QED
    BY <1>1, <1>2, NamesInduction
<1>. QED
  BY <1>3

\* What follows a part is determined.
LEMMA CancelNames ==
  \A s, t, u \in Names : s \o t = s \o u => t = u
<1>1. \A S : \A s, t, v \in Seq(S) : s \o t = s \o v => t = v
  BY ConcatSimplifications, Zenon
<1>. QED
  BY <1>1, Zenon DEF Names

\* The next part of a path is one name longer.
LEMMA NextPart ==
  ASSUME NEW path \in Names, NEW n \in 0 .. Len(path), n # Len(path)
  PROVE  /\ n + 1 \in 0 .. Len(path)
         /\ \E name \in STRING :
              /\ UpTo(path, n + 1) = Append(UpTo(path, n), name)
              /\ After(path, n) = Only(name) \o After(path, n + 1)
<1>1. Len(path) \in Nat /\ n \in Nat /\ n + 1 \in 0 .. Len(path) /\ n + 1 \in 1 .. Len(path)
  BY ElementsOfPath
<1>2. PICK name \in STRING : name = path[n + 1]
  BY <1>1, ElementOfSeq DEF Names
<1>3. UpTo(path, n + 1) = Append(UpTo(path, n), name)
  <2>. PICK up \in Names, upper \in Names :
         /\ up = UpTo(path, n) /\ upper = UpTo(path, n + 1)
         /\ Len(up) = n /\ Len(upper) = n + 1
         /\ \A i \in 1 .. n : up[i] = path[i]
         /\ \A i \in 1 .. n + 1 : upper[i] = path[i]
    BY <1>1, PathParts
  <2>1. /\ Append(up, name) \in Names
        /\ Len(Append(up, name)) = n + 1
        /\ Append(up, name)[n + 1] = name
    <3>1. /\ Append(up, name) \in Names
          /\ Len(Append(up, name)) = Len(up) + 1
          /\ Append(up, name)[Len(up) + 1] = name
      BY AppendNames, Zenon
    <3>. QED
      BY <3>1, Zenon
  <2>2. \A i \in 1 .. n : Append(up, name)[i] = up[i]
    <3>1. \A i \in 1 .. Len(up) : Append(up, name)[i] = up[i]
      BY AppendNames, Zenon
    <3>. QED
      BY <3>1, Zenon
  <2>3. ASSUME NEW i \in 1 .. n + 1
        PROVE  upper[i] = Append(up, name)[i]
    <3>1. i \in 1 .. n \/ i = n + 1
      BY <1>1
    <3>. QED
      BY <1>2, <2>1, <2>2, <3>1
  <2>4. upper = Append(up, name)
    BY <2>1, <2>3, SeqEqual DEF Names
  <2>. QED
    BY <2>4
<1>4. After(path, n) = Only(name) \o After(path, n + 1)
  <2>. PICK up \in Names, after \in Names, later \in Names, next \in Names :
         /\ up = UpTo(path, n) /\ after = After(path, n)
         /\ later = After(path, n + 1) /\ next = Only(name) \o later
    <3>1. After(path, n + 1) \in Names /\ UpTo(path, n) \in Names /\ After(path, n) \in Names
      BY <1>1, PathParts
    <3>. QED
      BY <3>1, OnlyBefore, Zenon
  <2>1. path = up \o after
    BY PathParts
  <2>2. path = Append(up, name) \o later
    <3>1. path = UpTo(path, n + 1) \o After(path, n + 1)
      BY <1>1, PathParts
    <3>. QED
      BY <1>3, <3>1, Zenon
  <2>3. Append(up, name) \o later = up \o next
    BY OnlyBefore, ZenonT(60)
  <2>4. after = next
    <3>1. up \o after = up \o next
      BY <2>1, <2>2, <2>3, Zenon
    <3>. QED
      BY <3>1, CancelNames, Zenon
  <2>. QED
    BY <2>4
<1>. QED
  BY <1>1, <1>3, <1>4

\* The longest part and the shortest.
LEMMA WholePath ==
  ASSUME NEW path \in Names
  PROVE  /\ Len(path) \in 0 .. Len(path) /\ 0 \in 0 .. Len(path)
         /\ UpTo(path, Len(path)) = path /\ After(path, Len(path)) = <<>>
         /\ UpTo(path, 0) = <<>> /\ After(path, 0) = path
<1>1. Len(path) \in 0 .. Len(path) /\ 0 \in 0 .. Len(path)
  BY ElementsOfPath
<1>2. After(path, Len(path)) = <<>>
  <2>1. After(path, Len(path)) \in Names /\ Len(After(path, Len(path))) = Len(path) - Len(path)
    BY <1>1, PathParts
  <2>2. Len(path) - Len(path) = 0
    BY ElementsOfPath
  <2>. QED
    BY <2>1, <2>2, ElementsOfPath
<1>3. UpTo(path, 0) = <<>>
  <2>1. UpTo(path, 0) \in Names /\ Len(UpTo(path, 0)) = 0
    BY <1>1, PathParts
  <2>. QED
    BY <2>1, ElementsOfPath
<1>4. UpTo(path, Len(path)) \o <<>> = path /\ <<>> \o After(path, 0) = path
  BY <1>1, <1>2, <1>3, PathParts
<1>5. UpTo(path, Len(path)) \in Names /\ After(path, 0) \in Names
  BY <1>1, PathParts
<1>. QED
  BY <1>1, <1>2, <1>3, <1>4, <1>5, ConcatNames

(***************************************************************************)
(* A prefix is what a path goes on from.                                   *)
(***************************************************************************)
LEMMA Prefix ==
  ASSUME NEW s \in Names, NEW path \in Names
  PROVE  /\ IsPrefix(s, path) <=> Len(s) \in 0 .. Len(path) /\ UpTo(path, Len(s)) = s
         /\ \A t \in Names : path = s \o t => IsPrefix(s, path) /\ After(path, Len(s)) = t
<1>1. UpTo(s, Len(s)) = s
  BY WholePath
<1>2. Len(s) \in Nat /\ Len(path) \in Nat
  BY ElementsOfPath
<1>3. IsPrefix(s, path) <=> Len(s) \in 0 .. Len(path) /\ UpTo(path, Len(s)) = s
  <2>1. IsPrefix(s, path) <=> Len(s) <= Len(path) /\ UpTo(s, Len(s)) = UpTo(path, Len(s))
    BY Zenon DEF IsPrefix, UpTo
  <2>2. Len(s) <= Len(path) <=> Len(s) \in 0 .. Len(path)
    BY <1>2
  <2>. QED
    BY <1>1, <2>1, <2>2
<1>4. ASSUME NEW t \in Names, path = s \o t
      PROVE  IsPrefix(s, path) /\ After(path, Len(s)) = t
  <2>1. /\ Len(path) = Len(s) + Len(t)
        /\ \A i \in 1 .. Len(s) + Len(t) : path[i] = IF i <= Len(s) THEN s[i] ELSE t[i - Len(s)]
    BY <1>4, ConcatProperties DEF Names
  <2>2. Len(t) \in Nat
    BY ElementsOfPath
  <2>3. Len(s) \in 0 .. Len(path)
    BY <1>2, <2>1, <2>2
  <2>4. PICK up \in Names : /\ up = UpTo(path, Len(s)) /\ Len(up) = Len(s)
                            /\ \A i \in 1 .. Len(s) : up[i] = path[i]
    BY <2>3, PathParts
  <2>5. \A i \in 1 .. Len(s) : up[i] = s[i]
    BY <1>2, <2>1, <2>2, <2>4
  <2>6. up = s
    BY <2>4, <2>5, SeqEqual DEF Names
  <2>7. path = s \o After(path, Len(s)) /\ After(path, Len(s)) \in Names
    <3>1. path = UpTo(path, Len(s)) \o After(path, Len(s)) /\ After(path, Len(s)) \in Names
      BY <2>3, PathParts
    <3>. QED
      BY <2>4, <2>6, <3>1, Zenon
  <2>8. After(path, Len(s)) = t
    BY <1>4, <2>7, CancelNames, Zenon
  <2>. QED
    BY <1>3, <2>3, <2>4, <2>6, <2>8
<1>. QED
  BY <1>3, <1>4

\* The maximum of a bounded set of numbers.
LEMMA MaxOf ==
  ASSUME NEW n \in Nat, NEW S \in SUBSET (0 .. n), S # {}
  PROVE  Max(S) \in S /\ \A k \in S : k <= Max(S)
<1>. DEFINE T == {n - k : k \in S}
<1>1. T \in SUBSET Nat /\ T # {}
  OBVIOUS
<1>2. PICK x \in T : \A y \in T : x <= y
  <2>. HIDE DEF T
  <2>. QED
    BY <1>1, LeastElement
<1>3. PICK m \in S : x = n - m
  BY <1>2
<1>4. \A k \in S : m >= k
  BY <1>2, <1>3
<1>5. Max(S) \in S /\ \A k \in S : Max(S) >= k
  BY <1>4, Zenon DEF Max
<1>. QED
  BY <1>5

(***************************************************************************)
(* A path without ".." lies within the root exactly if the root is a       *)
(* prefix of it, and the relative path is then what comes after the root.  *)
(***************************************************************************)
LEMMA RelToRoot ==
  ASSUME NEW base \in Names, NEW path \in Names, DotFree(path)
  PROVE  /\ PathWithinRoot(base, path) <=> IsPrefix(base, path)
         /\ IsPrefix(base, path) => Rel(base, path) = After(path, Len(base))
<1>. DEFINE shared == {n \in 0 .. Len(base) : IsPrefix(UpTo(base, n), path)}
            common == Max(shared)
            up == [i \in 1 .. Len(base) - common |-> ".."]
<1>1. Len(base) \in Nat /\ Len(path) \in Nat
  BY ElementsOfPath
<1>2. 0 \in shared
  <2>1. 0 \in 0 .. Len(base) /\ UpTo(base, 0) = <<>> /\ <<>> \in Names /\ <<>> \o path = path
    BY WholePath, ConcatNames
  <2>2. IsPrefix(<<>>, path)
    BY <2>1, Prefix
  <2>. QED
    BY <2>1, <2>2
<1>3. common \in shared /\ \A n \in shared : n <= common
  <2>1. shared \in SUBSET (0 .. Len(base)) /\ shared # {}
    BY <1>2
  <2>. HIDE DEF shared
  <2>. QED
    BY <1>1, <2>1, MaxOf
<1>4. Rel(base, path) = up \o After(path, common)
  BY Zenon DEF Rel, UpTo, After
<1>5. /\ common \in Nat /\ common <= Len(base)
      /\ Len(UpTo(base, common)) = common /\ UpTo(base, common) \in Names
  BY <1>1, <1>3, PathParts
<1>6. common \in 0 .. Len(path)
  BY <1>3, <1>5, Prefix
<1>7. After(path, common) \in Names /\ ToSet(After(path, common)) \subseteq ToSet(path)
  BY <1>6, PathParts, NamesOfParts
<1>8. CASE IsPrefix(base, path)
  <2>1. Len(base) \in shared
    BY <1>8, WholePath
  <2>2. common = Len(base)
    BY <1>1, <1>3, <1>5, <2>1
  <2>. HIDE DEF common
  <2>3. up = <<>>
    BY <1>1, <2>2
  <2>4. Rel(base, path) = After(path, Len(base))
    BY <1>4, <1>7, <2>2, <2>3, ConcatNames
  <2>5. \A i \in 1 .. Len(After(path, common)) : After(path, common)[i] # ".."
    BY <1>7, ElementsOfPath DEF DotFree
  <2>6. After(path, common) # <<>> => After(path, common)[1] # ".."
    <3>1. After(path, common) # <<>> => 1 \in 1 .. Len(After(path, common))
      BY <1>7, ElementsOfPath
    <3>. QED
      BY <2>5, <3>1
  <2>7. PathWithinRoot(base, path)
    BY <2>2, <2>4, <2>6 DEF PathWithinRoot
  <2>. QED
    BY <1>8, <2>4, <2>7
<1>9. CASE ~ IsPrefix(base, path)
  <2>1. common # Len(base)
    BY <1>3, <1>9, WholePath
  <2>2. common < Len(base)
    BY <1>1, <1>5, <2>1
  <2>. HIDE DEF common
  <2>3. PICK k \in Nat \ {0} : k = Len(base) - common
    BY <1>1, <1>5, <2>2
  <2>. DEFINE S == STRING \cup {".."}
  <2>4. up \in Seq(S) /\ Len(up) = k /\ up[1] = ".."
    BY <2>3
  <2>5. PICK rest \in Seq(S) : rest = After(path, common)
    BY <1>7, SeqMonotonic DEF Names
  <2>. HIDE DEF up, S
  <2>6. /\ Len(up \o rest) = Len(up) + Len(rest) /\ up \o rest \in Seq(S)
        /\ \A i \in 1 .. Len(up) + Len(rest) :
             (up \o rest)[i] = IF i <= Len(up) THEN up[i] ELSE rest[i - Len(up)]
    BY <2>4, ConcatProperties
  <2>7. Len(rest) \in Nat
    BY LenProperties
  <2>8. (up \o rest)[1] = ".." /\ up \o rest # <<>>
    <3>1. 1 \in 1 .. Len(up) + Len(rest) /\ 1 <= Len(up)
      BY <2>3, <2>4, <2>7
    <3>2. (up \o rest)[1] = ".."
      BY <2>4, <2>6, <3>1
    <3>3. Len(up \o rest) # 0
      BY <2>3, <2>4, <2>6, <2>7
    <3>. QED
      BY <3>2, <3>3, EmptySeq
  <2>9. ~ PathWithinRoot(base, path)
    BY <1>4, <2>5, <2>8 DEF PathWithinRoot
  <2>. QED
    BY <1>9, <2>9
<1>. QED
  BY <1>8, <1>9

-----------------------------------------------------------------------------
(***************************************************************************)
(* What EvaluatePathForBoundary returns: the longest part of the path that *)
(* resolves, resolved, and what comes after it.                            *)
(***************************************************************************)
LEMMA ResolvedStays ==
  ASSUME NEW files, IsTree(files), NEW path \in DOMAIN files, ~ IsLink(files, path)
  PROVE  EvalSymlinks(files, path) = path
<1>1. path \in Names /\ <<>> \in Names
  BY NodeKinds, ConcatNames
<1>2. Walk(files, <<>>, path \o <<>>, MaxLinks) = Walk(files, path, <<>>, MaxLinks)
  BY <1>1, LinksAssumption, WalkAlongExisting
<1>3. Walk(files, path, <<>>, MaxLinks) = path
  BY LinksAssumption, WalkStays
<1>. QED
  BY <1>1, <1>2, <1>3, ConcatNames DEF EvalSymlinks

BoundaryAt(files, path, n, resolved) ==
  /\ n \in 0 .. Len(path)
  /\ resolved \in DOMAIN files /\ ~ IsLink(files, resolved)
  /\ resolved = EvalSymlinks(files, UpTo(path, n))
  /\ \A k \in 0 .. Len(path) : EvalSymlinks(files, UpTo(path, k)) # NoPath => k <= n
  /\ EvaluatePathForBoundary(files, path) = resolved \o After(path, n)

\* There is a longest part that resolves.
LEMMA BoundaryOf ==
  ASSUME NEW files, IsTree(files), NEW path \in Names, DotFree(path)
  PROVE  \E n, resolved : BoundaryAt(files, path, n, resolved)
<1>. DEFINE resolves == {k \in 0 .. Len(path) : EvalSymlinks(files, UpTo(path, k)) # NoPath}
            n == Max(resolves)
            resolved == EvalSymlinks(files, UpTo(path, n))
<1>1. resolves # {}
  <2>1. IsDirectory(files, <<>>)
    BY DEF IsTree
  <2>2. <<>> \in DOMAIN files
    BY <2>1 DEF IsDirectory
  <2>3. EvalSymlinks(files, <<>>) = <<>> /\ <<>> # NoPath
    BY <2>1, <2>2, NodeKinds, ResolvedStays
  <2>. QED
    BY <2>3, WholePath
<1>2. Len(path) \in Nat
  BY ElementsOfPath
<1>3. n \in resolves /\ \A k \in resolves : k <= n
  <2>1. resolves \in SUBSET (0 .. Len(path))
    OBVIOUS
  <2>. HIDE DEF resolves
  <2>. QED
    BY <1>1, <1>2, <2>1, MaxOf
<1>4. EvaluatePathForBoundary(files, path) = Join(resolved, After(path, n))
  BY Zenon DEF EvaluatePathForBoundary, UpTo, After
<1>. HIDE DEF n
<1>5. /\ n \in 0 .. Len(path) /\ resolved # NoPath
      /\ \A k \in 0 .. Len(path) : EvalSymlinks(files, UpTo(path, k)) # NoPath => k <= n
  BY <1>3
<1>6. UpTo(path, n) \in Names /\ After(path, n) \in Names /\ <<>> \in Names
  BY <1>5, PathParts, ConcatNames
<1>7. resolved \in DOMAIN files /\ ~ IsLink(files, resolved) /\ resolved \in Names
  BY <1>5, <1>6, LinksAssumption, WalkType DEF EvalSymlinks
<1>8. Join(resolved, After(path, n)) = resolved \o After(path, n)
  <2>1. DotFree(resolved)
    BY <1>7 DEF IsTree, DotFree
  <2>2. DotFree(After(path, n))
    BY <1>5, NamesOfParts DEF DotFree
  <2>. HIDE DEF resolved
  <2>3. resolved \o After(path, n) \in Names
    BY <1>6, <1>7, ConcatNames
  <2>4. DotFree(resolved \o After(path, n))
    BY <1>6, <1>7, <2>1, <2>2, NamesOfConcat DEF DotFree
  <2>. QED
    BY <2>3, <2>4, CleanOfDotFree DEF Join, Absolute
<1>. QED
  BY <1>4, <1>5, <1>7, <1>8 DEF BoundaryAt

\* What exists is its own longest part.
LEMMA BoundaryOfExisting ==
  ASSUME NEW files, IsTree(files), NEW path \in Names, DotFree(path),
         EvalSymlinks(files, path) # NoPath
  PROVE  EvaluatePathForBoundary(files, path) = EvalSymlinks(files, path)
<1>1. PICK n, resolved : BoundaryAt(files, path, n, resolved)
  BY BoundaryOf
<1>2. Len(path) <= n /\ n \in 0 .. Len(path) /\ Len(path) \in Nat
  BY <1>1, WholePath, ElementsOfPath DEF BoundaryAt
<1>3. n = Len(path)
  BY <1>2
<1>4. resolved = EvalSymlinks(files, path) /\ resolved \in Names
  BY <1>1, <1>3, WholePath, NodeKinds DEF BoundaryAt
<1>5. EvaluatePathForBoundary(files, path) = resolved \o <<>>
  BY <1>1, <1>3, WholePath DEF BoundaryAt
<1>. QED
  BY <1>4, <1>5, ConcatNames

\* Of a path whose last name is missing it is the parent.
LEMMA BoundaryOfMissing ==
  ASSUME NEW files, IsTree(files), NEW parent \in Names, NEW name \in STRING,
         DotFree(Append(parent, name)), EvalSymlinks(files, parent) # NoPath,
         EvalSymlinks(files, Append(parent, name)) = NoPath
  PROVE  EvaluatePathForBoundary(files, Append(parent, name))
           = Append(EvalSymlinks(files, parent), name)
<1>. PICK path \in Names, only \in Names :
       /\ path = Append(parent, name) /\ path = parent \o only /\ only = Only(name)
       /\ Len(path) = Len(parent) + 1
  <2>1. Append(parent, name) \in Names /\ Len(Append(parent, name)) = Len(parent) + 1
    BY AppendNames, Zenon
  <2>2. Only(name) \in Names /\ Append(parent, name) = parent \o Only(name)
    BY OnlyNames, Zenon
  <2>. QED
    BY <2>1, <2>2, Zenon
<1>1. PICK n, resolved : BoundaryAt(files, path, n, resolved)
  BY BoundaryOf
<1>2. /\ Len(parent) \in 0 .. Len(path) /\ UpTo(path, Len(parent)) = parent
      /\ After(path, Len(parent)) = only
  BY Prefix
<1>3. Len(parent) <= n
  BY <1>1, <1>2 DEF BoundaryAt
<1>4. n \in 0 .. Len(path) /\ n # Len(path)
  <2>1. EvalSymlinks(files, UpTo(path, n)) \in DOMAIN files
    BY <1>1 DEF BoundaryAt
  <2>2. EvalSymlinks(files, UpTo(path, Len(path))) = NoPath
    BY WholePath
  <2>. QED
    BY <1>1, <2>1, <2>2, NodeKinds DEF BoundaryAt
<1>5. n = Len(parent)
  <2>1. Len(parent) \in Nat /\ Len(path) = Len(parent) + 1
    BY ElementsOfPath
  <2>2. PICK m \in Nat : m = Len(parent)
    BY <2>1
  <2>3. n \in 0 .. m + 1 /\ n # m + 1 /\ m <= n
    BY <1>3, <1>4, <2>1, <2>2, Zenon
  <2>4. n = m
    BY ONLY <2>3
  <2>. QED
    BY <2>2, <2>4
<1>6. /\ EvaluatePathForBoundary(files, path) = resolved \o only
      /\ resolved = EvalSymlinks(files, parent) /\ resolved \in Names
  BY <1>1, <1>2, <1>5, NodeKinds DEF BoundaryAt
<1>7. resolved \o only = Append(resolved, name)
  BY <1>6, OnlyNames, Zenon
<1>. QED
  BY <1>6, <1>7

(***************************************************************************)
(* A boundary that can be read is the resolved path, if no part of the     *)
(* path fails for its links alone: what follows the part that resolves is  *)
(* missing, whatever links are to spare.                                   *)
(***************************************************************************)
LinksReach(files, path) ==
  \A n \in 0 .. Len(path) :
    Walk(files, <<>>, UpTo(path, n), 2 * MaxLinks) # NoPath =>
      EvalSymlinks(files, UpTo(path, n)) # NoPath

\* A boundary that can be read is the resolved path.
LEMMA ReadBoundary ==
  ASSUME NEW files, IsTree(files), NEW path \in Names, DotFree(path),
         LinksReach(files, path), NEW boundary,
         boundary = EvaluatePathForBoundary(files, path),
         EvalSymlinks(files, boundary) # NoPath
  PROVE  /\ EvalSymlinks(files, path) = boundary
         /\ EvalSymlinks(files, boundary) = boundary
         /\ boundary \in DOMAIN files /\ ~ IsLink(files, boundary)
<1>1. PICK n, resolved : BoundaryAt(files, path, n, resolved)
  BY BoundaryOf
<1>2. /\ n \in 0 .. Len(path) /\ resolved \in DOMAIN files /\ resolved \in Names
      /\ resolved # NoPath /\ ~ IsLink(files, resolved)
      /\ resolved = Walk(files, <<>>, UpTo(path, n), MaxLinks)
      /\ boundary = resolved \o After(path, n)
  BY <1>1, NodeKinds DEF BoundaryAt, EvalSymlinks
<1>3. ASSUME n # Len(path) PROVE FALSE
  <2>1. n + 1 \in 0 .. Len(path)
    BY <1>2, <1>3, NextPart
  <2>2. PICK name \in STRING :
          /\ UpTo(path, n + 1) = Append(UpTo(path, n), name)
          /\ After(path, n) = Only(name) \o After(path, n + 1)
    BY <1>2, <1>3, NextPart
  <2>3. PICK up \in Names, later \in Names, only \in Names :
          /\ up = UpTo(path, n) /\ later = After(path, n + 1) /\ only = Only(name)
          /\ Append(up, name) = up \o only
    <3>1. UpTo(path, n) \in Names /\ After(path, n + 1) \in Names
      BY <1>2, <2>1, PathParts
    <3>. QED
      BY <3>1, OnlyNames, Zenon
  <2>4. only \o later \in Names
    BY ConcatNames
  <2>5. Walk(files, <<>>, resolved \o (only \o later), MaxLinks) # NoPath
    BY <1>2, <2>2, <2>3 DEF EvalSymlinks
  <2>6. Walk(files, resolved, only \o later, MaxLinks) # NoPath
    BY <1>2, <2>4, <2>5, LinksAssumption, WalkAlongExisting
  <2>7. Walk(files, resolved, only, MaxLinks) # NoPath
    BY <1>2, <2>6, LinksAssumption, WalkOn
  <2>8. PICK left \in Nat : Continues(files, <<>>, up, MaxLinks, left)
    BY <1>2, <2>3, ConcatNames, LinksAssumption, WalkOn
  <2>9. Walk(files, <<>>, up \o only, MaxLinks + MaxLinks)
          = Walk(files, resolved, only, left + MaxLinks)
    BY <1>2, <2>3, <2>8, LinksAssumption DEF Continues
  <2>10. Walk(files, resolved, only, MaxLinks + left) # NoPath
    <3>1. Walk(files, resolved, only, MaxLinks + left) = Walk(files, resolved, only, MaxLinks)
      <4>1. resolved \in Names /\ MaxLinks \in Nat
        BY <1>2, LinksAssumption
      <4>. QED
        BY <2>7, <4>1, MoreLinks
    <3>. QED
      BY <2>7, <3>1
  <2>11. MaxLinks + left = left + MaxLinks /\ MaxLinks + MaxLinks = 2 * MaxLinks
    BY LinksAssumption
  <2>12. Walk(files, <<>>, UpTo(path, n + 1), 2 * MaxLinks) # NoPath
    BY <2>2, <2>3, <2>9, <2>10, <2>11
  <2>13. EvalSymlinks(files, UpTo(path, n + 1)) # NoPath
    BY <2>1, <2>12 DEF LinksReach
  <2>14. n + 1 <= n
    BY <1>1, <2>1, <2>13 DEF BoundaryAt
  <2>. QED
    BY <1>2, <2>14, ElementsOfPath
<1>4. EvalSymlinks(files, path) = resolved
  BY <1>2, <1>3, WholePath DEF EvalSymlinks
<1>5. boundary = resolved
  BY <1>2, <1>3, WholePath, ConcatNames, ZenonT(60)
<1>. QED
  BY <1>2, <1>4, <1>5, ResolvedStays

\* A path goes on from its prefix.
LEMMA PrefixAhead ==
  ASSUME NEW base \in Names, NEW path \in Names, IsPrefix(base, path)
  PROVE  \E t \in Names : path = base \o t
<1>1. Len(base) \in 0 .. Len(path) /\ UpTo(path, Len(base)) = base
  BY Prefix
<1>2. After(path, Len(base)) \in Names /\ path = base \o After(path, Len(base))
  BY <1>1, PathParts
<1>. QED
  BY <1>2, Zenon

(***************************************************************************)
(* What a path exists in exists; and it is a directory if the path goes on *)
(* from it.                                                                *)
(***************************************************************************)
LEMMA PrefixExists ==
  ASSUME NEW files, IsTree(files), NEW path \in DOMAIN files,
         NEW base \in Names, IsPrefix(base, path)
  PROVE  /\ base \in DOMAIN files
         /\ base # path => IsDirectory(files, base)
<1>. DEFINE P == {t \in Names :
                    base \o t \in DOMAIN files =>
                      /\ base \in DOMAIN files
                      /\ t # <<>> => IsDirectory(files, base)}
<1>1. <<>> \in P
  BY ConcatNames
<1>2. ASSUME NEW t \in Names, NEW name \in STRING, t \in P
      PROVE  Append(t, name) \in P
  <2>1. /\ Append(t, name) \in Names /\ base \o t \in Names
        /\ base \o Append(t, name) = Append(base \o t, name)
    BY AppendNames, ConcatAppend
  <2>2. ASSUME Append(base \o t, name) \in DOMAIN files
        PROVE  IsDirectory(files, base \o t)
    <3>1. /\ Append(base \o t, name) # <<>>
          /\ Front(Append(base \o t, name)) = base \o t
      BY <2>1, FrontOfLonger
    <3>. QED
      BY <2>2, <3>1 DEF IsTree
  <2>3. CASE t = <<>>
    BY <2>1, <2>2, <2>3, ConcatNames DEF IsDirectory
  <2>4. CASE t # <<>>
    BY <1>2, <2>1, <2>2, <2>4 DEF IsDirectory
  <2>. QED
    BY <2>3, <2>4
<1>3. Names \subseteq P
  <2>. HIDE DEF P
  <2>. QED
    BY <1>1, <1>2, NamesInduction
<1>4. PICK t \in Names : path = base \o t
  BY NodeKinds, PrefixAhead
<1>5. base # path => t # <<>>
  BY <1>4, ConcatNames
<1>. QED
  BY <1>3, <1>4, <1>5

(***************************************************************************)
(* A path given to load_openapi_contract, on its own or from the root, is  *)
(* one way from the top of the file system; Candidate cleans it, and the   *)
(* system walks along it.                                                  *)
(***************************************************************************)
Way(base, path) == IF path.absolute THEN path.names ELSE base \o path.names

OpenedIn(files, base, path) ==
  Walk(files, IF path.absolute THEN <<>> ELSE base, path.names, MaxLinks)

\* The candidate is the cleaned way.
LEMMA CandidateOfWay ==
  ASSUME NEW base \in Names, NEW path \in PathInputs
  PROVE  /\ Way(base, path) \in Names
         /\ Candidate(base, path) = CleanAbsolute(Way(base, path))
         /\ Candidate(base, path) \in Names /\ DotFree(Candidate(base, path))
<1>1. path.names \in Names /\ path.absolute \in BOOLEAN
  BY DEF PathInputs, Names
<1>2. Way(base, path) \in Names
  BY <1>1, ConcatNames DEF Way
<1>3. Candidate(base, path) = CleanAbsolute(Way(base, path))
  <2>1. CASE path.absolute
    <3>1. path = Absolute(path.names)
      BY <2>1, <1>1 DEF PathInputs, Absolute
    <3>. QED
      BY <2>1, <3>1 DEF Candidate, Way, CleanAbsolute
  <2>2. CASE ~ path.absolute
    <3>1. path = Relative(path.names)
      BY <2>2, <1>1 DEF PathInputs, Relative
    <3>2. Candidate(base, path) = CleanAbsolute(base \o CleanRelative(path.names))
      BY <2>2, <3>1 DEF Candidate, Join, CleanAbsolute, CleanRelative
    <3>3. CleanAbsolute(base \o CleanRelative(path.names)) = CleanAbsolute(base \o path.names)
      BY <1>1, CleanTwice
    <3>. QED
      BY <2>2, <3>2, <3>3 DEF Way
  <2>. QED
    BY <2>1, <2>2
<1>. QED
  BY <1>2, <1>3, CleanIsDotFree

\* The system walks along the way.
LEMMA WayOpens ==
  ASSUME NEW files, IsTree(files), NEW base \in Names, NEW path \in PathInputs,
         base \in DOMAIN files \/ OpenedIn(files, base, path) # NoPath
  PROVE  OpenedIn(files, base, path) = Walk(files, <<>>, Way(base, path), MaxLinks)
<1>1. path.names \in Names
  BY DEF PathInputs, Names
<1>2. CASE path.absolute
  BY <1>2 DEF OpenedIn, Way
<1>3. CASE ~ path.absolute
  <2>1. base \in DOMAIN files
    BY <1>1, <1>3, LinksAssumption, WalkType DEF OpenedIn
  <2>. QED
    BY <1>1, <1>3, <2>1, LinksAssumption, WalkAlongExisting DEF OpenedIn, Way
<1>. QED
  BY <1>2, <1>3

(***************************************************************************)
(* A contract that loads is at the boundary, and so under the root: what   *)
(* was resolved is what is read (contract_path.go, resolve).               *)
(***************************************************************************)
ReadsBoundary(files, base, path, boundary) ==
  /\ boundary \in Names /\ DotFree(boundary)
  /\ IsFile(files, boundary) /\ ~ IsLink(files, boundary)
  /\ EvalSymlinks(files, boundary) = boundary
  /\ EvalSymlinks(files, Candidate(base, path)) = boundary
  /\ IsPrefix(base, boundary)

\* A load that succeeds reads the boundary.
LEMMA LoadsBoundary ==
  ASSUME NEW files, IsTree(files), NEW base \in Names, DotFree(base),
         NEW path \in PathInputs, LinksReach(files, Candidate(base, path)),
         NEW resolved, resolved = Resolve(files, base, path),
         resolved.code = "resolved",
         LoadFrom(files, resolved.readPath) = "loaded"
  PROVE  /\ ReadsBoundary(files, base, path, resolved.readPath)
         /\ resolved.sourcePath = After(resolved.readPath, Len(base))
<1>1. PICK candidate \in Names :
        candidate = Candidate(base, path) /\ DotFree(candidate)
  BY CandidateOfWay
<1>2. PICK boundary : boundary = EvaluatePathForBoundary(files, candidate)
  OBVIOUS
<1>3. /\ PathWithinRoot(base, boundary)
      /\ resolved.readPath = boundary /\ resolved.sourcePath = Rel(base, boundary)
  <2>1. resolved = Resolved(base, boundary) /\ PathWithinRoot(base, boundary)
    BY <1>1, <1>2 DEF Resolve, Refusal
  <2>. QED
    BY <2>1 DEF Resolved
<1>4. IsFile(files, EvalSymlinks(files, boundary))
  BY <1>3 DEF LoadFrom
<1>5. EvalSymlinks(files, boundary) # NoPath
  BY <1>4, NodeKinds DEF IsFile
<1>6. /\ EvalSymlinks(files, candidate) = boundary
      /\ EvalSymlinks(files, boundary) = boundary
      /\ boundary \in DOMAIN files /\ ~ IsLink(files, boundary)
  BY <1>1, <1>2, <1>5, ReadBoundary
<1>7. boundary \in Names /\ DotFree(boundary)
  BY <1>6, NodeKinds DEF IsTree, DotFree
<1>8. IsPrefix(base, boundary) /\ Rel(base, boundary) = After(boundary, Len(base))
  BY <1>3, <1>7, RelToRoot
<1>. QED
  BY <1>1, <1>3, <1>4, <1>6, <1>7, <1>8 DEF ReadsBoundary

(***************************************************************************)
(* A way with its last name; without ".." the cleaned path leads from the  *)
(* same directory by the same name.                                        *)
(***************************************************************************)
LEMMA WayBeforeLast ==
  ASSUME NEW base \in Names, NEW path \in PathInputs, path.names # <<>>
  PROVE  /\ [path EXCEPT !.names = Front(path.names)] \in PathInputs
         /\ Last(path.names) \in STRING
         /\ Way(base, path)
              = Append(Way(base, [path EXCEPT !.names = Front(path.names)]),
                       Last(path.names))
         /\ ToSet(Way(base, [path EXCEPT !.names = Front(path.names)]))
              \subseteq ToSet(Way(base, path))
<1>1. PICK names \in Names, front \in Names, last \in STRING :
        /\ names = path.names /\ front = Front(names) /\ last = Last(names)
        /\ names = Append(front, last)
  <2>1. path.names \in Names
    BY DEF PathInputs, Names
  <2>2. /\ Front(path.names) \in Names /\ Last(path.names) \in STRING
        /\ path.names = Append(Front(path.names), Last(path.names))
    BY <2>1, FrontLast
  <2>. QED
    BY <2>1, <2>2, Zenon
<1>2. PICK before \in PathInputs :
        /\ before = [path EXCEPT !.names = front]
        /\ before.absolute = path.absolute /\ before.names = front
  <2>1. PICK before : before = [path EXCEPT !.names = front]
    OBVIOUS
  <2>2. /\ before \in PathInputs
        /\ before.absolute = path.absolute /\ before.names = front
    BY <2>1 DEF PathInputs, Names
  <2>. QED
    BY <2>1, <2>2, Zenon
<1>3. /\ base \o front \in Names
      /\ base \o Append(front, last) = Append(base \o front, last)
  BY ConcatAppend
<1>4. /\ Way(base, path) = Append(Way(base, before), last)
      /\ Way(base, before) \in Names
  BY <1>1, <1>2, <1>3 DEF Way
<1>5. ToSet(Way(base, before)) \subseteq ToSet(Way(base, path))
  BY <1>4, NamesOf
<1>. QED
  BY <1>1, <1>2, <1>4, <1>5

\* A path without ".." is a way without it.
LEMMA PlainWay ==
  ASSUME NEW base \in Names, DotFree(base), NEW path \in PathInputs,
         ".." \notin ToSet(path.names)
  PROVE  ".." \notin ToSet(Way(base, path))
<1>1. path.names \in Names
  BY DEF PathInputs, Names
<1>. QED
  BY <1>1, NamesOfConcat DEF Way, DotFree

(***************************************************************************)
(* The file read is the one that the path opens.                           *)
(***************************************************************************)
LEMMA LoadsFileNamed ==
  ASSUME NEW files, IsTree(files), NEW base \in Names, DotFree(base),
         NEW path \in PathInputs, NEW boundary,
         ReadsBoundary(files, base, path, boundary),
         path.names # <<>>, ".." \notin ToSet(path.names), Last(path.names) # "."
  PROVE  OpenedIn(files, base, path) = boundary
<1>1. boundary \in DOMAIN files /\ boundary # NoPath
  BY NodeKinds DEF ReadsBoundary, IsFile
<1>2. base \in DOMAIN files
  BY <1>1, PrefixExists DEF ReadsBoundary
<1>3. PICK before \in PathInputs, init \in Names, last \in STRING :
        /\ init = Way(base, before)
        /\ Way(base, path) = Append(init, last) /\ last # "." /\ last # ".."
        /\ ".." \notin ToSet(init)
  <2>1. PICK before \in PathInputs :
          before = [path EXCEPT !.names = Front(path.names)]
    BY WayBeforeLast
  <2>2. /\ Last(path.names) \in STRING
        /\ Way(base, path) = Append(Way(base, before), Last(path.names))
        /\ ToSet(Way(base, before)) \subseteq ToSet(Way(base, path))
    BY <2>1, WayBeforeLast
  <2>3. Last(path.names) # ".."
    <3>1. path.names \in Names
      BY DEF PathInputs, Names
    <3>. QED
      BY <3>1, FrontLastNames
  <2>4. Way(base, before) \in Names
    BY CandidateOfWay
  <2>5. ".." \notin ToSet(Way(base, before))
    BY <2>2, PlainWay
  <2>. QED
    BY <2>2, <2>3, <2>4, <2>5, Zenon
<1>4. PICK cleaned \in Names : cleaned = CleanAbsolute(init)
  BY CleanIsDotFree
<1>5. Candidate(base, path) = Append(cleaned, last)
  <2>1. Candidate(base, path) = CleanAbsolute(Append(init, last))
    BY <1>3, CandidateOfWay
  <2>2. CleanAbsolute(Append(init, last)) = Append(CleanAbsolute(init), last)
    BY <1>3, CleanOfLonger
  <2>. QED
    BY <1>4, <2>1, <2>2
<1>6. PICK only \in Names :
        /\ only # <<>> /\ Append(init, last) = init \o only
        /\ Append(cleaned, last) = cleaned \o only
  BY OnlyNames, Zenon
<1>7. Walk(files, <<>>, init \o only, MaxLinks)
        = Walk(files, <<>>, cleaned \o only, MaxLinks)
  BY <1>3, <1>4, <1>6, LinksAssumption, CleanLeadsThere
<1>8. Walk(files, <<>>, cleaned \o only, MaxLinks) = boundary
  BY <1>5, <1>6 DEF ReadsBoundary, EvalSymlinks
<1>. QED
  BY <1>2, <1>3, <1>6, <1>7, <1>8, WayOpens, ZenonT(60)

(***************************************************************************)
(* The path shown for it leads back to it.                                 *)
(***************************************************************************)
LEMMA SourceLeadsBack ==
  ASSUME NEW files, IsTree(files), NEW base \in Names, IsDirectory(files, base),
         NEW path \in PathInputs, NEW boundary,
         ReadsBoundary(files, base, path, boundary)
  PROVE  /\ Resolve(files, base, Relative(After(boundary, Len(base)))).code = "resolved"
         /\ Resolve(files, base, Relative(After(boundary, Len(base)))).readPath = boundary
<1>1. boundary \in DOMAIN files /\ boundary # NoPath /\ boundary # base
  BY NodeKinds DEF ReadsBoundary, IsFile
<1>2. Len(base) \in 0 .. Len(boundary) /\ UpTo(boundary, Len(base)) = base
  BY Prefix DEF ReadsBoundary
<1>3. PICK source \in Names :
        /\ source = After(boundary, Len(base)) /\ boundary = base \o source
        /\ DotFree(source)
  <2>1. boundary \in Names /\ DotFree(boundary)
    BY DEF ReadsBoundary
  <2>2. After(boundary, Len(base)) \in Names /\ boundary = base \o After(boundary, Len(base))
    BY <1>2, <2>1, PathParts
  <2>3. DotFree(After(boundary, Len(base)))
    BY <1>2, <2>1, NamesOfParts DEF DotFree
  <2>. QED
    BY <2>2, <2>3, Zenon
<1>4. source # <<>>
  BY <1>1, <1>3, ConcatNames
<1>5. Clean(Relative(source)) = source
  BY <1>3, CleanOfDotFree DEF Relative
<1>6. Candidate(base, Relative(source)) = boundary
  <2>1. Candidate(base, Relative(source)) = Clean(Absolute(boundary))
    BY <1>3, <1>5 DEF Candidate, Relative, Join
  <2>2. Clean(Absolute(boundary)) = boundary
    BY CleanOfDotFree DEF Absolute, ReadsBoundary
  <2>. QED
    BY <2>1, <2>2
<1>7. EvaluatePathForBoundary(files, boundary) = boundary
  BY <1>1, BoundaryOfExisting DEF ReadsBoundary
<1>8. PathWithinRoot(base, boundary)
  BY RelToRoot DEF ReadsBoundary
<1>9. Resolve(files, base, Relative(source)) = Resolved(base, boundary)
  BY <1>4, <1>5, <1>6, <1>7, <1>8 DEF Resolve
<1>. QED
  BY <1>3, <1>9 DEF Resolved

(***************************************************************************)
(* A path that leads into the root, as far as it exists, is not refused as *)
(* outside.                                                                *)
(***************************************************************************)
LeadsInto(files, base, path) ==
  LET before == [path EXCEPT !.names = Front(path.names)]
      parent == OpenedIn(files, base, before)
  IN  \/ /\ OpenedIn(files, base, path) # NoPath
         /\ IsPrefix(base, OpenedIn(files, base, path))
      \/ /\ IsDirectory(files, parent) /\ IsPrefix(base, parent)
         /\ Append(parent, Last(path.names)) \notin DOMAIN files

\* A boundary under the root is not refused.
LEMMA ResolvedIsNotRefused ==
  ASSUME NEW files, IsTree(files), NEW base \in Names,
         NEW path \in PathInputs, NEW boundary,
         EvaluatePathForBoundary(files, Candidate(base, path)) = boundary,
         boundary \in Names, DotFree(boundary), IsPrefix(base, boundary)
  PROVE  Resolve(files, base, path).code # "contract_path_not_allowed"
<1>1. PathWithinRoot(base, boundary)
  BY RelToRoot
<1>. QED
  BY <1>1 DEF Resolve, Resolved, Refusal

\* What the system opens, the cleaned path opens.
LEMMA CleanOpens ==
  ASSUME NEW files, IsTree(files), NEW way \in Names, ".." \notin ToSet(way),
         Walk(files, <<>>, way, MaxLinks) # NoPath
  PROVE  EvalSymlinks(files, CleanAbsolute(way)) = Walk(files, <<>>, way, MaxLinks)
<1>1. PICK cleaned \in Names : cleaned = CleanAbsolute(way)
  BY CleanIsDotFree
<1>2. PICK none \in Names : way \o none = way /\ cleaned \o none = cleaned
  BY <1>1, ConcatNames, Zenon
<1>3. \A more \in Names :
        Walk(files, <<>>, way \o more, MaxLinks) # NoPath \/ more # <<>> =>
          Walk(files, <<>>, way \o more, MaxLinks)
            = Walk(files, <<>>, cleaned \o more, MaxLinks)
  BY <1>1, LinksAssumption, CleanLeadsThere
<1>4. Walk(files, <<>>, way \o none, MaxLinks) # NoPath =>
        Walk(files, <<>>, way \o none, MaxLinks)
          = Walk(files, <<>>, cleaned \o none, MaxLinks)
  BY <1>3, Zenon
<1>. QED
  BY <1>1, <1>2, <1>4 DEF EvalSymlinks

\* A path that leads inside is not refused.
LEMMA InsideIsNotRefused ==
  ASSUME NEW files, IsTree(files), NEW base \in Names, DotFree(base),
         NEW path \in PathInputs, path.names # <<>>, ".." \notin ToSet(path.names),
         LeadsInto(files, base, path)
  PROVE  Resolve(files, base, path).code # "contract_path_not_allowed"
<1>1. CASE /\ OpenedIn(files, base, path) # NoPath
           /\ IsPrefix(base, OpenedIn(files, base, path))
  <2>1. PICK way, opened :
          /\ way \in Names
          /\ way = Way(base, path) /\ opened = OpenedIn(files, base, path)
          /\ ".." \notin ToSet(way)
    BY CandidateOfWay, PlainWay
  <2>2. opened = Walk(files, <<>>, way, MaxLinks)
    BY <1>1, <2>1, WayOpens
  <2>3. EvalSymlinks(files, Candidate(base, path)) = opened
    BY <1>1, <2>1, <2>2, CandidateOfWay, CleanOpens
  <2>4. opened \in DOMAIN files
    BY <1>1, <2>1, <2>2, ConcatNames, LinksAssumption, WalkType
  <2>5. opened \in Names /\ DotFree(opened)
    BY <2>4, NodeKinds DEF IsTree, DotFree
  <2>6. EvaluatePathForBoundary(files, Candidate(base, path)) = opened
    BY <1>1, <2>1, <2>3, CandidateOfWay, BoundaryOfExisting
  <2>. QED
    BY <1>1, <2>1, <2>5, <2>6, ResolvedIsNotRefused
<1>2. ASSUME NEW before \in PathInputs, NEW parent, NEW last \in STRING,
             before = [path EXCEPT !.names = Front(path.names)],
             parent = OpenedIn(files, base, before), last = Last(path.names),
             IsDirectory(files, parent), IsPrefix(base, parent),
             Append(parent, last) \notin DOMAIN files
      PROVE  Resolve(files, base, path).code # "contract_path_not_allowed"
  <2>1. parent \in DOMAIN files /\ parent \in Names /\ parent # NoPath
    BY <1>2, NodeKinds DEF IsDirectory
  <2>2. DotFree(parent)
    BY <2>1 DEF IsTree, DotFree
  <2>3. PICK init \in Names :
          /\ init = Way(base, before) /\ Way(base, path) = Append(init, last)
          /\ ".." \notin ToSet(init) /\ last # ".."
    <3>1. /\ Way(base, path) = Append(Way(base, before), last)
          /\ ToSet(Way(base, before)) \subseteq ToSet(Way(base, path))
      BY <1>2, WayBeforeLast
    <3>2. Way(base, before) \in Names
      BY CandidateOfWay
    <3>3. ".." \notin ToSet(Way(base, path))
      BY PlainWay
    <3>4. last \in ToSet(Way(base, path))
      BY <3>1, <3>2, NamesOf
    <3>. QED
      BY <3>1, <3>2, <3>3, <3>4
  <2>4. PICK cleaned \in Names : cleaned = CleanAbsolute(init) /\ DotFree(cleaned)
    BY CleanIsDotFree
  <2>5. EvalSymlinks(files, cleaned) = parent
    <3>1. parent = Walk(files, <<>>, init, MaxLinks)
      BY <1>2, <2>1, <2>3, WayOpens
    <3>. QED
      BY <2>1, <2>3, <2>4, <3>1, CleanOpens
  <2>6. Candidate(base, path) = IF last = "." THEN cleaned ELSE Append(cleaned, last)
    <3>1. Candidate(base, path) = CleanAbsolute(Append(init, last))
      BY <2>3, CandidateOfWay
    <3>. QED
      BY <2>3, <2>4, <3>1, CleanOfLonger
  <2>7. CASE last = "."
    <3>1. EvaluatePathForBoundary(files, Candidate(base, path)) = parent
      BY <2>1, <2>4, <2>5, <2>6, <2>7, BoundaryOfExisting
    <3>. QED
      BY <1>2, <2>1, <2>2, <3>1, ResolvedIsNotRefused
  <2>8. CASE last # "."
    <3>1. PICK only \in Names : only = Only(last) /\ Append(cleaned, last) = cleaned \o only
      BY OnlyNames, Zenon
    <3>2. EvalSymlinks(files, Append(cleaned, last)) = NoPath
      <4>1. PICK left \in Nat : Continues(files, <<>>, cleaned, MaxLinks, left)
        BY <2>1, <2>4, <2>5, ConcatNames, LinksAssumption, WalkOn DEF EvalSymlinks
      <4>2. Walk(files, <<>>, cleaned \o only, MaxLinks + 0)
              = Walk(files, parent, only, left + 0)
        BY <2>5, <4>1, <3>1 DEF Continues, EvalSymlinks
      <4>3. Walk(files, parent, only, left)
              = Walk(files, Append(parent, last), <<>>, left)
        <5>1. Enter(parent, last) = Append(parent, last)
          BY <2>3, <2>8 DEF Enter
        <5>2. PICK none \in Names : none = <<>> /\ Only(last) \o none = Only(last)
          BY OnlyNames, ConcatNames, Zenon
        <5>3. Walk(files, parent, Only(last) \o none, left)
                = Walk(files, Enter(parent, last), none, left)
          BY <1>2, <2>1, WalkEnters
        <5>. QED
          BY <3>1, <5>1, <5>2, <5>3
      <4>4. Walk(files, Append(parent, last), <<>>, left) = NoPath
        BY <1>2, <2>1, AppendNames, ConcatNames, WalkType
      <4>5. MaxLinks + 0 = MaxLinks /\ left + 0 = left
        BY LinksAssumption
      <4>. QED
        BY <3>1, <4>2, <4>3, <4>4, <4>5 DEF EvalSymlinks
    <3>3. DotFree(Append(cleaned, last)) /\ DotFree(Append(parent, last))
      BY <2>1, <2>2, <2>3, <2>4, <2>8, NamesOf DEF DotFree
    <3>4. EvaluatePathForBoundary(files, Append(cleaned, last)) = Append(parent, last)
      BY <2>1, <2>4, <2>5, <3>2, <3>3, BoundaryOfMissing
    <3>5. Append(parent, last) \in Names /\ IsPrefix(base, Append(parent, last))
      <4>1. PICK t \in Names : parent = base \o t
        <5>1. parent \in Names /\ IsPrefix(base, parent)
          BY <1>2, <2>1
        <5>. QED
          BY <5>1, PrefixAhead
      <4>2. PICK u \in Names : Append(parent, last) = base \o u
        <5>1. /\ Append(t, last) \in Names
              /\ base \o Append(t, last) = Append(base \o t, last)
          BY ConcatAppend, AppendNames
        <5>. QED
          BY <4>1, <5>1, Zenon
      <4>3. Append(parent, last) \in Names
        BY <2>1, AppendNames
      <4>. QED
        BY <4>2, <4>3, Prefix
    <3>. QED
      BY <2>6, <2>8, <3>3, <3>4, <3>5, ResolvedIsNotRefused
  <2>. QED
    BY <2>7, <2>8
<1>3. /\ [path EXCEPT !.names = Front(path.names)] \in PathInputs
      /\ Last(path.names) \in STRING
  BY WayBeforeLast
<1>. QED
  BY <1>1, <1>2, <1>3 DEF LeadsInto

=============================================================================
