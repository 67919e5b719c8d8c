--------------------------- MODULE MessageBus_proofs ---------------------------
(***************************************************************************)
(* Proofs about MessageBus, for any chain of command, conversations,       *)
(* groups and bounds: messages stay in the circle they were sent to,       *)
(* broadcasts reach whom they should, branches keep their context,         *)
(* conversations do not mix.  The walks of CommandChain are recursive      *)
(* functions; what they compute is proved by induction on the steps, with  *)
(* a smallest counterexample in place of an induction rule.                *)
(***************************************************************************)
EXTENDS MessageBus, FiniteSetTheorems, TLAPS

------------------------------------------------------------------------------
\* What holds of 0, and of the next number whenever it holds of one, holds of
\* all up to N.
LEMMA UpwardInduction ==
  ASSUME NEW N \in Nat, NEW G, 0 \in G, \A n \in 0..(N - 1) : n \in G => n + 1 \in G
  PROVE  0..N \subseteq G
<1> DEFINE B == (0..N) \ G
           W == {0..m : m \in B}
           R == StrictSubsetOrdering(Nat)
<1> SUFFICES ASSUME B # {} PROVE FALSE
  OBVIOUS
<1>1. W # {} /\ W \subseteq FiniteSubsetsOf(Nat)
  <2>1. \A m \in B : 0..m \in SUBSET Nat /\ IsFiniteSet(0..m)
    BY FS_Interval
  <2> QED
    BY <2>1 DEF FiniteSubsetsOf
<1>2. IsWellFoundedOn(R, FiniteSubsetsOf(Nat))
  BY FS_StrictSubsetOrderingWellFounded
<1>3. PICK X \in W : \A Y \in W : ~(<<Y, X>> \in R)
  <2> HIDE DEF W, R
  <2> QED
    BY <1>1, <1>2, WFMin
<1>4. PICK m \in B : X = 0..m
  OBVIOUS
<1>5. m # 0 /\ m - 1 \in 0..(N - 1)
  OBVIOUS
<1>6. m - 1 \notin G
  BY <1>5
<1>7. 0..(m - 1) \in W
  BY <1>5, <1>6
<1>8. <<0..(m - 1), X>> \in R
  <2>1. 0..(m - 1) \in SUBSET Nat /\ 0..m \in SUBSET Nat /\ m \in 0..m /\ m \notin 0..(m - 1)
        /\ 0..(m - 1) \subseteq 0..m
    BY <1>5
  <2> QED
    BY <1>4, <2>1 DEF StrictSubsetOrdering
<1> QED
  BY <1>3, <1>7, <1>8

\* As many steps up, and as many generations down, as there are seats.
Height == Cardinality(Seats)

\* One step up.
Above(x) == IF x = NoSeat THEN NoSeat ELSE Parent[x]

\* `walk` is the way up from a seat, as far as Ancestors goes.
IsWalk(walk, s) ==
  /\ walk \in [0..Height -> Seats \cup {NoSeat}]
  /\ walk[0] = s
  /\ \A n \in 1..Height : walk[n] = Above(walk[n - 1])

\* There are finitely many seats.
LEMMA SizeIsNat == Height \in Nat
  BY ChainAssumption, FS_CardinalityType DEF Height

\* A step up leads to a seat or out of the chain.
LEMMA AboveType == \A x \in Seats \cup {NoSeat} : Above(x) \in Seats \cup {NoSeat}
  BY ChainAssumption DEF Above

\* Every seat has a way up.
LEMMA WalkExists ==
  ASSUME NEW s \in Seats
  PROVE  \E walk : IsWalk(walk, s)
<1> DEFINE P(f, k) == /\ f \in [0..k -> Seats \cup {NoSeat}]
                      /\ f[0] = s
                      /\ \A n \in 1..k : f[n] = Above(f[n - 1])
           G == {k \in 0..Height : \E f : P(f, k)}
<1>1. 0 \in G
  <2>1. P([n \in 0..0 |-> s], 0)
    OBVIOUS
  <2>2. \E f : P(f, 0)
    BY <2>1, Zenon
  <2> HIDE DEF P
  <2> QED
    BY <2>2, SizeIsNat
<1>2. ASSUME NEW k \in 0..(Height - 1), k \in G
      PROVE  k + 1 \in G
  <2>1. PICK f : P(f, k)
    BY <1>2
  <2> DEFINE h == [n \in 0..(k + 1) |-> IF n = k + 1 THEN Above(f[k]) ELSE f[n]]
  <2>2. k \in Nat /\ k + 1 \in 0..Height
    BY SizeIsNat
  <2>3. h \in [0..(k + 1) -> Seats \cup {NoSeat}]
    BY <2>1, <2>2, AboveType
  <2>4. h[0] = s
    BY <2>1, <2>2
  <2>5. \A n \in 1..(k + 1) : h[n] = Above(h[n - 1])
    BY <2>1, <2>2
  <2> QED
    BY <2>2, <2>3, <2>4, <2>5
<1>3. Height \in G
  <2> HIDE DEF G
  <2> QED
    BY <1>1, <1>2, SizeIsNat, UpwardInduction
<1> QED
  BY <1>3 DEF IsWalk

\* Organization.ancestors returns the seats on the way up.
LEMMA AncestorsAreMet ==
  ASSUME NEW s \in Seats
  PROVE  \E walk : /\ IsWalk(walk, s)
                   /\ Ancestors(s) = {walk[n] : n \in 1..Height} \ {NoSeat}
<1> DEFINE after[n \in 0..Cardinality(Seats)] ==
             IF n = 0 THEN s
             ELSE IF after[n - 1] = NoSeat THEN NoSeat ELSE Parent[after[n - 1]]
           Eqn(f) == f = [n \in 0..Cardinality(Seats) |->
                            IF n = 0 THEN s
                            ELSE IF f[n - 1] = NoSeat THEN NoSeat ELSE Parent[f[n - 1]]]
<1>1. \E f : Eqn(f)
  <2>1. PICK walk : IsWalk(walk, s)
    BY WalkExists
  <2>2. Eqn(walk)
    BY <2>1, SizeIsNat DEF IsWalk, Above, Height
  <2> QED
    BY <2>2
<1>2. Eqn(after)
  BY <1>1, Zenon
<1>3. Ancestors(s) = {after[n] : n \in 1..Height} \ {NoSeat}
  BY DEF Ancestors, Height
<1> HIDE DEF after
<1>4. /\ after[0] = s
      /\ \A n \in 1..Height : after[n] = Above(after[n - 1])
  BY <1>2, SizeIsNat DEF Above, Height
<1>5. IsWalk(after, s)
  <2>1. DOMAIN after = 0..Height /\ after = [n \in 0..Height |-> after[n]]
    BY <1>2 DEF Height
  <2> DEFINE G == {n \in 0..Height : after[n] \in Seats \cup {NoSeat}}
  <2>2. 0 \in G
    BY <1>4, SizeIsNat
  <2>3. ASSUME NEW n \in 0..(Height - 1), n \in G PROVE n + 1 \in G
    <3>1. after[n + 1] = Above(after[n])
      BY <1>4, SizeIsNat
    <3> QED
      BY <2>3, <3>1, AboveType, SizeIsNat
  <2>4. 0..Height \subseteq G
    <3> HIDE DEF G
    <3> QED
      BY <2>2, <2>3, SizeIsNat, UpwardInduction
  <2>5. \A n \in 0..Height : after[n] \in Seats \cup {NoSeat}
    BY <2>4
  <2> QED
    BY <1>4, <2>1, <2>5 DEF IsWalk
<1> QED
  BY <1>3, <1>5

\* The n-th generation below a seat.
IsLevels(level, seat) ==
  /\ level \in [1..Height -> SUBSET Seats]
  /\ Height >= 1 => level[1] = Children(seat)
  /\ \A n \in 2..Height : level[n] = {s \in Seats : Parent[s] \in level[n - 1]}

\* There are such generations.
LEMMA LevelsExist ==
  ASSUME NEW seat
  PROVE  \E level : IsLevels(level, seat)
<1> DEFINE P(f, k) == /\ f \in [1..k -> SUBSET Seats]
                      /\ k >= 1 => f[1] = Children(seat)
                      /\ \A n \in 2..k : f[n] = {s \in Seats : Parent[s] \in f[n - 1]}
           G == {k \in 0..Height : \E f : P(f, k)}
<1>1. 0 \in G
  <2>1. P([n \in 1..0 |-> {}], 0)
    OBVIOUS
  <2>2. \E f : P(f, 0)
    BY <2>1, Zenon
  <2> HIDE DEF P
  <2> QED
    BY <2>2, SizeIsNat
<1>2. ASSUME NEW k \in 0..(Height - 1), k \in G
      PROVE  k + 1 \in G
  <2>1. PICK f : P(f, k)
    BY <1>2
  <2> DEFINE next == IF k = 0 THEN Children(seat) ELSE {s \in Seats : Parent[s] \in f[k]}
             h == [n \in 1..(k + 1) |-> IF n = k + 1 THEN next ELSE f[n]]
  <2>2. k \in Nat /\ k + 1 \in 0..Height
    BY SizeIsNat
  <2>3. next \in SUBSET Seats
    BY DEF Children
  <2>4. h \in [1..(k + 1) -> SUBSET Seats]
    <3> HIDE DEF next
    <3> QED
      BY <2>1, <2>2, <2>3
  <2>5. h[1] = Children(seat)
    BY <2>1, <2>2
  <2>6. ASSUME NEW n \in 2..(k + 1)
        PROVE  h[n] = {s \in Seats : Parent[s] \in h[n - 1]}
    BY <2>1, <2>2
  <2>7. P(h, k + 1)
    BY <2>4, <2>5, <2>6
  <2>8. \E g : P(g, k + 1)
    BY <2>7, Zenon
  <2> HIDE DEF P
  <2> QED
    BY <2>2, <2>8
<1>3. Height \in G
  <2> HIDE DEF G
  <2> QED
    BY <1>1, <1>2, SizeIsNat, UpwardInduction
<1> QED
  BY <1>3 DEF IsLevels

\* Organization.descendants returns the seats of all generations.
LEMMA DescendantsAreLevels ==
  ASSUME NEW seat
  PROVE  \E level : /\ IsLevels(level, seat)
                    /\ Descendants(seat) = {s \in Seats : \E n \in 1..Height : s \in level[n]}
<1> DEFINE generation[n \in 1..Cardinality(Seats)] ==
             IF n = 1 THEN Children(seat)
             ELSE UNION {Children(s) : s \in generation[n - 1]}
           Eqn(f) == f = [n \in 1..Cardinality(Seats) |->
                            IF n = 1 THEN Children(seat)
                            ELSE UNION {Children(s) : s \in f[n - 1]}]
<1>1. \A T : UNION {Children(s) : s \in T} = {s \in Seats : Parent[s] \in T}
  BY DEF Children
<1>2. \E f : Eqn(f)
  <2>1. PICK level : IsLevels(level, seat)
    BY LevelsExist
  <2>2. \A n \in 1..Height : n # 1 => n \in 2..Height /\ n - 1 \in 1..Height
    BY SizeIsNat
  <2>3. \A n \in 1..Height : level[n] = IF n = 1 THEN Children(seat)
                                   ELSE UNION {Children(s) : s \in level[n - 1]}
    BY <1>1, <2>1, <2>2, SizeIsNat DEF IsLevels
  <2>4. level = [n \in 1..Height |-> level[n]]
    BY <2>1 DEF IsLevels
  <2>5. Eqn(level)
    BY <2>3, <2>4 DEF Height
  <2> QED
    BY <2>5
<1>3. Eqn(generation)
  BY <1>2, Zenon
<1>4. Descendants(seat) = {s \in Seats : \E n \in 1..Height : s \in generation[n]}
  BY DEF Descendants, Height
<1> HIDE DEF generation
<1>5. /\ DOMAIN generation = 1..Height /\ generation = [n \in 1..Height |-> generation[n]]
      /\ Height >= 1 => generation[1] = Children(seat)
      /\ \A n \in 2..Height : generation[n] = {s \in Seats : Parent[s] \in generation[n - 1]}
  <2>1. \A n \in 1..Height : generation[n] = IF n = 1 THEN Children(seat)
                                   ELSE UNION {Children(s) : s \in generation[n - 1]}
    BY <1>3 DEF Height
  <2>2. Height >= 1 => 1 \in 1..Height
    BY SizeIsNat
  <2>3. \A n \in 2..Height : n \in 1..Height /\ n # 1
    BY SizeIsNat
  <2> QED
    BY <1>1, <1>3, <2>1, <2>2, <2>3 DEF Height
<1>6. \A n \in 1..Height : generation[n] \in SUBSET Seats
  <2> SUFFICES ASSUME NEW n \in 1..Height PROVE generation[n] \subseteq Seats
    OBVIOUS
  <2>1. CASE n = 1
    BY <1>5, <2>1, SizeIsNat DEF Children
  <2>2. CASE n # 1
    <3>1. n \in 2..Height
      BY <2>2, SizeIsNat
    <3>2. generation[n] = {s \in Seats : Parent[s] \in generation[n - 1]}
      BY <1>5, <3>1
    <3> QED
      BY <3>2
  <2> QED
    BY <2>1, <2>2
<1>7. IsLevels(generation, seat)
  BY <1>5, <1>6 DEF IsLevels
<1> QED
  BY <1>4, <1>7

\* The way up from a seat goes on as that from its parent.
LEMMA WalkFromParent ==
  ASSUME NEW s \in Seats, NEW walk, IsWalk(walk, s),
         Parent[s] \in Seats, NEW up, IsWalk(up, Parent[s]),
         NEW n \in 1..Height
  PROVE  walk[n] = up[n - 1]
<1> DEFINE G == {k \in 0..(Height - 1) : walk[k + 1] = up[k]}
<1>1. 0 \in G
  BY SizeIsNat, ChainAssumption DEF IsWalk, Above
<1>2. ASSUME NEW k \in 0..(Height - 1 - 1), k \in G PROVE k + 1 \in G
  <2>1. k + 1 \in 1..Height /\ k + 2 \in 1..Height /\ k + 1 \in 0..(Height - 1)
        /\ (k + 2) - 1 = k + 1 /\ (k + 1) - 1 = k
    BY SizeIsNat
  <2>2. walk[k + 2] = Above(walk[k + 1]) /\ up[k + 1] = Above(up[k])
    BY <2>1 DEF IsWalk
  <2> QED
    BY <1>2, <2>1, <2>2
<1>3. Height - 1 \in Nat /\ n - 1 \in 0..(Height - 1)
  BY SizeIsNat
<1>4. n - 1 \in G
  <2> HIDE DEF G
  <2> QED
    BY <1>1, <1>2, <1>3, UpwardInduction
<1> QED
  BY <1>4

\* A seat is in the n-th generation below the seat that it is n steps up to.
LEMMA LevelsAreWalks ==
  ASSUME NEW seat \in Seats, NEW level, IsLevels(level, seat), NEW n \in 1..Height
  PROVE  \A s \in Seats : \A walk : IsWalk(walk, s) => (s \in level[n] <=> walk[n] = seat)
<1> DEFINE Agree(k) == \A s \in Seats : \A walk : IsWalk(walk, s) => (s \in level[k] <=> walk[k] = seat)
           G == {k \in 0..(Height - 1) : Agree(k + 1)}
<1>1. Agree(1)
  <2> SUFFICES ASSUME NEW s \in Seats, NEW walk, IsWalk(walk, s)
               PROVE  s \in level[1] <=> walk[1] = seat
    OBVIOUS
  <2>1. walk[1] = Parent[s]
    BY SizeIsNat, ChainAssumption DEF IsWalk, Above
  <2>2. level[1] = Children(seat)
    BY SizeIsNat DEF IsLevels
  <2> QED
    BY <2>1, <2>2 DEF Children
<1>2. ASSUME NEW k \in 0..(Height - 1 - 1), Agree(k + 1) PROVE Agree(k + 2)
  <2> SUFFICES ASSUME NEW s \in Seats, NEW walk, IsWalk(walk, s)
               PROVE  s \in level[k + 2] <=> walk[k + 2] = seat
    OBVIOUS
  <2>1. k + 2 \in 2..Height /\ k + 2 \in 1..Height /\ (k + 2) - 1 = k + 1 /\ k + 1 \in 1..Height
    BY SizeIsNat
  <2>2. s \in level[k + 2] <=> Parent[s] \in level[k + 1]
    BY <2>1 DEF IsLevels
  <2>3. level[k + 1] \subseteq Seats
    BY <2>1 DEF IsLevels
  <2>4. CASE Parent[s] \in Seats
    <3>1. PICK up : IsWalk(up, Parent[s])
      BY <2>4, WalkExists
    <3>2. walk[k + 2] = up[k + 1]
      BY <2>1, <2>4, <3>1, WalkFromParent
    <3> QED
      BY <1>2, <2>2, <2>4, <3>1, <3>2
  <2>5. CASE Parent[s] \notin Seats
    <3> DEFINE H == {j \in 0..(Height - 1) : walk[j + 1] = NoSeat}
    <3>1. 0 \in H
      BY <2>5, SizeIsNat, ChainAssumption DEF IsWalk, Above
    <3>2. ASSUME NEW j \in 0..(Height - 1 - 1), j \in H PROVE j + 1 \in H
      <4>1. j + 2 \in 1..Height /\ (j + 2) - 1 = j + 1 /\ j + 1 \in 0..(Height - 1)
        BY SizeIsNat
      <4>2. walk[j + 2] = Above(walk[j + 1])
        BY <4>1 DEF IsWalk
      <4> QED
        BY <3>2, <4>1, <4>2 DEF Above
    <3>3. k + 1 \in H
      <4>1. Height - 1 \in Nat /\ k + 1 \in 0..(Height - 1)
        BY <2>1, SizeIsNat
      <4> HIDE DEF H
      <4> QED
        BY <3>1, <3>2, <4>1, UpwardInduction
    <3>4. walk[k + 2] = NoSeat
      BY <3>3
    <3> QED
      BY <2>2, <2>3, <2>5, <3>4, ChainAssumption
  <2> QED
    BY <2>4, <2>5
<1>3. Height - 1 \in Nat /\ n - 1 \in 0..(Height - 1) /\ (n - 1) + 1 = n
  BY SizeIsNat
<1>4. 0 \in G
  <2> HIDE DEF Agree
  <2> QED
    BY <1>1, <1>3
<1>5. ASSUME NEW k \in 0..(Height - 1 - 1), k \in G PROVE k + 1 \in G
  <2>1. k + 1 \in 0..(Height - 1) /\ (k + 1) + 1 = k + 2
    BY <1>3
  <2> HIDE DEF Agree
  <2> QED
    BY <1>2, <1>5, <2>1
<1>6. n - 1 \in G
  <2> HIDE DEF G
  <2> QED
    BY <1>3, <1>4, <1>5, UpwardInduction
<1>7. Agree(n)
  <2> HIDE DEF Agree
  <2> QED
    BY <1>3, <1>6
<1> QED
  BY <1>7

\* The walk down and the walk up agree: below a seat are exactly the seats that
\* have it above them (Organization.descendants and ancestors).
THEOREM DownIsUp ==
  ASSUME NEW seat \in Seats
  PROVE  Descendants(seat) = {s \in Seats : seat \in Ancestors(s)}
<1>1. PICK level : /\ IsLevels(level, seat)
                   /\ Descendants(seat) = {s \in Seats : \E n \in 1..Height : s \in level[n]}
  BY DescendantsAreLevels
<1>2. ASSUME NEW s \in Seats
      PROVE  seat \in Ancestors(s) <=> \E n \in 1..Height : s \in level[n]
  <2>1. PICK walk : /\ IsWalk(walk, s)
                    /\ Ancestors(s) = {walk[n] : n \in 1..Height} \ {NoSeat}
    BY AncestorsAreMet
  <2>2. \A n \in 1..Height : s \in level[n] <=> walk[n] = seat
    BY <1>1, <2>1, LevelsAreWalks
  <2>3. seat # NoSeat
    BY ChainAssumption
  <2> QED
    BY <2>1, <2>2, <2>3
<1> QED
  BY <1>1, <1>2

------------------------------------------------------------------------------
\* Everyone who can be a member of a conversation.
Reach == Seats \cup UNION {Descendants(s) : s \in Seats}

SentPost == [from : Seats, mentions : SUBSET Seats, timestamp : Nat,
             audience : SUBSET Reach, broadcast : BOOLEAN]

Shape ==
  /\ now \in Nat
  /\ posts \in Seq(SentPost)
  /\ DOMAIN conversations = Convs
  /\ DOMAIN messages = Convs
  /\ \A c \in Convs : Members(c) \subseteq Reach /\ messages[c] \subseteq 1..Len(posts)

\* Posts are numbered in the order of their timestamps, none from the future:
\* what branch selects by timestamp includes all that was sent before.
Chronological ==
  /\ \A p \in 1..Len(posts) : posts[p].timestamp <= now
  /\ \A p, q \in 1..Len(posts) : q <= p => posts[q].timestamp <= posts[p].timestamp

BusInv == Shape /\ Chronological /\ HeldWhereSent

------------------------------------------------------------------------------
\* A conversation that is put in place has the members it was given, and no
\* other conversation changes its own.
LEMMA ConversationPut ==
  ASSUME NEW c \in Convs, DOMAIN conversations = Convs, NEW conv,
         conversations' = [conversations EXCEPT ![c] = {conv}]
  PROVE  /\ DOMAIN conversations' = Convs
         /\ Members(c)' = conv.members
         /\ \A d \in Convs : d # c => Members(d)' = Members(d)
<1>1. conversations'[c] = {conv}
  OBVIOUS
<1>2. Members(c)' = conv.members
  <2>1. (CHOOSE x \in {conv} : TRUE) = conv
    OBVIOUS
  <2> QED
    BY <1>1, <2>1 DEF Members, Exists, TheConversation
<1>3. \A d \in Convs : d # c => Members(d)' = Members(d)
  BY DEF Members, Exists, TheConversation
<1> QED
  BY <1>2, <1>3

\* Timestamps are numbers.
LEMMA Timestamps == Shape => \A p \in 1..Len(posts) : posts[p].timestamp \in Nat
<1>1. ASSUME Shape, NEW p \in 1..Len(posts) PROVE posts[p] \in SentPost
  BY <1>1 DEF Shape
<1> QED
  BY <1>1 DEF SentPost

\* A post that is sent is the last one and carries the present time; the earlier
\* ones stay as they are.
LEMMA PostSent ==
  ASSUME Shape, Chronological, UNCHANGED now,
         NEW from \in Seats, NEW mentions \in SUBSET Seats,
         NEW members \in SUBSET Reach, NEW broadcast \in BOOLEAN,
         posts' = Append(posts, NewPost(from, mentions, members, broadcast))
  PROVE  /\ posts' \in Seq(SentPost)
         /\ Len(posts') = Len(posts) + 1
         /\ \A p \in 1..Len(posts) : posts'[p] = posts[p]
         /\ posts'[Len(posts) + 1] = NewPost(from, mentions, members, broadcast)
         /\ posts'[Len(posts) + 1].audience = members
         /\ Chronological'
<1> DEFINE new == NewPost(from, mentions, members, broadcast)
<1>1. /\ new \in SentPost
      /\ new.audience = members
      /\ new.timestamp = now
  BY DEF NewPost, SentPost, Shape
<1> HIDE DEF new
<1>2. /\ posts' \in Seq(SentPost)
      /\ Len(posts') = Len(posts) + 1
      /\ \A p \in 1..Len(posts) : posts'[p] = posts[p]
      /\ posts'[Len(posts) + 1] = new
  BY <1>1 DEF Shape, new
<1>3. Len(posts) \in Nat
  BY DEF Shape
<1>4. \A p \in 1..Len(posts) : posts[p].timestamp \in Nat
  BY Timestamps
<1>5. \A p \in 1..Len(posts') : p \in 1..Len(posts) \/ p = Len(posts) + 1
  BY <1>2, <1>3
<1>6. now \in Nat /\ now' = now
  BY DEF Shape
<1>7. \A p \in 1..Len(posts') :
        posts'[p].timestamp = IF p = Len(posts) + 1 THEN now ELSE posts[p].timestamp
  BY <1>1, <1>2, <1>3, <1>5
<1>8. Chronological'
  <2>1. ASSUME NEW p \in 1..Len(posts') PROVE posts'[p].timestamp <= now'
    BY <1>4, <1>5, <1>6, <1>7, <2>1 DEF Chronological
  <2>2. ASSUME NEW p \in 1..Len(posts'), NEW q \in 1..Len(posts'), q <= p
        PROVE  posts'[q].timestamp <= posts'[p].timestamp
    BY <1>2, <1>3, <1>4, <1>5, <1>6, <1>7, <2>2 DEF Chronological
  <2> QED
    BY <2>1, <2>2 DEF Chronological
<1> QED
  BY <1>1, <1>2, <1>8 DEF new

\* The invariant at the start: nothing was said.
LEMMA BusInit == Init => BusInv
<1> SUFFICES ASSUME Init PROVE BusInv
  OBVIOUS
<1>1. posts \in Seq(SentPost) /\ Len(posts) = 0
  BY DEF Init
<1>2. \A c \in Convs : messages[c] = {} /\ Members(c) = {}
  BY DEF Init, Members, Exists
<1> QED
  BY <1>1, <1>2 DEF Init, BusInv, Shape, Chronological, HeldWhereSent

\* createGroup and createDirect: the messages of a conversation go when its
\* members do.
LEMMA CreateGroupKeeps ==
  ASSUME BusInv, NEW c \in Convs, NEW activity \in Activities, NEW members \in Groups,
         CreateGroup(c, activity, members)
  PROVE  BusInv'
<1>1. /\ DOMAIN conversations' = Convs
      /\ Members(c)' = NewConversation(members, activity).members
      /\ \A d \in Convs : d # c => Members(d)' = Members(d)
  BY ConversationPut DEF CreateGroup, BusInv, Shape
<1>2. Members(c)' \subseteq Reach
  BY <1>1, BusAssumption DEF NewConversation, Reach
<1>3. /\ DOMAIN messages' = Convs
      /\ messages'[c] = {}
      /\ \A d \in Convs : d # c => messages'[d] = messages[d]
      /\ UNCHANGED <<now, posts>>
  BY DEF CreateGroup, BusInv, Shape
<1>4. Shape'
  BY <1>1, <1>2, <1>3 DEF BusInv, Shape
<1>5. Chronological'
  BY <1>3 DEF BusInv, Chronological
<1>6. HeldWhereSent'
  BY <1>1, <1>3 DEF BusInv, HeldWhereSent
<1> QED
  BY <1>4, <1>5, <1>6 DEF BusInv

\* send: the members of the moment are the audience.
LEMMA SendKeeps ==
  ASSUME BusInv, NEW c \in Convs, NEW from \in Seats, NEW mentions \in Mentions,
         Send(c, from, mentions)
  PROVE  BusInv'
<1>1. /\ posts' \in Seq(SentPost)
      /\ Len(posts') = Len(posts) + 1
      /\ \A p \in 1..Len(posts) : posts'[p] = posts[p]
      /\ posts'[Len(posts) + 1].audience = Members(c)
      /\ Chronological'
  <2>1. mentions \in SUBSET Seats /\ Members(c) \in SUBSET Reach
    BY BusAssumption DEF BusInv, Shape
  <2> QED
    BY <2>1, PostSent DEF Send, BusInv
<1>2. \A d \in Convs : Members(d)' = Members(d)
  BY DEF Send, Members, Exists, TheConversation
<1>3. /\ DOMAIN messages' = Convs
      /\ messages'[c] = messages[c] \cup {Len(posts) + 1}
      /\ \A d \in Convs : d # c => messages'[d] = messages[d]
      /\ UNCHANGED <<now, conversations>>
  BY DEF Send, BusInv, Shape
<1>4. Len(posts) \in Nat
  BY DEF BusInv, Shape
<1>5. \A d \in Convs : messages'[d] \subseteq 1..Len(posts')
  BY <1>1, <1>3, <1>4 DEF BusInv, Shape
<1>6. Shape'
  BY <1>1, <1>2, <1>3, <1>5 DEF BusInv, Shape
<1>7. HeldWhereSent'
  BY <1>1, <1>2, <1>3 DEF BusInv, Shape, HeldWhereSent
<1> QED
  BY <1>1, <1>6, <1>7 DEF BusInv

\* broadcast: a new conversation with one message, sent to its members.
LEMMA BroadcastKeeps ==
  ASSUME BusInv, NEW c \in Convs, NEW from \in Seats, NEW activity \in Activities,
         Broadcast(c, from, activity)
  PROVE  BusInv'
<1> DEFINE members == {from} \cup Descendants(from)
<1>1. members \in SUBSET Reach
  BY DEF Reach
<1>2. /\ conversations' = [conversations EXCEPT ![c] = {NewConversation(members, activity)}]
      /\ posts' = Append(posts, NewPost(from, {}, members, TRUE))
      /\ messages' = [messages EXCEPT ![c] = {Len(posts) + 1}]
      /\ UNCHANGED now
  BY DEF Broadcast
<1> HIDE DEF members
<1>3. /\ DOMAIN conversations' = Convs
      /\ Members(c)' = NewConversation(members, activity).members
      /\ \A d \in Convs : d # c => Members(d)' = Members(d)
  BY <1>2, ConversationPut DEF BusInv, Shape
<1>4. Members(c)' = members
  BY <1>3 DEF NewConversation
<1>5. /\ posts' \in Seq(SentPost)
      /\ Len(posts') = Len(posts) + 1
      /\ \A p \in 1..Len(posts) : posts'[p] = posts[p]
      /\ posts'[Len(posts) + 1].audience = members
      /\ Chronological'
  <2>1. {} \in SUBSET Seats /\ TRUE \in BOOLEAN
    OBVIOUS
  <2> QED
    BY <1>1, <1>2, <2>1, PostSent DEF BusInv
<1>6. /\ DOMAIN messages' = Convs
      /\ messages'[c] = {Len(posts) + 1}
      /\ \A d \in Convs : d # c => messages'[d] = messages[d]
  BY <1>2 DEF BusInv, Shape
<1>7. Len(posts) \in Nat
  BY DEF BusInv, Shape
<1>8. \A d \in Convs : messages'[d] \subseteq 1..Len(posts')
  BY <1>5, <1>6, <1>7 DEF BusInv, Shape
<1>9. Shape'
  <2>1. Shape
    BY DEF BusInv
  <2> QED
    BY <1>1, <1>2, <1>3, <1>4, <1>5, <1>6, <1>8, <2>1, ZenonT(40) DEF Shape
<1>10. HeldWhereSent'
  BY <1>3, <1>4, <1>5, <1>6 DEF BusInv, Shape, HeldWhereSent
<1> QED
  BY <1>5, <1>9, <1>10 DEF BusInv

\* branch: the same members, and messages of theirs only.
LEMMA BranchKeeps ==
  ASSUME BusInv, NEW new \in Convs, NEW c \in Convs, NEW p \in DOMAIN posts,
         Branch(new, c, p)
  PROVE  BusInv'
<1> DEFINE conv == [members    |-> Members(c),
                    activityId |-> TheConversation(c).activityId,
                    branchFrom |-> {<<c, p>>}]
<1>1. conversations' = [conversations EXCEPT ![new] = {conv}] /\ conv.members = Members(c)
  BY DEF Branch
<1> HIDE DEF conv
<1>2. /\ DOMAIN conversations' = Convs
      /\ Members(new)' = Members(c)
      /\ \A d \in Convs : d # new => Members(d)' = Members(d)
  BY <1>1, ConversationPut DEF BusInv, Shape
<1>3. /\ DOMAIN messages' = Convs
      /\ messages'[new] \subseteq messages[c]
      /\ \A d \in Convs : d # new => messages'[d] = messages[d]
      /\ UNCHANGED <<now, posts>>
  BY DEF Branch, Inherited, BusInv, Shape
<1>4. Shape'
  BY <1>2, <1>3 DEF BusInv, Shape
<1>5. Chronological'
  BY <1>3 DEF BusInv, Chronological
<1>6. HeldWhereSent'
  BY <1>2, <1>3 DEF BusInv, HeldWhereSent
<1> QED
  BY <1>4, <1>5, <1>6 DEF BusInv

\* Every step keeps the invariant.
LEMMA BusStep == BusInv /\ [Next]_vars => BusInv'
<1> SUFFICES ASSUME BusInv, [Next]_vars PROVE BusInv'
  OBVIOUS
<1>1. ASSUME NEW c \in Convs, NEW activity \in Activities, NEW members \in Groups,
             CreateGroup(c, activity, members)
      PROVE  BusInv'
  BY <1>1, CreateGroupKeeps
<1>2. ASSUME NEW c \in Convs, NEW from \in Seats, NEW mentions \in Mentions,
             Send(c, from, mentions)
      PROVE  BusInv'
  BY <1>2, SendKeeps
<1>3. ASSUME NEW c \in Convs, NEW from \in Seats, NEW activity \in Activities,
             Broadcast(c, from, activity)
      PROVE  BusInv'
  BY <1>3, BroadcastKeeps
<1>4. ASSUME NEW new \in Convs, NEW c \in Convs, NEW p \in DOMAIN posts, Branch(new, c, p)
      PROVE  BusInv'
  BY <1>4, BranchKeeps
<1>5. CASE Tick
  <2>1. /\ now \in Nat /\ now' = now + 1
        /\ UNCHANGED <<posts, conversations, messages>>
    BY <1>5 DEF Tick, BusInv, Shape
  <2>2. \A c \in Convs : Members(c)' = Members(c)
    BY <2>1 DEF Members, Exists, TheConversation
  <2>3. \A p \in 1..Len(posts) : posts[p].timestamp \in Nat
    BY Timestamps DEF BusInv
  <2>4. Shape' /\ HeldWhereSent'
    BY <2>1, <2>2 DEF BusInv, Shape, HeldWhereSent
  <2>5. Chronological'
    BY <2>1, <2>3 DEF BusInv, Chronological
  <2> QED
    BY <2>4, <2>5 DEF BusInv
<1>6. CASE UNCHANGED vars
  <2>1. UNCHANGED <<now, posts, conversations, messages>>
    BY <1>6 DEF vars
  <2>2. \A c \in Convs : Members(c)' = Members(c)
    BY <2>1 DEF Members, Exists, TheConversation
  <2> QED
    BY <2>1, <2>2 DEF BusInv, Shape, Chronological, HeldWhereSent
<1> QED
  BY <1>1, <1>2, <1>3, <1>4, <1>5, <1>6 DEF Next

\* BusInv holds in every state.
LEMMA BusInvariant == Spec => []BusInv
  BY BusInit, BusStep, PTL DEF Spec

\* The conversations, apart from what they hold, and the bounds.
Typed ==
  /\ now \in 0..MaxTime
  /\ Len(posts) <= MaxPosts
  /\ \A c \in Convs :
       /\ conversations[c] = {} \/ \E conv \in Conversation : conversations[c] = {conv}
       /\ messages[c] # {} => conversations[c] # {}

\* No broadcast reaches further than the seats there are.
LEMMA ReachIsSeats == Reach = Seats
  BY DEF Reach, Descendants

\* A conversation that is put in place is one.
LEMMA TypedPut ==
  ASSUME Typed, NEW c \in Convs, DOMAIN conversations = Convs, DOMAIN messages = Convs,
         NEW conv \in Conversation, conversations' = [conversations EXCEPT ![c] = {conv}],
         \A d \in Convs : d # c => messages'[d] = messages[d],
         now' = now, Len(posts') <= MaxPosts
  PROVE  Typed'
<1>1. \A d \in Convs : conversations'[d] = IF d = c THEN {conv} ELSE conversations[d]
  OBVIOUS
<1>2. conversations'[c] # {}
  BY <1>1
<1>3. ASSUME NEW d \in Convs
      PROVE  /\ conversations'[d] = {} \/ \E x \in Conversation : conversations'[d] = {x}
             /\ messages'[d] # {} => conversations'[d] # {}
  BY <1>1, <1>2, <1>3 DEF Typed
<1> QED
  BY <1>3 DEF Typed

\* A conversation that is there is one, and a message shows one.
LEMMA TheConversationTyped ==
  ASSUME Typed, NEW c \in Convs, Exists(c)
  PROVE  TheConversation(c) \in Conversation
<1>1. PICK conv \in Conversation : conversations[c] = {conv}
  BY DEF Typed, Exists
<1>2. (CHOOSE x \in {conv} : TRUE) = conv
  OBVIOUS
<1> QED
  BY <1>1, <1>2 DEF TheConversation

\* Every step keeps the conversations typed and the bounds.
LEMMA TypedStep == BusInv /\ Typed /\ [Next]_vars => Typed'
<1> SUFFICES ASSUME BusInv, Typed, [Next]_vars PROVE Typed'
  OBVIOUS
<1>1. /\ DOMAIN conversations = Convs
      /\ DOMAIN messages = Convs
      /\ posts \in Seq(SentPost) /\ Len(posts) \in Nat /\ Len(posts) <= MaxPosts
      /\ MaxPosts \in Nat /\ MaxTime \in Nat
  BY BusAssumption DEF BusInv, Shape, Typed
<1>2. ASSUME NEW members \in SUBSET Seats, NEW activity \in Activities
      PROVE  NewConversation(members, activity) \in Conversation
  BY <1>2 DEF NewConversation, Conversation
<1>3. ASSUME NEW c \in Convs, NEW activity \in Activities, NEW members \in Groups,
             CreateGroup(c, activity, members)
      PROVE  Typed'
  <2>1. NewConversation(members, activity) \in Conversation
    BY <1>2, BusAssumption
  <2> HIDE DEF NewConversation
  <2> QED
    BY <1>1, <1>3, <2>1, TypedPut DEF CreateGroup
<1>4. ASSUME NEW c \in Convs, NEW from \in Seats, NEW mentions \in Mentions,
             Len(posts) < MaxPosts, Send(c, from, mentions)
      PROVE  Typed'
  <2>1. Len(posts') = Len(posts) + 1
    BY <1>1, <1>4 DEF Send
  <2>2. UNCHANGED <<now, conversations>> /\ conversations[c] # {}
        /\ \A d \in Convs : d # c => messages'[d] = messages[d]
    BY <1>1, <1>4 DEF Send, Exists
  <2> QED
    BY <1>1, <1>4, <2>1, <2>2 DEF Typed
<1>5. ASSUME NEW c \in Convs, NEW from \in Seats, NEW activity \in Activities,
             Len(posts) < MaxPosts, Broadcast(c, from, activity)
      PROVE  Typed'
  <2> DEFINE members == {from} \cup Descendants(from)
  <2>1. members \in SUBSET Seats
    BY ReachIsSeats DEF Reach
  <2>2. /\ conversations' = [conversations EXCEPT ![c] = {NewConversation(members, activity)}]
        /\ Len(posts') = Len(posts) + 1
        /\ \A d \in Convs : d # c => messages'[d] = messages[d]
        /\ now' = now
    BY <1>1, <1>5 DEF Broadcast
  <2> HIDE DEF members
  <2>3. NewConversation(members, activity) \in Conversation
    BY <1>2, <2>1
  <2>4. Len(posts') <= MaxPosts
    BY <1>1, <1>5, <2>2
  <2> HIDE DEF NewConversation
  <2> QED
    BY <1>1, <2>2, <2>3, <2>4, TypedPut
<1>6. ASSUME NEW new \in Convs, NEW c \in Convs, NEW p \in DOMAIN posts, Branch(new, c, p)
      PROVE  Typed'
  <2> DEFINE conv == [members    |-> Members(c),
                      activityId |-> TheConversation(c).activityId,
                      branchFrom |-> {<<c, p>>}]
  <2>1. Exists(c)
    BY <1>6 DEF Branch, Typed, Exists
  <2>2. TheConversation(c) \in Conversation
    BY <2>1, TheConversationTyped
  <2>3. p \in 1..MaxPosts
    BY <1>1
  <2>4. conv \in Conversation
    BY <2>1, <2>2, <2>3 DEF Conversation, Members, MessageIds
  <2>5. /\ conversations' = [conversations EXCEPT ![new] = {conv}]
        /\ \A d \in Convs : d # new => messages'[d] = messages[d]
        /\ now' = now /\ posts' = posts
    BY <1>1, <1>6 DEF Branch
  <2> HIDE DEF conv
  <2> QED
    BY <1>1, <2>4, <2>5, TypedPut
<1>7. CASE Tick
  BY <1>1, <1>7 DEF Tick, Typed
<1>8. CASE UNCHANGED vars
  BY <1>8 DEF vars, Typed
<1> QED
  BY <1>3, <1>4, <1>5, <1>6, <1>7, <1>8 DEF Next

\* Every state of the message bus is well typed, for any chain of command,
\* conversations, groups and bounds.
THEOREM TypeCorrect == Spec => []TypeOK
<1>1. Init => Typed
  <2>1. Init => /\ now = 0 /\ posts = <<>>
                /\ \A c \in Convs : conversations[c] = {} /\ messages[c] = {}
    BY DEF Init
  <2> QED
    BY <2>1, BusAssumption DEF Typed
<1>2. BusInv /\ Typed => TypeOK
  <2> SUFFICES ASSUME BusInv, Typed PROVE TypeOK
    OBVIOUS
  <2>1. SentPost = Post
    BY ReachIsSeats DEF SentPost, Post
  <2>2. posts \in Seq(Post) /\ DOMAIN posts = 1..Len(posts)
    BY <2>1 DEF BusInv, Shape
  <2> QED
    BY <2>2 DEF BusInv, Shape, Typed, TypeOK
<1> QED
  BY <1>1, <1>2, BusInvariant, TypedStep, PTL DEF Spec

------------------------------------------------------------------------------
\* A broadcast is addressed to its sender and to everyone below.
BroadcastInv ==
  \A p \in 1..Len(posts) :
    posts[p].broadcast =>
      /\ posts[p].from \in Seats
      /\ posts[p].audience = {posts[p].from} \cup Descendants(posts[p].from)

\* A post that is sent is a broadcast only if it goes to everyone below.
LEMMA BroadcastSent ==
  ASSUME BusInv, BroadcastInv, UNCHANGED now, NEW from \in Seats,
         NEW mentions \in SUBSET Seats, NEW members \in SUBSET Reach,
         NEW broadcast \in BOOLEAN,
         broadcast => members = {from} \cup Descendants(from),
         posts' = Append(posts, NewPost(from, mentions, members, broadcast))
  PROVE  BroadcastInv'
<1> DEFINE new == NewPost(from, mentions, members, broadcast)
<1>1. new.from = from /\ new.audience = members /\ new.broadcast = broadcast
  BY DEF NewPost
<1> HIDE DEF new
<1>2. /\ Len(posts') = Len(posts) + 1 /\ Len(posts) \in Nat
      /\ \A p \in 1..Len(posts) : posts'[p] = posts[p]
      /\ posts'[Len(posts) + 1] = new
  BY PostSent DEF BusInv, Shape, new
<1>3. \A p \in 1..Len(posts') :
        \/ p \in 1..Len(posts) /\ posts'[p] = posts[p]
        \/ p = Len(posts) + 1 /\ posts'[p] = new
  BY <1>2
<1> QED
  BY <1>1, <1>3 DEF BroadcastInv

\* Nothing but a broadcast is marked as one.
LEMMA BroadcastStep == BusInv /\ BroadcastInv /\ [Next]_vars => BroadcastInv'
<1> SUFFICES ASSUME BusInv, BroadcastInv, [Next]_vars PROVE BroadcastInv'
  OBVIOUS
<1>1. ASSUME NEW c \in Convs, NEW from \in Seats, NEW mentions \in Mentions,
             Send(c, from, mentions)
      PROVE  BroadcastInv'
  <2>1. mentions \in SUBSET Seats /\ Members(c) \in SUBSET Reach
    BY BusAssumption DEF BusInv, Shape
  <2> QED
    BY <1>1, <2>1, BroadcastSent DEF Send
<1>2. ASSUME NEW c \in Convs, NEW from \in Seats, NEW activity \in Activities,
             Broadcast(c, from, activity)
      PROVE  BroadcastInv'
  <2>1. {} \in SUBSET Seats /\ {from} \cup Descendants(from) \in SUBSET Reach
    BY DEF Reach
  <2> QED
    BY <1>2, <2>1, BroadcastSent DEF Broadcast
<1>3. CASE UNCHANGED posts
  BY <1>3 DEF BroadcastInv
<1>4. ASSUME NEW c \in Convs, NEW activity \in Activities, NEW members \in Groups,
             CreateGroup(c, activity, members)
      PROVE  UNCHANGED posts
  BY <1>4 DEF CreateGroup
<1>5. ASSUME NEW new \in Convs, NEW c \in Convs, NEW p \in DOMAIN posts, Branch(new, c, p)
      PROVE  UNCHANGED posts
  BY <1>5 DEF Branch
<1>6. Tick \/ UNCHANGED vars => UNCHANGED posts
  BY DEF Tick, vars
<1> QED
  BY <1>1, <1>2, <1>3, <1>4, <1>5, <1>6 DEF Next

\* A broadcast is addressed to exactly the seats that have its sender above them,
\* and to its sender, whatever is sent, branched or made again afterwards.
THEOREM BroadcastsCover == Spec => []BroadcastCoversSubtree
<1>1. Init => BroadcastInv
  BY DEF Init, BroadcastInv
<1>2. BusInv /\ BroadcastInv => BroadcastCoversSubtree
  <2>1. ASSUME BusInv PROVE DOMAIN posts = 1..Len(posts)
    BY <2>1 DEF BusInv, Shape
  <2> QED
    BY <2>1, DownIsUp DEF BroadcastInv, BroadcastCoversSubtree
<1> QED
  BY <1>1, <1>2, BusInvariant, BroadcastStep, PTL DEF Spec

------------------------------------------------------------------------------
\* Messages stay in the circle they were sent to, through groups made again and
\* branches of branches, and no query hands them further than their mentions.
THEOREM MessagesKept == Spec => []MessagesStayInTheirCircle
<1>1. ASSUME BusInv PROVE ReadersAreAddressed
  <2> SUFFICES ASSUME NEW s \in Seats,
                      NEW p \in MessagesForSeat(s, Activities) \cup MentionsFor(s)
               PROVE  s \in posts[p].audience \cup posts[p].mentions
    BY DEF ReadersAreAddressed
  <2>1. CASE p \in MentionsFor(s)
    BY <2>1 DEF MentionsFor
  <2>2. CASE p \in MessagesForSeat(s, Activities)
    <3>1. PICK c \in Convs : s \in Members(c) /\ p \in messages[c]
      BY <2>2 DEF MessagesForSeat
    <3> QED
      BY <1>1, <3>1 DEF BusInv, HeldWhereSent
  <2> QED
    BY <2>1, <2>2
<1>2. BusInv => MessagesStayInTheirCircle
  BY <1>1 DEF BusInv, MessagesStayInTheirCircle
<1> QED
  BY <1>2, BusInvariant, PTL

\* A branch holds the message it was made from and all that came before it in
\* its conversation, however many messages share a millisecond.
THEOREM ContextInherited == Spec => BranchInheritsContext
<1>1. ASSUME BusInv, NEW c \in Convs, NEW new \in Convs, NEW p \in DOMAIN posts,
             Branch(new, c, p)
      PROVE  {q \in messages[c] : q <= p} \subseteq messages'[new]
  <2>1. messages'[new] = Inherited(c, p)
    BY <1>1 DEF Branch, BusInv, Shape
  <2>2. \A q \in messages[c] : q \in 1..Len(posts)
    BY <1>1 DEF BusInv, Shape
  <2>3. p \in 1..Len(posts)
    BY <1>1 DEF BusInv, Shape
  <2> QED
    BY <1>1, <2>1, <2>2, <2>3 DEF Inherited, BusInv, Chronological
<1>2. BusInv /\ [Next]_vars =>
        [\A c, new \in Convs, p \in DOMAIN posts :
           conversations[new] = {} /\ Branch(new, c, p) =>
             {q \in messages[c] : q <= p} \subseteq messages'[new]]_vars
  BY <1>1
<1> QED
  BY <1>2, BusInvariant, PTL DEF Spec, BranchInheritsContext

\* A step adds messages to one conversation at most: no conversation shares its
\* list with another.
THEOREM ConversationsSeparate == Spec => ConversationsDoNotMix
<1> DEFINE Separate ==
      \A c, d \in Convs :
        ~(messages'[c] \subseteq messages[c]) /\ ~(messages'[d] \subseteq messages[d])
          => c = d
<1>1. ASSUME BusInv, Next PROVE Separate
  <2>1. ASSUME NEW e \in Convs, \A d \in Convs : d # e => messages'[d] = messages[d]
        PROVE  Separate
    BY <2>1
  <2> HIDE DEF Separate
  <2>2. DOMAIN messages = Convs
    BY <1>1 DEF BusInv, Shape
  <2>3. ASSUME NEW e \in Convs, NEW activity \in Activities, NEW members \in Groups,
               CreateGroup(e, activity, members)
        PROVE  Separate
    BY <2>1, <2>2, <2>3 DEF CreateGroup
  <2>4. ASSUME NEW e \in Convs, NEW from \in Seats, NEW mentions \in Mentions,
               Send(e, from, mentions)
        PROVE  Separate
    BY <2>1, <2>2, <2>4 DEF Send
  <2>5. ASSUME NEW e \in Convs, NEW from \in Seats, NEW activity \in Activities,
               Broadcast(e, from, activity)
        PROVE  Separate
    BY <2>1, <2>2, <2>5 DEF Broadcast
  <2>6. ASSUME NEW e \in Convs, NEW c \in Convs, NEW p \in DOMAIN posts, Branch(e, c, p)
        PROVE  Separate
    BY <2>1, <2>2, <2>6 DEF Branch
  <2>7. CASE Tick
    BY <2>7 DEF Tick, Separate
  <2> QED
    BY <1>1, <2>3, <2>4, <2>5, <2>6, <2>7 DEF Next
<1>2. BusInv /\ [Next]_vars => [Separate]_vars
  BY <1>1
<1> QED
  BY <1>2, BusInvariant, PTL DEF Spec, ConversationsDoNotMix
==============================================================================
