---------------------------- MODULE StreamProofs ----------------------------
(***************************************************************************)
(* Stream's safety: its types, the slots, that no tab is sent a row twice  *)
(* or out of order, and, when one instance writes, that none is skipped,   *)
(* for any tabs, connections, limits, batch sizes and faults.              *)
(*                                                                         *)
(* NothingRepeats is not inductive: a tab relies on what its connection    *)
(* will send next.  FeedInv adds, per stage, that a connection goes on     *)
(* where its tab stands (Continues).  NothingSkipped needs more: what a    *)
(* connection is about to send is all there is up to it (Gapless), which   *)
(* a row committed late would break; with one writer, rows become visible  *)
(* in the order of their ids (InOrder).                                    *)
(*                                                                         *)
(* StreamsWithinLimit and ReconnectSkipsNothing do not hold.  What does is *)
(* proved at the end: by how much the limit can be overrun (Within), and   *)
(* which tabs a reconnect may take past a row.                             *)
(***************************************************************************)
EXTENDS Stream, SumProofs

\* Connection c has sent tab t nothing beyond what t has, and will go on from
\* there.
Continues(t, c) ==
  /\ stage[c] # "free"
  /\ stage[c] \in {"requested", "admitted"} => after[c] = lastId[t]
  /\ stage[c] = "attaching" => lastId[t] = NoId
  /\ stage[c] = "polling" => lastId[t] <= cursor[c]
  /\ stage[c] = "sending" => \A i \in batch[c] : lastId[t] < i

LinksContinue == \A t \in Tabs : \A c \in Conns : link[t] = c => Continues(t, c)

\* A connection sends only while it has rows to send.
BatchesLeft == \A c \in Conns : stage[c] = "sending" => batch[c] # {}

FeedInv == TypeOK /\ SlotsAccounted /\ NothingRepeats /\ LinksContinue /\ BatchesLeft

-----------------------------------------------------------------------------
(* Least and greatest numbers of a set *)

\* The least number, and the greatest.
LEMMA MinIs ==
  ASSUME NEW S \in SUBSET Nat, S # {}
  PROVE  Min(S) \in S /\ \A y \in S : Min(S) <= y
BY LeastExists DEF Min

LEMMA MaxIs ==
  ASSUME NEW S \in SUBSET Nat, NEW m \in S, \A y \in S : y <= m
  PROVE  Max(S) = m
<1> DEFINE greatest(x) == x \in S /\ \A y \in S : x >= y
<1>1. greatest(m)
  OBVIOUS
<1>2. \A x : greatest(x) => x = m
  OBVIOUS
<1>3. Max(S) = CHOOSE x : greatest(x)
  BY <1>1, <1>2 DEF Max
<1> QED BY <1>1, <1>2, <1>3

\* A bounded set with zero in it has a greatest element: the least of its bounds.
LEMMA MaxExists ==
  ASSUME NEW N \in Nat, NEW S \in SUBSET (0..N), 0 \in S
  PROVE  Max(S) \in S /\ \A y \in S : y <= Max(S)
<1> DEFINE Bounds == {n \in Nat : \A y \in S : y <= n}
<1>1. N \in Bounds
  OBVIOUS
<1>2. PICK n \in Bounds : \A y \in Bounds : n <= y
  BY <1>1, LeastExists
<1>3. n \in S
  <2> SUFFICES ASSUME n \notin S PROVE FALSE
    OBVIOUS
  <2>1. n > 0
    BY <1>2
  <2>2. n - 1 \in Nat /\ \A y \in S : y <= n - 1
    BY <1>2, <2>1
  <2> QED BY <1>2, <2>2
<1> QED BY <1>2, <1>3, MaxIs

LEMMA MaxOfTwo ==
  ASSUME NEW a \in Nat, NEW b \in Nat
  PROVE  Max({a, b}) = IF a <= b THEN b ELSE a
BY MaxIs

-----------------------------------------------------------------------------
(* Parts of a step *)

USE StreamConstants DEF Ids, NoId

TabsTyped ==
  /\ mode \in [Tabs -> {"opening", "linked", "paused"}]
  /\ link \in [Tabs -> Conns \cup {NoConn}]
  /\ lastId \in [Tabs -> Ids \cup {NoId}]
  /\ received \in [Tabs -> Nat]
  /\ seen \in [Tabs -> SUBSET Ids]
  /\ since \in [Tabs -> Ids \cup {NoId, Nowhere}]

StoreTyped ==
  /\ nextId \in 1..(MaxId + 1)
  /\ inserting \in [Writers -> Ids \cup {NoId}]
  /\ stored \in SUBSET Ids

ConnsTyped ==
  /\ stage \in [Conns -> Stages]
  /\ after \in [Conns -> Ids \cup {NoId}]
  /\ cursor \in [Conns -> Ids \cup {NoId}]
  /\ batch \in [Conns -> SUBSET Ids]

BudgetTyped == budget \in 0..MaxFaults

LEMMA TypeParts ==
  TypeOK <=> TabsTyped /\ StoreTyped /\ ConnsTyped /\ BudgetTyped /\ openStreams \in Nat
BY DEF TypeOK, TabsTyped, StoreTyped, ConnsTyped, BudgetTyped

LEMMA TypePartsNext ==
  TabsTyped' /\ StoreTyped' /\ ConnsTyped' /\ BudgetTyped' /\ openStreams' \in Nat => TypeOK'
BY DEF TypeOK, TabsTyped, StoreTyped, ConnsTyped, BudgetTyped

LEMMA SpendTyped == BudgetTyped /\ (Spend \/ UNCHANGED budget) => BudgetTyped'
BY DEF BudgetTyped, Spend

LEMMA StreamingFinite ==
  /\ IsFiniteSet(Streaming) /\ IsFiniteSet(Streaming') /\ Cardinality(Streaming) \in Nat
  /\ Cardinality(Streaming') \in Nat
<1>1. Streaming \in SUBSET Conns /\ Streaming' \in SUBSET Conns
  BY DEF Streaming
<1> QED BY <1>1, FS_Subset, FS_CardinalityType

\* Requests that end release the slots they hold, whatever the others do.
LEMMA FreeKeeps ==
  ASSUME ConnsTyped, NEW C \in SUBSET Conns, Free(C)
  PROVE  /\ ConnsTyped' /\ (BatchesLeft => BatchesLeft')
         /\ Streaming' = Streaming \ C
         /\ \A c \in Conns \ C :
              /\ stage'[c] = stage[c] /\ after'[c] = after[c]
              /\ cursor'[c] = cursor[c] /\ batch'[c] = batch[c]
<1>1. \A c \in Conns :
        /\ stage'[c] = IF c \in C THEN "free" ELSE stage[c]
        /\ after'[c] = IF c \in C THEN NoId ELSE after[c]
        /\ cursor'[c] = IF c \in C THEN NoId ELSE cursor[c]
        /\ batch'[c] = IF c \in C THEN {} ELSE batch[c]
  BY DEF Free
<1>2. stage' \in [Conns -> Stages]
  BY DEF Free, ConnsTyped, Stages
<1>3. after' \in [Conns -> Ids \cup {NoId}] /\ cursor' \in [Conns -> Ids \cup {NoId}]
  BY DEF Free, ConnsTyped
<1>4. batch' \in [Conns -> SUBSET Ids]
  BY DEF Free, ConnsTyped
<1>5. Streaming' = Streaming \ C
  BY <1>1 DEF Streaming, Started
<1>6. BatchesLeft => BatchesLeft'
  BY <1>1 DEF BatchesLeft
<1> QED BY <1>1, <1>2, <1>3, <1>4, <1>5, <1>6 DEF ConnsTyped

\* One connection moves to another stage.
LEMMA MoveKeeps ==
  ASSUME NEW c \in Conns, NEW to \in Stages, stage \in [Conns -> Stages],
         stage' = [stage EXCEPT ![c] = to]
  PROVE  /\ stage' \in [Conns -> Stages]
         /\ Streaming' = IF to \in Started THEN Streaming \cup {c} ELSE Streaming \ {c}
BY DEF Streaming

LEMMA SeverKeeps ==
  ASSUME TabsTyped, NEW C, Sever(C)
  PROVE  /\ TabsTyped' /\ (NothingRepeats => NothingRepeats')
         /\ UNCHANGED <<lastId, received, seen, since>>
         /\ \A t \in Tabs : link'[t] = IF link[t] \in C THEN NoConn ELSE link[t]
<1>1. mode' \in [Tabs -> {"opening", "linked", "paused"}] /\ link' \in [Tabs -> Conns \cup {NoConn}]
  BY DEF Sever, TabsTyped
<1>2. UNCHANGED <<lastId, received, seen, since>>
  BY DEF Sever
<1>3. \A t \in Tabs : link'[t] = IF link[t] \in C THEN NoConn ELSE link[t]
  BY DEF Sever
<1>4. NothingRepeats => NothingRepeats'
  BY <1>2 DEF NothingRepeats
<1> QED BY <1>1, <1>2, <1>3, <1>4 DEF TabsTyped

\* Links that are left, to connections that stay as they are.
LEMMA LinksKept ==
  ASSUME LinksContinue, UNCHANGED lastId,
         \A t \in Tabs : \A c \in Conns : link'[t] = c =>
           /\ link[t] = c
           /\ stage'[c] = stage[c] /\ after'[c] = after[c]
           /\ cursor'[c] = cursor[c] /\ batch'[c] = batch[c]
  PROVE  LinksContinue'
<1> SUFFICES ASSUME NEW t \in Tabs, NEW c \in Conns, link'[t] = c
             PROVE  Continues(t, c)'
  BY DEF LinksContinue
<1>1. Continues(t, c)
  BY DEF LinksContinue
<1> QED BY <1>1 DEF Continues

\* The same when one connection changes too, but not those of the others.
LEMMA OneMoves ==
  ASSUME LinksContinue, UNCHANGED <<lastId, link>>, NEW x \in Conns,
         \A c \in Conns \ {x} :
           /\ stage'[c] = stage[c] /\ after'[c] = after[c]
           /\ cursor'[c] = cursor[c] /\ batch'[c] = batch[c],
         \A t \in Tabs : link[t] = x => Continues(t, x)'
  PROVE  LinksContinue'
<1> SUFFICES ASSUME NEW t \in Tabs, NEW c \in Conns, link[t] = c, c # x
             PROVE  Continues(t, c)'
  BY DEF LinksContinue
<1>1. Continues(t, c)
  BY DEF LinksContinue
<1> QED BY <1>1 DEF Continues

-----------------------------------------------------------------------------
(* The feed *)

LEMMA FeedInit == Init => FeedInv
<1> SUFFICES ASSUME Init PROVE FeedInv
  OBVIOUS
<1>1. TabsTyped
  BY DEF Init, TabsTyped, Nowhere
<1>2. StoreTyped /\ BudgetTyped /\ openStreams \in Nat
  BY DEF Init, StoreTyped, BudgetTyped
<1>3. ConnsTyped
  BY DEF Init, ConnsTyped, Stages
<1>4. Streaming = {}
  BY DEF Init, Streaming, Started
<1>5. SlotsAccounted
  BY <1>4, FS_EmptySet DEF SlotsAccounted, Init
<1>6. NothingRepeats
  <2>1. Max({} \cup {NoId}) = NoId
    BY MaxIs
  <2> QED BY <2>1, FS_EmptySet DEF Init, NothingRepeats
<1>7. LinksContinue /\ BatchesLeft
  BY DEF Init, LinksContinue, BatchesLeft
<1> QED BY <1>1, <1>2, <1>3, <1>5, <1>6, <1>7, TypeParts DEF FeedInv

LEMMA StoreKeeps ==
  ASSUME FeedInv, NEW w \in Writers, Insert(w) \/ Commit(w) \/ Discard(w)
  PROVE  FeedInv'
<1>1. StoreTyped
  BY TypeParts DEF FeedInv
<1>2. StoreTyped'
  <2>1. CASE Insert(w)
    <3>1. /\ nextId \in 1..MaxId /\ nextId' = nextId + 1 /\ stored' = stored
          /\ inserting' = [inserting EXCEPT ![w] = nextId]
      BY <1>1, <2>1 DEF Insert, StoreTyped
    <3>2. inserting' \in [Writers -> Ids \cup {NoId}]
      BY <1>1, <3>1 DEF StoreTyped
    <3> QED BY <1>1, <3>1, <3>2 DEF StoreTyped
  <2>2. CASE Commit(w) \/ Discard(w)
    <3>1. /\ stored' \in {stored, stored \cup {inserting[w]}} /\ inserting[w] # NoId
          /\ inserting' = [inserting EXCEPT ![w] = NoId] /\ nextId' = nextId
      BY <2>2 DEF Commit, Discard
    <3> QED BY <1>1, <3>1 DEF StoreTyped
  <2> QED BY <2>1, <2>2
<1>3. UNCHANGED <<serverVars, tabVars, budget>>
  BY DEF Insert, Commit, Discard
<1>4. TypeOK'
  BY <1>2, <1>3 DEF FeedInv, TypeOK, StoreTyped, serverVars, tabVars
<1>5. SlotsAccounted' /\ NothingRepeats' /\ BatchesLeft'
  BY <1>3 DEF FeedInv, SlotsAccounted, Streaming, NothingRepeats, BatchesLeft, serverVars, tabVars
<1>6. LinksContinue'
  BY <1>3, LinksKept DEF FeedInv, serverVars, tabVars
<1> QED BY <1>4, <1>5, <1>6 DEF FeedInv

\* Steps of a tab that open no connection.
LEMMA TabKeeps ==
  ASSUME FeedInv, NEW t \in Tabs, Pause(t) \/ Resume(t) \/ Drop(t)
  PROVE  FeedInv'
<1>0. TabsTyped /\ StoreTyped /\ ConnsTyped /\ BudgetTyped /\ openStreams \in Nat
  BY TypeParts DEF FeedInv
<1>1. UNCHANGED <<storeVars, serverVars>> /\ (Spend \/ UNCHANGED budget)
  BY DEF Pause, Resume, Drop
<1>2. /\ TabsTyped' /\ NothingRepeats' /\ UNCHANGED lastId
      /\ \A x \in Tabs : link'[x] \in {link[x], NoConn}
  <2>1. CASE Pause(t)
    <3>1. mode' = [mode EXCEPT ![t] = "paused"] /\ link' = [link EXCEPT ![t] = NoConn]
      BY <2>1 DEF Pause
    <3>2. UNCHANGED <<lastId, received, seen, since>>
      BY <2>1 DEF Pause
    <3> QED BY <1>0, <3>1, <3>2 DEF FeedInv, TabsTyped, NothingRepeats
  <2>2. CASE Resume(t)
    <3>1. mode' = [mode EXCEPT ![t] = "opening"]
      BY <2>2 DEF Resume
    <3>2. UNCHANGED <<link, lastId, received, seen, since>>
      BY <2>2 DEF Resume
    <3> QED BY <1>0, <3>1, <3>2 DEF FeedInv, TabsTyped, NothingRepeats
  <2>3. CASE Drop(t)
    BY <1>0, <2>3, SeverKeeps DEF FeedInv, Drop
  <2> QED BY <2>1, <2>2, <2>3
<1>3. TypeOK'
  BY <1>0, <1>1, <1>2, SpendTyped
     DEF TypeOK, TabsTyped, StoreTyped, ConnsTyped, BudgetTyped, storeVars, serverVars
<1>4. SlotsAccounted' /\ BatchesLeft'
  BY <1>1 DEF FeedInv, SlotsAccounted, Streaming, BatchesLeft, serverVars
<1>5. LinksContinue'
  BY <1>1, <1>2, LinksKept DEF FeedInv, serverVars
<1> QED BY <1>2, <1>3, <1>4, <1>5 DEF FeedInv

LEMMA OpenKeeps ==
  ASSUME FeedInv, NEW t \in Tabs, NEW c \in Conns, Open(t, c)
  PROVE  FeedInv'
<1>0. TabsTyped /\ StoreTyped /\ ConnsTyped /\ BudgetTyped /\ openStreams \in Nat
  BY TypeParts DEF FeedInv
<1>1. /\ stage[c] = "free"
      /\ mode' = [mode EXCEPT ![t] = "linked"]
      /\ link' = [link EXCEPT ![t] = c]
      /\ stage' = [stage EXCEPT ![c] = "requested"]
      /\ after' = [after EXCEPT ![c] = lastId[t]]
      /\ UNCHANGED <<storeVars, openStreams, cursor, batch, lastId, received, seen, since, budget>>
  BY DEF Open
<1>2. TabsTyped' /\ NothingRepeats'
  BY <1>0, <1>1 DEF FeedInv, TabsTyped, NothingRepeats
<1>3. stage' \in [Conns -> Stages] /\ Streaming' = Streaming \ {c}
  <2>1. "requested" \in Stages /\ "requested" \notin Started
    BY DEF Stages, Started
  <2> QED BY <1>0, <1>1, <2>1, MoveKeeps DEF ConnsTyped
<1>4. ConnsTyped'
  <2>1. after' \in [Conns -> Ids \cup {NoId}]
    BY <1>0, <1>1 DEF ConnsTyped, TabsTyped
  <2> QED BY <1>0, <1>1, <1>3, <2>1 DEF ConnsTyped
<1>5. SlotsAccounted'
  <2>1. Streaming' = Streaming
    BY <1>1, <1>3 DEF Streaming, Started
  <2> QED BY <1>1, <2>1 DEF FeedInv, SlotsAccounted
<1>6. BatchesLeft'
  BY <1>0, <1>1 DEF FeedInv, BatchesLeft, ConnsTyped
<1>7. LinksContinue'
  <2> SUFFICES ASSUME NEW x \in Tabs, NEW d \in Conns, link'[x] = d PROVE Continues(x, d)'
    BY DEF LinksContinue
  <2>1. CASE d = c
    <3>1. x = t
      BY <1>0, <1>1, <2>1 DEF FeedInv, LinksContinue, Continues, TabsTyped
    <3>2. stage'[d] = "requested" /\ after'[d] = lastId'[x]
      BY <1>0, <1>1, <2>1, <3>1 DEF ConnsTyped
    <3> QED BY <3>2 DEF Continues
  <2>2. CASE d # c
    <3>1. link[x] = d
      BY <1>0, <1>1, <2>2 DEF TabsTyped
    <3>2. Continues(x, d)
      BY <3>1 DEF FeedInv, LinksContinue
    <3>3. /\ stage'[d] = stage[d] /\ after'[d] = after[d]
          /\ cursor'[d] = cursor[d] /\ batch'[d] = batch[d] /\ lastId' = lastId
      BY <1>0, <1>1, <2>2 DEF ConnsTyped
    <3> QED BY <3>2, <3>3 DEF Continues
  <2> QED BY <2>1, <2>2
<1>8. StoreTyped' /\ BudgetTyped' /\ openStreams' \in Nat
  BY <1>0, <1>1 DEF StoreTyped, BudgetTyped, storeVars
<1> QED BY <1>2, <1>4, <1>5, <1>6, <1>7, <1>8, TypePartsNext DEF FeedInv

\* Requests that end: each way keeps the count of the slots.
LEMMA EndKeeps ==
  ASSUME FeedInv,
         \/ \E c \in Conns : Refuse(c) \/ Gone(c) \/ Fail(c)
         \/ Restart
  PROVE  FeedInv'
<1>0. TabsTyped /\ StoreTyped /\ ConnsTyped /\ BudgetTyped /\ openStreams \in Nat
  BY TypeParts DEF FeedInv
<1>1. PICK C \in SUBSET Conns :
        /\ Free(C)
        /\ \/ Sever(C)
           \/ UNCHANGED tabVars /\ \A t \in Tabs : link[t] \notin C
        /\ openStreams' = Cardinality(Streaming \ C)
  <2>1. ASSUME NEW c \in Conns, stage[c] \notin Started, openStreams' = openStreams
        PROVE  openStreams' = Cardinality(Streaming \ {c})
    <3>1. Streaming \ {c} = Streaming
      BY <2>1 DEF Streaming
    <3> QED BY <2>1, <3>1 DEF FeedInv, SlotsAccounted
  <2>2. ASSUME NEW c \in Conns, stage[c] \in Started, openStreams' = openStreams - 1
        PROVE  openStreams' = Cardinality(Streaming \ {c})
    <3>1. c \in Streaming
      BY <2>2 DEF Streaming
    <3> QED BY <2>2, <3>1, StreamingFinite, FS_RemoveElement DEF FeedInv, SlotsAccounted
  <2>3. ASSUME NEW c \in Conns, Refuse(c) \/ Gone(c) \/ Fail(c)
        PROVE  /\ Free({c})
               /\ \/ Sever({c})
                  \/ UNCHANGED tabVars /\ \A t \in Tabs : link[t] \notin {c}
               /\ openStreams' = Cardinality(Streaming \ {c})
    <3>1. CASE Refuse(c)
      <4>1. stage[c] \notin Started /\ openStreams' = openStreams
        BY <3>1 DEF Refuse, Started
      <4> QED BY <2>1, <3>1, <4>1 DEF Refuse
    <3>2. CASE Gone(c)
      <4>1. openStreams' = IF stage[c] \in Started THEN openStreams - 1 ELSE openStreams
        BY <3>2 DEF Gone
      <4> QED BY <2>1, <2>2, <3>2, <4>1 DEF Gone, Readers
    <3>3. CASE Fail(c)
      <4>1. stage[c] \in Started /\ openStreams' = openStreams - 1
        BY <3>3 DEF Fail, Started
      <4> QED BY <2>2, <3>3, <4>1 DEF Fail
    <3> QED BY <2>3, <3>1, <3>2, <3>3
  <2>4. CASE Restart
    <3>1. Streaming \ Conns = {}
      BY DEF Streaming
    <3> QED BY <2>4, <3>1, FS_EmptySet DEF Restart
  <2> QED BY <2>3, <2>4
<1>2. /\ ConnsTyped' /\ BatchesLeft' /\ Streaming' = Streaming \ C
      /\ \A c \in Conns \ C :
           /\ stage'[c] = stage[c] /\ after'[c] = after[c]
           /\ cursor'[c] = cursor[c] /\ batch'[c] = batch[c]
  BY <1>0, <1>1, FreeKeeps DEF FeedInv
<1>3. /\ TabsTyped' /\ NothingRepeats' /\ UNCHANGED lastId
      /\ \A t \in Tabs : \A c \in Conns : link'[t] = c => link[t] = c /\ c \notin C
  <2>1. CASE Sever(C)
    BY <1>0, <2>1, SeverKeeps DEF FeedInv
  <2>2. CASE UNCHANGED tabVars /\ \A t \in Tabs : link[t] \notin C
    BY <1>0, <2>2 DEF FeedInv, TabsTyped, NothingRepeats, tabVars
  <2> QED BY <1>1, <2>1, <2>2
<1>4. LinksContinue'
  BY <1>2, <1>3, LinksKept DEF FeedInv
<1>5. SlotsAccounted' /\ openStreams' \in Nat
  BY <1>1, <1>2, StreamingFinite DEF SlotsAccounted
<1>6. UNCHANGED storeVars /\ (Spend \/ UNCHANGED budget)
  BY DEF Refuse, Gone, Fail, Restart
<1>7. StoreTyped' /\ BudgetTyped'
  BY <1>0, <1>6, SpendTyped DEF StoreTyped, storeVars
<1> QED BY <1>2, <1>3, <1>4, <1>5, <1>7, TypePartsNext DEF FeedInv

LEMMA AdmitKeeps ==
  ASSUME FeedInv, NEW c \in Conns, Admit(c)
  PROVE  FeedInv'
<1>0. TabsTyped /\ StoreTyped /\ ConnsTyped /\ BudgetTyped /\ openStreams \in Nat
  BY TypeParts DEF FeedInv
<1>1. /\ stage[c] = "requested" /\ stage' = [stage EXCEPT ![c] = "admitted"]
      /\ UNCHANGED <<storeVars, openStreams, after, cursor, batch, tabVars, budget>>
  BY DEF Admit
<1>2. stage' \in [Conns -> Stages] /\ Streaming' = Streaming \ {c}
  <2>1. "admitted" \in Stages /\ "admitted" \notin Started
    BY DEF Stages, Started
  <2> QED BY <1>0, <1>1, <2>1, MoveKeeps DEF ConnsTyped
<1>3. SlotsAccounted'
  <2>1. Streaming' = Streaming
    BY <1>1, <1>2 DEF Streaming, Started
  <2> QED BY <1>1, <2>1 DEF FeedInv, SlotsAccounted
<1>4. LinksContinue'
  <2>1. stage'[c] = "admitted" /\ \A d \in Conns \ {c} : stage'[d] = stage[d]
    BY <1>0, <1>1 DEF ConnsTyped
  <2>2. \A t \in Tabs : link[t] = c => Continues(t, c)'
    BY <1>1, <2>1 DEF FeedInv, LinksContinue, Continues, tabVars
  <2> QED BY <1>1, <2>1, <2>2, OneMoves DEF FeedInv, tabVars
<1>5. BatchesLeft'
  BY <1>0, <1>1 DEF FeedInv, BatchesLeft, ConnsTyped
<1>6. TabsTyped' /\ StoreTyped' /\ ConnsTyped' /\ BudgetTyped' /\ NothingRepeats'
  BY <1>0, <1>1, <1>2 DEF FeedInv, TabsTyped, StoreTyped, ConnsTyped, BudgetTyped,
     NothingRepeats, storeVars, tabVars
<1> QED BY <1>0, <1>1, <1>3, <1>4, <1>5, <1>6, TypePartsNext DEF FeedInv

LEMMA BeginKeeps ==
  ASSUME FeedInv, NEW c \in Conns, Begin(c)
  PROVE  FeedInv'
<1>0. TabsTyped /\ StoreTyped /\ ConnsTyped /\ BudgetTyped /\ openStreams \in Nat
  BY TypeParts DEF FeedInv
<1> DEFINE to == IF after[c] = NoId THEN "attaching" ELSE "polling"
<1>1. /\ stage[c] = "admitted" /\ stage' = [stage EXCEPT ![c] = to]
      /\ cursor' = [cursor EXCEPT ![c] = after[c]]
      /\ openStreams' = openStreams + 1
      /\ UNCHANGED <<storeVars, after, batch, tabVars, budget>>
  BY DEF Begin
<1>2. to \in Stages /\ to \in Started
  BY DEF Stages, Started
<1>3. stage' \in [Conns -> Stages] /\ Streaming' = Streaming \cup {c}
  <2> HIDE DEF to
  <2> QED BY <1>0, <1>1, <1>2, MoveKeeps DEF ConnsTyped
<1>4. SlotsAccounted'
  <2>1. c \notin Streaming
    BY <1>1 DEF Streaming, Started
  <2> QED BY <1>1, <1>3, <2>1, StreamingFinite, FS_AddElement DEF FeedInv, SlotsAccounted
<1>5. ConnsTyped'
  BY <1>0, <1>1, <1>3 DEF ConnsTyped
<1>6. LinksContinue'
  <2>1. /\ stage'[c] = to /\ cursor'[c] = after[c]
        /\ \A d \in Conns \ {c} : stage'[d] = stage[d] /\ cursor'[d] = cursor[d]
    BY <1>0, <1>1 DEF ConnsTyped
  <2>2. \A t \in Tabs : link[t] = c => Continues(t, c)'
    <3> SUFFICES ASSUME NEW t \in Tabs, link[t] = c PROVE Continues(t, c)'
      OBVIOUS
    <3>1. after[c] = lastId[t] /\ lastId'[t] = lastId[t] /\ lastId[t] \in Nat
      BY <1>0, <1>1 DEF FeedInv, LinksContinue, Continues, TabsTyped, tabVars
    <3> QED BY <2>1, <3>1 DEF Continues
  <2> HIDE DEF to
  <2> QED BY <1>1, <2>1, <2>2, OneMoves DEF FeedInv, tabVars
<1>7. BatchesLeft'
  BY <1>0, <1>1 DEF FeedInv, BatchesLeft, ConnsTyped
<1>8. TabsTyped' /\ StoreTyped' /\ BudgetTyped' /\ NothingRepeats'
  BY <1>0, <1>1 DEF FeedInv, TabsTyped, StoreTyped, BudgetTyped,
     NothingRepeats, storeVars, tabVars
<1> QED BY <1>0, <1>1, <1>4, <1>5, <1>6, <1>7, <1>8, TypePartsNext DEF FeedInv

\* The newest row's id, or none.
LEMMA NewestTyped ==
  ASSUME StoreTyped
  PROVE  /\ Max(stored \cup {NoId}) \in stored \cup {NoId}
         /\ \A i \in stored \cup {NoId} : i <= Max(stored \cup {NoId})
<1>1. stored \cup {NoId} \in SUBSET (0..MaxId)
  BY DEF StoreTyped
<1> QED BY <1>1, MaxExists

LEMMA AttachKeeps ==
  ASSUME FeedInv, NEW c \in Conns, Attach(c)
  PROVE  FeedInv'
<1>0. TabsTyped /\ StoreTyped /\ ConnsTyped /\ BudgetTyped /\ openStreams \in Nat
  BY TypeParts DEF FeedInv
<1> DEFINE newest == Max(stored \cup {NoId})
<1>1. /\ stage[c] = "attaching" /\ stage' = [stage EXCEPT ![c] = "polling"]
      /\ cursor' = [cursor EXCEPT ![c] = newest] /\ Attached(c, newest)
      /\ UNCHANGED <<storeVars, openStreams, after, batch, mode, link, lastId, received, seen, budget>>
  BY DEF Attach
<1>2. newest \in Ids \cup {NoId}
  BY <1>0, NewestTyped DEF StoreTyped
<1> HIDE DEF newest
<1>3. stage' \in [Conns -> Stages] /\ Streaming' = Streaming \cup {c}
  <2>1. "polling" \in Stages /\ "polling" \in Started
    BY DEF Stages, Started
  <2> QED BY <1>0, <1>1, <2>1, MoveKeeps DEF ConnsTyped
<1>4. SlotsAccounted'
  <2>1. Streaming' = Streaming
    BY <1>1, <1>3 DEF Streaming, Started
  <2> QED BY <1>1, <2>1 DEF FeedInv, SlotsAccounted
<1>5. ConnsTyped'
  BY <1>0, <1>1, <1>2, <1>3 DEF ConnsTyped
<1>6. LinksContinue'
  <2>1. /\ stage'[c] = "polling" /\ cursor'[c] = newest
        /\ \A d \in Conns \ {c} : stage'[d] = stage[d] /\ cursor'[d] = cursor[d]
    BY <1>0, <1>1 DEF ConnsTyped
  <2>2. \A t \in Tabs : link[t] = c => Continues(t, c)'
    <3> SUFFICES ASSUME NEW t \in Tabs, link[t] = c PROVE Continues(t, c)'
      OBVIOUS
    <3>1. lastId[t] = NoId /\ lastId'[t] = lastId[t]
      BY <1>1 DEF FeedInv, LinksContinue, Continues
    <3> QED BY <1>2, <2>1, <3>1 DEF Continues
  <2> QED BY <1>1, <2>1, <2>2, OneMoves DEF FeedInv
<1>7. BatchesLeft'
  BY <1>0, <1>1 DEF FeedInv, BatchesLeft, ConnsTyped
<1>8. TabsTyped'
  <2>1. since' \in [Tabs -> Ids \cup {NoId, Nowhere}]
    BY <1>0, <1>1, <1>2 DEF TabsTyped, Attached
  <2> QED BY <1>0, <1>1, <2>1 DEF TabsTyped
<1>9. StoreTyped' /\ BudgetTyped' /\ NothingRepeats'
  BY <1>0, <1>1 DEF FeedInv, StoreTyped, BudgetTyped, NothingRepeats, storeVars
<1> QED BY <1>0, <1>1, <1>4, <1>5, <1>6, <1>7, <1>8, <1>9, TypePartsNext DEF FeedInv

\* A batch is some of the rows beyond the cursor, and not none of them.
LEMMA BatchOf ==
  ASSUME StoreTyped, ConnsTyped, NEW c \in Conns, Poll(c)
  PROVE  /\ stage[c] = "polling" /\ batch'[c] # {}
         /\ batch'[c] \subseteq {i \in stored : i > cursor[c]}
         /\ \A i \in batch'[c] : \A j \in stored : cursor[c] < j /\ j < i => j \in batch'[c]
<1> DEFINE rows == {i \in stored : i > cursor[c]}
           before(i) == {j \in rows : j < i}
<1>1. /\ stage[c] = "polling" /\ rows # {}
      /\ batch'[c] = {i \in rows : Cardinality(before(i)) < MaxBatch}
  BY DEF Poll, ConnsTyped
<1>2. rows \in SUBSET Nat /\ rows \subseteq 1..MaxId /\ IsFiniteSet(rows)
  <2>1. rows \subseteq 1..MaxId
    BY DEF StoreTyped
  <2> QED BY <2>1, FS_Interval, FS_Subset
<1>3. batch'[c] # {}
  <2>1. PICK i \in rows : \A j \in rows : i <= j
    BY <1>1, <1>2, LeastExists
  <2>2. before(i) = {}
    BY <1>2, <2>1
  <2>3. Cardinality(before(i)) < MaxBatch
    BY <2>2, FS_EmptySet
  <2> QED BY <1>1, <2>3
<1>4. ASSUME NEW i \in batch'[c], NEW j \in stored, cursor[c] < j, j < i
      PROVE  j \in batch'[c]
  <2>1. j \in rows /\ i \in rows /\ Cardinality(before(i)) < MaxBatch
    BY <1>1, <1>4, <1>2 DEF ConnsTyped, StoreTyped
  <2>2. before(j) \subseteq before(i)
    BY <1>2, <1>4, <2>1
  <2>3. /\ IsFiniteSet(before(i)) /\ Cardinality(before(i)) \in Nat
        /\ Cardinality(before(j)) \in Nat /\ Cardinality(before(j)) <= Cardinality(before(i))
    <3>1. IsFiniteSet(before(i))
      BY <1>2, FS_Subset
    <3> QED BY <2>2, <3>1, FS_Subset, FS_CardinalityType
  <2>4. Cardinality(before(j)) < MaxBatch
    <3> HIDE DEF before
    <3> QED BY <2>1, <2>3
  <2> QED BY <1>1, <2>1, <2>4
<1>5. batch'[c] \subseteq rows
  BY <1>1
<1> QED BY <1>1, <1>3, <1>4, <1>5

LEMMA PollKeeps ==
  ASSUME FeedInv, NEW c \in Conns, Poll(c)
  PROVE  FeedInv'
<1>0. TabsTyped /\ StoreTyped /\ ConnsTyped /\ BudgetTyped /\ openStreams \in Nat
  BY TypeParts DEF FeedInv
<1>1. /\ stage[c] = "polling" /\ stage' = [stage EXCEPT ![c] = "sending"]
      /\ UNCHANGED <<storeVars, openStreams, after, cursor, tabVars, budget>>
      /\ \E b : batch' = [batch EXCEPT ![c] = b]
  BY DEF Poll
<1>2. batch'[c] # {} /\ batch'[c] \subseteq {i \in stored : i > cursor[c]}
  BY <1>0, BatchOf
<1>3. stage' \in [Conns -> Stages] /\ Streaming' = Streaming \cup {c}
  <2>1. "sending" \in Stages /\ "sending" \in Started
    BY DEF Stages, Started
  <2> QED BY <1>0, <1>1, <2>1, MoveKeeps DEF ConnsTyped
<1>4. SlotsAccounted'
  <2>1. Streaming' = Streaming
    BY <1>1, <1>3 DEF Streaming, Started
  <2> QED BY <1>1, <2>1 DEF FeedInv, SlotsAccounted
<1>5. /\ ConnsTyped' /\ stage'[c] = "sending"
      /\ \A d \in Conns \ {c} : stage'[d] = stage[d] /\ batch'[d] = batch[d]
  <2>1. batch'[c] \subseteq Ids
    BY <1>0, <1>2 DEF StoreTyped
  <2> QED BY <1>0, <1>1, <1>3, <2>1 DEF ConnsTyped
<1>6. LinksContinue'
  <2>1. \A t \in Tabs : link[t] = c => Continues(t, c)'
    <3> SUFFICES ASSUME NEW t \in Tabs, link[t] = c PROVE Continues(t, c)'
      OBVIOUS
    <3>1. lastId[t] <= cursor[c] /\ lastId'[t] = lastId[t] /\ lastId[t] \in Nat /\ cursor[c] \in Nat
      BY <1>0, <1>1 DEF FeedInv, LinksContinue, Continues, TabsTyped, ConnsTyped, tabVars
    <3>2. \A i \in batch'[c] : lastId'[t] < i
      <4> SUFFICES ASSUME NEW i \in batch'[c] PROVE lastId[t] < i
        BY <3>1
      <4>1. i \in stored /\ i > cursor[c]
        BY <1>2
      <4>2. i \in Nat
        BY <1>0, <4>1 DEF StoreTyped
      <4> QED BY <3>1, <4>1, <4>2
    <3> QED BY <1>5, <3>2 DEF Continues
  <2> QED BY <1>1, <1>5, <2>1, OneMoves DEF FeedInv, tabVars
<1>7. BatchesLeft'
  BY <1>2, <1>5 DEF FeedInv, BatchesLeft
<1>8. TabsTyped' /\ StoreTyped' /\ BudgetTyped' /\ NothingRepeats'
  BY <1>0, <1>1 DEF FeedInv, TabsTyped, StoreTyped, BudgetTyped,
     NothingRepeats, storeVars, tabVars
<1> QED BY <1>0, <1>1, <1>4, <1>5, <1>6, <1>7, <1>8, TypePartsNext DEF FeedInv

\* The row that is sent next is beyond all that the tab was sent before.
LEMMA YieldKeeps ==
  ASSUME FeedInv, NEW c \in Conns, Yield(c)
  PROVE  FeedInv'
<1>0. TabsTyped /\ StoreTyped /\ ConnsTyped /\ BudgetTyped /\ openStreams \in Nat
  BY TypeParts DEF FeedInv
<1> DEFINE i == Min(batch[c])
           last == batch[c] = {i}
<1>1. /\ stage[c] = "sending"
      /\ batch' = [batch EXCEPT ![c] = @ \ {i}]
      /\ stage' = [stage EXCEPT ![c] = IF last THEN "polling" ELSE @]
      /\ cursor' = [cursor EXCEPT ![c] = IF last THEN i ELSE @]
      /\ lastId' = [t \in Tabs |-> IF t \in Readers(c) THEN i ELSE lastId[t]]
      /\ received' = [t \in Tabs |-> IF t \in Readers(c) THEN received[t] + 1 ELSE received[t]]
      /\ seen' = [t \in Tabs |-> IF t \in Readers(c) THEN seen[t] \cup {i} ELSE seen[t]]
      /\ UNCHANGED <<storeVars, openStreams, after, mode, link, since, budget>>
  BY DEF Yield
<1>2. batch[c] # {} /\ batch[c] \in SUBSET Nat /\ batch[c] \subseteq Ids
  BY <1>0, <1>1 DEF FeedInv, BatchesLeft, ConnsTyped
<1>3. i \in batch[c] /\ i \in Ids /\ \A j \in batch[c] : i <= j
  BY <1>2, MinIs
<1> HIDE DEF i
<1>4. stage'[c] \in {"polling", "sending"} /\ stage' = [stage EXCEPT ![c] = stage'[c]]
  BY <1>0, <1>1 DEF ConnsTyped
<1>5. stage' \in [Conns -> Stages] /\ Streaming' = Streaming \cup {c}
  <2> DEFINE to == stage'[c]
  <2>1. to \in Stages /\ to \in Started
    BY <1>4 DEF Stages, Started
  <2>2. stage' = [stage EXCEPT ![c] = to]
    BY <1>4
  <2> HIDE DEF to
  <2> QED BY <1>0, <2>1, <2>2, MoveKeeps DEF ConnsTyped
<1>6. SlotsAccounted'
  <2>1. Streaming' = Streaming
    BY <1>1, <1>5 DEF Streaming, Started
  <2> QED BY <1>1, <2>1 DEF FeedInv, SlotsAccounted
<1>7. /\ ConnsTyped' /\ batch'[c] = batch[c] \ {i}
      /\ last => stage'[c] = "polling" /\ cursor'[c] = i
      /\ ~last => stage'[c] = "sending" /\ batch'[c] # {}
      /\ \A d \in Conns \ {c} : /\ stage'[d] = stage[d] /\ batch'[d] = batch[d]
                               /\ cursor'[d] = cursor[d] /\ after'[d] = after[d]
  <2>1. /\ batch'[c] = batch[c] \ {i}
        /\ last => stage'[c] = "polling" /\ cursor'[c] = i
        /\ ~last => stage'[c] = "sending"
        /\ \A d \in Conns \ {c} : /\ stage'[d] = stage[d] /\ batch'[d] = batch[d]
                                 /\ cursor'[d] = cursor[d] /\ after'[d] = after[d]
    BY <1>0, <1>1 DEF ConnsTyped
  <2>2. ~last => batch'[c] # {}
    BY <1>2, <1>3, <2>1
  <2>3. ConnsTyped'
    BY <1>0, <1>1, <1>3, <1>5 DEF ConnsTyped
  <2> QED BY <2>1, <2>2, <2>3
<1>8. TabsTyped'
  BY <1>0, <1>1, <1>3 DEF TabsTyped
<1>9. ASSUME NEW t \in Tabs, t \in Readers(c)
      PROVE  /\ i \notin seen[t] /\ lastId[t] < i
             /\ \A j \in seen[t] : j < i
  <2>1. lastId[t] < i
    BY <1>1, <1>3, <1>9 DEF FeedInv, LinksContinue, Continues, Readers
  <2>2. seen[t] \in SUBSET (1..MaxId) /\ lastId[t] = Max(seen[t] \cup {NoId})
    BY <1>0 DEF TabsTyped, FeedInv, NothingRepeats
  <2>3. \A j \in seen[t] : j <= lastId[t]
    <3>1. seen[t] \cup {NoId} \in SUBSET (0..MaxId) /\ 0 \in seen[t] \cup {NoId}
      BY <2>2
    <3> QED BY <2>2, <3>1, MaxExists
  <2>4. \A j \in seen[t] : j < i
    <3> SUFFICES ASSUME NEW j \in seen[t] PROVE j < i
      OBVIOUS
    <3>1. j \in Nat /\ lastId[t] \in Nat /\ i \in Nat
      BY <1>0, <1>3, <2>2 DEF TabsTyped
    <3> QED BY <2>1, <2>3, <3>1
  <2> QED BY <1>3, <2>1, <2>4
<1>10. NothingRepeats'
  <2> SUFFICES ASSUME NEW t \in Tabs
               PROVE  /\ received'[t] = Cardinality(seen'[t])
                      /\ lastId'[t] = Max(seen'[t] \cup {NoId})
    BY DEF NothingRepeats
  <2>1. CASE t \in Readers(c)
    <3>1. IsFiniteSet(seen[t])
      <4>1. IsFiniteSet(1..MaxId)
        BY FS_Interval
      <4>2. seen[t] \in SUBSET (1..MaxId)
        BY <1>0 DEF TabsTyped
      <4> QED BY <4>1, <4>2, FS_Subset
    <3>2. received[t] = Cardinality(seen[t])
      BY DEF FeedInv, NothingRepeats
    <3>3. received'[t] = Cardinality(seen'[t])
      <4>1. received'[t] = received[t] + 1 /\ seen'[t] = seen[t] \cup {i}
        BY <1>1, <2>1
      <4>2. i \notin seen[t]
        BY <1>9, <2>1
      <4>3. Cardinality(seen[t] \cup {i}) = Cardinality(seen[t]) + 1
        BY <3>1, <4>2, FS_AddElement
      <4> QED BY <3>2, <4>1, <4>3
    <3>4. Max(seen'[t] \cup {NoId}) = i
      <4>1. seen'[t] \cup {NoId} \in SUBSET Nat /\ i \in seen'[t] \cup {NoId}
        BY <1>0, <1>1, <1>3, <2>1 DEF TabsTyped
      <4>2. \A j \in seen'[t] \cup {NoId} : j <= i
        BY <1>0, <1>1, <1>3, <1>9, <2>1 DEF TabsTyped
      <4> QED BY <4>1, <4>2, MaxIs
    <3> QED BY <1>1, <2>1, <3>3, <3>4
  <2>2. CASE t \notin Readers(c)
    BY <1>1, <2>2 DEF FeedInv, NothingRepeats
  <2> QED BY <2>1, <2>2
<1>11. LinksContinue'
  <2> SUFFICES ASSUME NEW t \in Tabs, NEW d \in Conns, link[t] = d PROVE Continues(t, d)'
    BY <1>1 DEF LinksContinue
  <2>1. CASE d = c
    <3>1. lastId'[t] = i
      BY <1>1, <2>1 DEF Readers
    <3>2. \A j \in batch'[c] : i < j
      BY <1>2, <1>3, <1>7
    <3> QED BY <1>3, <1>7, <2>1, <3>1, <3>2 DEF Continues
  <2>2. CASE d # c
    <3>1. lastId'[t] = lastId[t]
      BY <1>1, <2>2 DEF Readers
    <3>2. Continues(t, d)
      BY DEF FeedInv, LinksContinue
    <3> QED BY <1>7, <2>2, <3>1, <3>2 DEF Continues
  <2> QED BY <2>1, <2>2
<1>12. BatchesLeft'
  BY <1>7 DEF FeedInv, BatchesLeft
<1>13. StoreTyped' /\ BudgetTyped'
  BY <1>0, <1>1 DEF StoreTyped, BudgetTyped, storeVars
<1> QED BY <1>0, <1>1, <1>6, <1>7, <1>8, <1>10, <1>11, <1>12, <1>13, TypePartsNext DEF FeedInv

LEMMA FeedStep == FeedInv /\ [Next]_vars => FeedInv'
<1> SUFFICES ASSUME FeedInv, [Next]_vars PROVE FeedInv'
  OBVIOUS
<1>1. CASE \E w \in Writers : Insert(w) \/ Commit(w) \/ Discard(w)
  BY <1>1, StoreKeeps
<1>2. CASE \E t \in Tabs : Pause(t) \/ Resume(t) \/ Drop(t)
  BY <1>2, TabKeeps
<1>3. CASE \E t \in Tabs : \E c \in Conns : Open(t, c)
  BY <1>3, OpenKeeps
<1>4. CASE \/ \E c \in Conns : Refuse(c) \/ Gone(c) \/ Fail(c)
           \/ Restart
  BY <1>4, EndKeeps
<1>5. CASE \E c \in Conns : Admit(c) \/ Begin(c) \/ Attach(c) \/ Poll(c) \/ Yield(c)
  BY <1>5, AdmitKeeps, BeginKeeps, AttachKeeps, PollKeeps, YieldKeeps
<1>6. CASE UNCHANGED vars
  <2>1. UNCHANGED <<storeVars, serverVars, tabVars, budget>>
    BY <1>6 DEF vars
  <2>2. TypeOK'
    BY <2>1 DEF FeedInv, TypeOK, storeVars, serverVars, tabVars
  <2>3. SlotsAccounted' /\ NothingRepeats' /\ BatchesLeft'
    BY <2>1 DEF FeedInv, SlotsAccounted, Streaming, NothingRepeats, BatchesLeft, serverVars, tabVars
  <2>4. LinksContinue'
    BY <2>1, LinksKept DEF FeedInv, serverVars, tabVars
  <2> QED BY <2>2, <2>3, <2>4 DEF FeedInv
<1> QED BY <1>1, <1>2, <1>3, <1>4, <1>5, <1>6 DEF Next, Serve

LEMMA FeedHolds == Spec => []FeedInv
<1> QED BY FeedInit, FeedStep, PTL DEF Spec

\* Types hold; no cursor, batch or last id names what is no row's id, for any
\* number of tabs, connections and faults.
THEOREM StreamTypeCorrect == Spec => []TypeOK
<1>1. FeedInv => TypeOK
  BY DEF FeedInv
<1> QED BY <1>1, FeedHolds, PTL

\* The slots counted are the generators that have begun and not ended, whichever
\* of the ways out they take and whenever their client leaves (stream.py:54-62).
THEOREM SlotsAccountedHolds == Spec => []SlotsAccounted
<1>1. FeedInv => SlotsAccounted
  BY DEF FeedInv
<1> QED BY <1>1, FeedHolds, PTL

\* No tab is sent a row twice or out of order, over any number of reconnects
\* (useEventStream.ts:62-67).
THEOREM NothingRepeatsHolds == Spec => []NothingRepeats
<1>1. FeedInv => NothingRepeats
  BY DEF FeedInv
<1> QED BY <1>1, FeedHolds, PTL

-----------------------------------------------------------------------------
(* One writer *)

OneWriter == \A v, w \in Writers : v = w

\* Rows become visible in the order of their ids.
InOrder ==
  /\ \A i \in stored : i < nextId
  /\ \A w \in Writers : inserting[w] # NoId =>
       inserting[w] < nextId /\ \A i \in stored : i < inserting[w]

\* Whatever a tab or a connection stands at is a visible row, or none.
AtRows ==
  /\ \A t \in Tabs : lastId[t] \in stored \cup {NoId}
  /\ \A c \in Conns :
       /\ cursor[c] \in stored \cup {NoId}
       /\ after[c] \in stored \cup {NoId}
       /\ batch[c] \subseteq stored

\* A connection has no cursor before it polls, but the one it was asked for.
NoCursorYet ==
  \A c \in Conns :
    stage[c] \in {"free", "requested", "admitted", "attaching"} => cursor[c] = NoId

\* What a tab or its connection has passed.
Passed(t, i) == i <= lastId[t] \/ \E c \in Conns : link[t] = c /\ i <= cursor[c]

NonePassed ==
  \A t \in Tabs : \A i \in stored : since[t] < i /\ Passed(t, i) => i \in seen[t]

\* Up to its last row, a batch and what its tab has are all there is.
Gapless ==
  \A t \in Tabs : \A c \in Conns : link[t] = c /\ stage[c] = "sending" =>
    \A b \in batch[c] : \A i \in stored :
      since[t] < i /\ i <= b => i \in batch[c] \cup seen[t]

GapInv == InOrder /\ AtRows /\ NoCursorYet /\ NonePassed /\ Gapless

LEMMA GapInvSuffices == FeedInv /\ GapInv => NothingSkipped
<1> SUFFICES ASSUME FeedInv, GapInv, NEW t \in Tabs, NEW i \in stored,
                    since[t] < i, i <= Reached(t)
             PROVE  i \in seen[t]
  BY DEF NothingSkipped
<1>0. TabsTyped /\ StoreTyped /\ ConnsTyped
  BY TypeParts DEF FeedInv
<1>1. lastId[t] \in Nat /\ i \in Nat
  BY <1>0 DEF TabsTyped, StoreTyped
<1>2. Passed(t, i)
  <2>1. CASE link[t] = NoConn
    BY <2>1 DEF Reached, Passed
  <2>2. CASE link[t] # NoConn
    <3>1. link[t] \in Conns /\ cursor[link[t]] \in Nat
      BY <1>0, <2>2 DEF TabsTyped, ConnsTyped
    <3>2. Reached(t) = IF lastId[t] <= cursor[link[t]] THEN cursor[link[t]] ELSE lastId[t]
      BY <1>1, <2>2, <3>1, MaxOfTwo DEF Reached
    <3> QED BY <1>1, <3>1, <3>2 DEF Passed
  <2> QED BY <2>1, <2>2
<1> QED BY <1>2 DEF GapInv, NonePassed

LEMMA GapInit == Init => GapInv
<1> SUFFICES ASSUME Init PROVE GapInv
  OBVIOUS
<1>1. InOrder /\ NonePassed
  BY DEF Init, InOrder, NonePassed
<1>2. AtRows /\ NoCursorYet
  BY DEF Init, AtRows, NoCursorYet
<1>3. Gapless
  BY DEF Init, Gapless
<1> QED BY <1>1, <1>2, <1>3 DEF GapInv

\* Steps that send no row and show none: a link goes on where it was, or starts
\* at what its tab has.
LEMMA GapKept ==
  ASSUME NonePassed, Gapless, TabsTyped, StoreTyped, ConnsTyped, ConnsTyped',
         UNCHANGED <<stored, lastId, seen, since>>,
         \A t \in Tabs : \A c \in Conns : link'[t] = c =>
           /\ \/ link[t] = c /\ cursor'[c] = cursor[c]
              \/ cursor'[c] <= lastId[t]
           /\ stage'[c] = "sending" =>
                link[t] = c /\ stage[c] = "sending" /\ batch'[c] = batch[c]
  PROVE  NonePassed' /\ Gapless'
<1>1. NonePassed'
  <2> SUFFICES ASSUME NEW t \in Tabs, NEW i \in stored, since[t] < i, Passed(t, i)'
               PROVE  i \in seen[t]
    BY DEF NonePassed
  <2>1. Passed(t, i)
    <3>1. lastId[t] \in Nat /\ i \in Nat
      BY DEF TabsTyped, StoreTyped
    <3>2. CASE i <= lastId'[t]
      BY <3>2 DEF Passed
    <3>3. CASE \E c \in Conns : link'[t] = c /\ i <= cursor'[c]
      <4>1. PICK c \in Conns : link'[t] = c /\ i <= cursor'[c]
        BY <3>3
      <4>2. cursor'[c] \in Nat
        BY DEF ConnsTyped
      <4> QED BY <3>1, <4>1, <4>2 DEF Passed
    <3> QED BY <3>2, <3>3 DEF Passed
  <2> QED BY <2>1 DEF NonePassed
<1>2. Gapless'
  BY DEF Gapless
<1> QED BY <1>1, <1>2

\* With one writer, a row that becomes visible is beyond all that anyone stands at.
LEMMA StoreGap ==
  ASSUME OneWriter, FeedInv, GapInv, NEW w \in Writers,
         Insert(w) \/ Commit(w) \/ Discard(w)
  PROVE  GapInv'
<1>0. TabsTyped /\ StoreTyped /\ ConnsTyped
  BY TypeParts DEF FeedInv
<1>1. UNCHANGED <<serverVars, tabVars>>
  BY DEF Insert, Commit, Discard
<1>2. InOrder /\ AtRows /\ NoCursorYet /\ NonePassed /\ Gapless
  BY DEF GapInv
<1>3. CASE stored' = stored /\ (Insert(w) \/ Discard(w))
  <2>1. AtRows' /\ NoCursorYet' /\ NonePassed' /\ Gapless'
    BY <1>1, <1>2, <1>3
       DEF AtRows, NoCursorYet, NonePassed, Passed, Gapless, serverVars, tabVars
  <2>2. InOrder'
    <3>1. CASE Insert(w)
      <4>1. nextId' = nextId + 1 /\ inserting' = [inserting EXCEPT ![w] = nextId] /\ nextId \in Nat
        BY <1>0, <3>1 DEF Insert, StoreTyped
      <4>2. \A i \in stored : i \in Nat /\ i < nextId
        BY <1>0, <1>2 DEF InOrder, StoreTyped
      <4>3. \A v \in Writers : inserting'[v] = nextId
        BY <1>0, <4>1 DEF OneWriter, StoreTyped
      <4> QED BY <1>3, <4>1, <4>2, <4>3 DEF InOrder
    <3>2. CASE Discard(w)
      <4>1. nextId' = nextId /\ inserting' = [inserting EXCEPT ![w] = NoId]
        BY <3>2 DEF Discard
      <4> QED BY <1>0, <1>2, <1>3, <4>1 DEF InOrder, StoreTyped
    <3> QED BY <1>3, <3>1, <3>2
  <2> QED BY <2>1, <2>2 DEF GapInv
<1>4. CASE Commit(w)
  <2> DEFINE m == inserting[w]
  <2>1. /\ stored' = stored \cup {m} /\ nextId' = nextId /\ m # NoId
        /\ inserting' = [inserting EXCEPT ![w] = NoId]
    BY <1>4 DEF Commit
  <2>2. m \in Nat /\ 0 < m /\ m < nextId /\ \A i \in stored \cup {NoId} : i < m
    BY <1>0, <1>2, <2>1 DEF InOrder, StoreTyped
  <2>3. \A v \in Writers : inserting'[v] = NoId
    BY <1>0, <2>1 DEF OneWriter, StoreTyped
  <2> HIDE DEF m
  <2>4. InOrder'
    BY <1>2, <2>1, <2>2, <2>3 DEF InOrder
  <2>5. AtRows' /\ NoCursorYet'
    BY <1>1, <1>2, <2>1 DEF AtRows, NoCursorYet, serverVars, tabVars
  <2>6. \A i \in stored \cup {NoId} : ~ (m <= i)
    BY <1>0, <2>2 DEF StoreTyped
  <2>7. NonePassed'
    <3> SUFFICES ASSUME NEW t \in Tabs, NEW i \in stored', since[t] < i, Passed(t, i)
                 PROVE  i \in seen[t]
      BY <1>1 DEF NonePassed, Passed, serverVars, tabVars
    <3>1. i # m
      BY <1>2, <2>6 DEF Passed, AtRows
    <3> QED BY <1>2, <2>1, <3>1 DEF NonePassed
  <2>8. Gapless'
    <3> SUFFICES ASSUME NEW t \in Tabs, NEW c \in Conns, link[t] = c, stage[c] = "sending",
                        NEW b \in batch[c], NEW i \in stored', since[t] < i, i <= b
                 PROVE  i \in batch[c] \cup seen[t]
      BY <1>1 DEF Gapless, serverVars, tabVars
    <3>1. i # m
      BY <1>2, <2>6 DEF AtRows
    <3> QED BY <1>2, <2>1, <3>1 DEF Gapless
  <2> QED BY <2>4, <2>5, <2>7, <2>8 DEF GapInv
<1> QED BY <1>3, <1>4 DEF Insert, Discard

\* Steps that leave the table, and what tabs were sent, alone.
LEMMA QuietGap ==
  ASSUME FeedInv, FeedInv', GapInv, UNCHANGED <<storeVars, lastId, seen, since>>,
         AtRows', NoCursorYet',
         \A t \in Tabs : \A c \in Conns : link'[t] = c =>
           /\ \/ link[t] = c /\ cursor'[c] = cursor[c]
              \/ cursor'[c] <= lastId[t]
           /\ stage'[c] = "sending" =>
                link[t] = c /\ stage[c] = "sending" /\ batch'[c] = batch[c]
  PROVE  GapInv'
<1>1. TabsTyped /\ StoreTyped /\ ConnsTyped
  BY TypeParts DEF FeedInv
<1>2. ConnsTyped'
  BY DEF FeedInv, TypeOK, ConnsTyped
<1>3. NonePassed' /\ Gapless'
  BY <1>1, <1>2, GapKept DEF GapInv, storeVars
<1>4. InOrder'
  BY DEF GapInv, InOrder, storeVars
<1> QED BY <1>3, <1>4 DEF GapInv

\* A tab's own steps: a link is given up, or made to a connection without a cursor.
LEMMA TabGap ==
  ASSUME FeedInv, FeedInv', GapInv, NEW t \in Tabs,
         Pause(t) \/ Resume(t) \/ Drop(t) \/ \E c \in Conns : Open(t, c)
  PROVE  GapInv'
<1>0. TabsTyped /\ ConnsTyped
  BY TypeParts DEF FeedInv
<1>1. AtRows /\ NoCursorYet
  BY DEF GapInv
<1>2. CASE Pause(t) \/ Resume(t) \/ Drop(t)
  <2>1. UNCHANGED <<storeVars, serverVars, lastId, seen, since>>
    BY <1>2 DEF Pause, Resume, Drop, Sever
  <2>2. \A x \in Tabs : link'[x] \in {link[x], NoConn}
    BY <1>0, <1>2 DEF Pause, Resume, Drop, Sever, TabsTyped
  <2>3. AtRows' /\ NoCursorYet'
    BY <1>1, <2>1 DEF AtRows, NoCursorYet, storeVars, serverVars
  <2> QED BY <2>1, <2>2, <2>3, QuietGap DEF serverVars
<1>3. ASSUME NEW c \in Conns, Open(t, c)
      PROVE  GapInv'
  <2>1. /\ stage[c] = "free"
        /\ link' = [link EXCEPT ![t] = c]
        /\ stage' = [stage EXCEPT ![c] = "requested"]
        /\ after' = [after EXCEPT ![c] = lastId[t]]
        /\ UNCHANGED <<storeVars, cursor, batch, lastId, seen, since>>
    BY <1>3 DEF Open
  <2>2. cursor[c] = NoId
    BY <1>1, <2>1 DEF NoCursorYet
  <2>3. AtRows' /\ NoCursorYet'
    BY <1>0, <1>1, <2>1, <2>2 DEF AtRows, NoCursorYet, storeVars, ConnsTyped
  <2>4. \A x \in Tabs : \A d \in Conns : link'[x] = d =>
          /\ \/ link[x] = d /\ cursor'[d] = cursor[d]
             \/ cursor'[d] <= lastId[x]
          /\ stage'[d] = "sending" =>
               link[x] = d /\ stage[d] = "sending" /\ batch'[d] = batch[d]
    <3>1. \A x \in Tabs : lastId[x] \in Nat
      BY <1>0 DEF TabsTyped
    <3>2. \A x \in Tabs : \A d \in Conns : link'[x] = d => link[x] = d \/ d = c
      BY <1>0, <2>1 DEF TabsTyped
    <3>3. stage'[c] = "requested" /\ \A d \in Conns : d # c => stage'[d] = stage[d]
      BY <1>0, <2>1 DEF ConnsTyped
    <3> QED BY <2>1, <2>2, <3>1, <3>2, <3>3
  <2> QED BY <2>1, <2>3, <2>4, QuietGap
<1> QED BY <1>2, <1>3

\* Requests that end leave no link behind.
LEMMA EndGap ==
  ASSUME FeedInv, FeedInv', GapInv,
         \/ \E c \in Conns : Refuse(c) \/ Gone(c) \/ Fail(c)
         \/ Restart
  PROVE  GapInv'
<1>0. TabsTyped /\ ConnsTyped
  BY TypeParts DEF FeedInv
<1>1. PICK C \in SUBSET Conns :
        Free(C) /\ (Sever(C) \/ (UNCHANGED tabVars /\ \A t \in Tabs : link[t] \notin C))
  <2>1. ASSUME NEW c \in Conns, Refuse(c) \/ Gone(c) \/ Fail(c)
        PROVE  /\ Free({c})
               /\ Sever({c}) \/ (UNCHANGED tabVars /\ \A t \in Tabs : link[t] \notin {c})
    BY <2>1 DEF Refuse, Gone, Fail, Readers
  <2>2. CASE Restart
    BY <2>2 DEF Restart
  <2> QED BY <2>1, <2>2
<1>2. UNCHANGED <<storeVars, lastId, seen, since>>
  BY DEF Refuse, Gone, Fail, Restart, Sever, tabVars
<1>3. \A t \in Tabs : \A c \in Conns : link'[t] = c => link[t] = c /\ c \notin C
  BY <1>0, <1>1, SeverKeeps DEF tabVars
<1>4. \A c \in Conns \ C :
        stage'[c] = stage[c] /\ cursor'[c] = cursor[c] /\ batch'[c] = batch[c]
  BY <1>0, <1>1, FreeKeeps
<1>5. AtRows' /\ NoCursorYet'
  BY <1>1, <1>2 DEF GapInv, AtRows, NoCursorYet, Free, storeVars
<1> QED BY <1>2, <1>3, <1>4, <1>5, QuietGap

\* A request is admitted, or its generator begins at what its tab has.
LEMMA StartGap ==
  ASSUME FeedInv, FeedInv', GapInv, NEW c \in Conns, Admit(c) \/ Begin(c)
  PROVE  GapInv'
<1>0. TabsTyped /\ ConnsTyped
  BY TypeParts DEF FeedInv
<1>1. AtRows /\ NoCursorYet
  BY DEF GapInv
<1>2. /\ UNCHANGED <<storeVars, after, batch, tabVars>>
      /\ stage[c] \in {"requested", "admitted"} /\ stage'[c] # "sending"
      /\ \A d \in Conns \ {c} : stage'[d] = stage[d] /\ cursor'[d] = cursor[d]
  BY <1>0 DEF Admit, Begin, ConnsTyped
<1>3. cursor[c] = NoId /\ cursor'[c] \in {NoId, after[c]}
  BY <1>0, <1>1, <1>2 DEF Admit, Begin, ConnsTyped, NoCursorYet
<1>4. stage'[c] \in {"admitted", "attaching"} => cursor'[c] = NoId
  BY <1>0, <1>3 DEF Admit, Begin, ConnsTyped
<1>5. stage'[c] \in {"admitted", "attaching", "polling"}
  BY <1>0 DEF Admit, Begin, ConnsTyped
<1>6. AtRows'
  BY <1>1, <1>2, <1>3 DEF AtRows, storeVars, tabVars
<1>7. NoCursorYet'
  BY <1>1, <1>2, <1>4, <1>5 DEF NoCursorYet
<1>8. \A t \in Tabs : link[t] = c => cursor'[c] <= lastId[t]
  BY <1>0, <1>2, <1>3 DEF FeedInv, LinksContinue, Continues, TabsTyped
<1> QED BY <1>2, <1>6, <1>7, <1>8, QuietGap DEF tabVars

\* A tab that attaches is owed only rows newer than the newest.
LEMMA AttachGap ==
  ASSUME FeedInv, GapInv, NEW c \in Conns, Attach(c)
  PROVE  GapInv'
<1>0. TabsTyped /\ StoreTyped /\ ConnsTyped
  BY TypeParts DEF FeedInv
<1>1. InOrder /\ AtRows /\ NoCursorYet /\ NonePassed /\ Gapless
  BY DEF GapInv
<1> DEFINE newest == Max(stored \cup {NoId})
<1>2. newest \in stored \cup {NoId} /\ \A i \in stored : i <= newest
  BY <1>0, NewestTyped
<1>3. /\ stage[c] = "attaching" /\ Attached(c, newest)
      /\ stage' = [stage EXCEPT ![c] = "polling"]
      /\ cursor' = [cursor EXCEPT ![c] = newest]
      /\ UNCHANGED <<storeVars, after, batch, link, lastId, seen>>
  BY DEF Attach
<1> HIDE DEF newest
<1>4. /\ stage'[c] = "polling" /\ cursor'[c] = newest
      /\ \A d \in Conns \ {c} : stage'[d] = stage[d] /\ cursor'[d] = cursor[d]
  BY <1>0, <1>3 DEF ConnsTyped
<1>5. \A t \in Tabs : /\ link[t] # c => since'[t] = since[t]
                      /\ link[t] = c => since'[t] = newest
  BY <1>3 DEF Attached, Readers, FeedInv, LinksContinue, Continues
<1>6. ASSUME NEW t \in Tabs, NEW i \in stored, since'[t] < i
      PROVE  link[t] # c
  <2>1. i \in Nat /\ newest \in Nat
    BY <1>0, <1>2 DEF StoreTyped
  <2> QED BY <1>2, <1>5, <1>6, <2>1
<1>7. NonePassed'
  <2> SUFFICES ASSUME NEW t \in Tabs, NEW i \in stored, since'[t] < i, Passed(t, i)'
               PROVE  i \in seen[t]
    BY <1>3 DEF NonePassed, storeVars
  <2>1. link[t] # c /\ since[t] < i
    BY <1>5, <1>6
  <2>2. Passed(t, i)
    BY <1>3, <1>4, <2>1 DEF Passed
  <2> QED BY <1>1, <2>1, <2>2 DEF NonePassed
<1>8. Gapless'
  <2> SUFFICES ASSUME NEW t \in Tabs, NEW d \in Conns, link[t] = d, stage'[d] = "sending",
                      NEW b \in batch[d], NEW i \in stored, since'[t] < i, i <= b
               PROVE  i \in batch[d] \cup seen[t]
    BY <1>3 DEF Gapless, storeVars
  <2>1. link[t] # c /\ since[t] < i
    BY <1>5, <1>6
  <2> QED BY <1>1, <1>4, <2>1 DEF Gapless
<1>9. InOrder' /\ AtRows' /\ NoCursorYet'
  <2>1. AtRows'
    BY <1>1, <1>2, <1>3, <1>4 DEF AtRows, storeVars
  <2>2. NoCursorYet'
    BY <1>1, <1>4 DEF NoCursorYet
  <2> QED BY <1>1, <1>3, <2>1, <2>2 DEF InOrder, storeVars
<1> QED BY <1>7, <1>8, <1>9 DEF GapInv

\* What a poll reads is all there is beyond the cursor, up to its last row.
LEMMA PollGap ==
  ASSUME FeedInv, GapInv, NEW c \in Conns, Poll(c)
  PROVE  GapInv'
<1>0. TabsTyped /\ StoreTyped /\ ConnsTyped
  BY TypeParts DEF FeedInv
<1>1. InOrder /\ AtRows /\ NoCursorYet /\ NonePassed /\ Gapless
  BY DEF GapInv
<1>2. /\ stage' = [stage EXCEPT ![c] = "sending"]
      /\ \E x : batch' = [batch EXCEPT ![c] = x]
      /\ UNCHANGED <<storeVars, after, cursor, tabVars>>
  BY DEF Poll
<1>3. /\ stage'[c] = "sending"
      /\ \A d \in Conns \ {c} : stage'[d] = stage[d] /\ batch'[d] = batch[d]
  BY <1>0, <1>2 DEF ConnsTyped
<1>4. /\ batch'[c] \subseteq {i \in stored : i > cursor[c]}
      /\ \A i \in batch'[c] : \A j \in stored : cursor[c] < j /\ j < i => j \in batch'[c]
  BY <1>0, BatchOf
<1>5. NonePassed'
  BY <1>1, <1>2 DEF NonePassed, Passed, storeVars, tabVars
<1>6. Gapless'
  <2> SUFFICES ASSUME NEW t \in Tabs, NEW d \in Conns, link[t] = d, stage'[d] = "sending",
                      NEW b \in batch'[d], NEW i \in stored, since[t] < i, i <= b
               PROVE  i \in batch'[d] \cup seen[t]
    BY <1>2 DEF Gapless, storeVars, tabVars
  <2>1. CASE d = c
    <3>1. i \in Nat /\ b \in Nat /\ cursor[c] \in Nat
      <4>1. b \in stored
        BY <1>4, <2>1
      <4>2. cursor[c] \in Nat
        BY <1>0 DEF ConnsTyped
      <4> QED BY <1>0, <4>1, <4>2 DEF StoreTyped
    <3>2. i <= cursor[c] => i \in seen[t]
      BY <1>1, <2>1 DEF NonePassed, Passed
    <3> QED BY <1>4, <2>1, <3>1, <3>2
  <2>2. CASE d # c
    BY <1>1, <1>3, <2>2 DEF Gapless
  <2> QED BY <2>1, <2>2
<1>7. AtRows' /\ NoCursorYet'
  <2>1. AtRows'
    BY <1>1, <1>2, <1>3, <1>4 DEF AtRows, storeVars, tabVars
  <2>2. NoCursorYet'
    BY <1>1, <1>2, <1>3 DEF NoCursorYet
  <2> QED BY <2>1, <2>2
<1>8. InOrder'
  BY <1>1, <1>2 DEF InOrder, storeVars
<1> QED BY <1>5, <1>6, <1>7, <1>8 DEF GapInv

\* The row sent is the least of the batch: what is below it, the tab has.
LEMMA YieldGap ==
  ASSUME FeedInv, GapInv, NEW c \in Conns, Yield(c)
  PROVE  GapInv'
<1>0. TabsTyped /\ StoreTyped /\ ConnsTyped
  BY TypeParts DEF FeedInv
<1>1. InOrder /\ AtRows /\ NoCursorYet /\ NonePassed /\ Gapless
  BY DEF GapInv
<1> DEFINE m == Min(batch[c])
           last == batch[c] = {m}
<1>2. /\ stage[c] = "sending"
      /\ batch' = [batch EXCEPT ![c] = @ \ {m}]
      /\ stage' = [stage EXCEPT ![c] = IF last THEN "polling" ELSE @]
      /\ cursor' = [cursor EXCEPT ![c] = IF last THEN m ELSE @]
      /\ lastId' = [t \in Tabs |-> IF t \in Readers(c) THEN m ELSE lastId[t]]
      /\ seen' = [t \in Tabs |-> IF t \in Readers(c) THEN seen[t] \cup {m} ELSE seen[t]]
      /\ UNCHANGED <<storeVars, after, link, since>>
  BY DEF Yield
<1>3. m \in batch[c] /\ m \in stored /\ \A j \in batch[c] : m <= j
  <2>1. batch[c] # {} /\ batch[c] \in SUBSET Nat /\ batch[c] \subseteq stored
    BY <1>0, <1>1, <1>2 DEF FeedInv, BatchesLeft, ConnsTyped, AtRows
  <2> QED BY <2>1, MinIs
<1> HIDE DEF m
<1>4. /\ batch'[c] = batch[c] \ {m} /\ stage'[c] \in {"polling", "sending"}
      /\ cursor'[c] \in {m, cursor[c]}
      /\ \A d \in Conns \ {c} : /\ stage'[d] = stage[d] /\ batch'[d] = batch[d]
                               /\ cursor'[d] = cursor[d]
  BY <1>0, <1>2 DEF ConnsTyped
<1>5. \A t \in Tabs :
        /\ link[t] = c => lastId'[t] = m /\ seen'[t] = seen[t] \cup {m}
        /\ link[t] # c => lastId'[t] = lastId[t] /\ seen'[t] = seen[t]
  BY <1>2 DEF Readers
<1>6. NonePassed'
  <2> SUFFICES ASSUME NEW t \in Tabs, NEW i \in stored, since[t] < i, Passed(t, i)'
               PROVE  i \in seen'[t]
    BY <1>2 DEF NonePassed, storeVars
  <2>1. CASE link[t] = c
    <3>1. i <= m => i \in seen'[t]
      <4> SUFFICES ASSUME i <= m PROVE i \in seen'[t]
        OBVIOUS
      <4>1. i \in batch[c] \cup seen[t]
        BY <1>1, <1>2, <1>3, <2>1 DEF Gapless
      <4>2. i \in Nat /\ m \in Nat
        BY <1>0, <1>3 DEF StoreTyped
      <4>3. i \in batch[c] => i = m
        BY <1>3, <4>2
      <4> QED BY <1>5, <2>1, <4>1, <4>3
    <3>2. i <= cursor[c] => i \in seen'[t]
      BY <1>1, <1>5, <2>1 DEF NonePassed, Passed
    <3>3. i <= m \/ i <= cursor[c]
      <4>1. link'[t] = c /\ lastId'[t] = m /\ cursor'[c] \in {m, cursor[c]}
        BY <1>2, <1>4, <1>5, <2>1
      <4>2. i <= lastId'[t] \/ i <= cursor'[c]
        BY <4>1 DEF Passed
      <4> QED BY <4>1, <4>2
    <3> QED BY <3>1, <3>2, <3>3
  <2>2. CASE link[t] # c
    <3>1. Passed(t, i)
      BY <1>2, <1>4, <1>5, <2>2 DEF Passed
    <3> QED BY <1>1, <1>5, <2>2, <3>1 DEF NonePassed
  <2> QED BY <2>1, <2>2
<1>7. Gapless'
  <2> SUFFICES ASSUME NEW t \in Tabs, NEW d \in Conns, link[t] = d, stage'[d] = "sending",
                      NEW b \in batch'[d], NEW i \in stored, since[t] < i, i <= b
               PROVE  i \in batch'[d] \cup seen'[t]
    BY <1>2 DEF Gapless, storeVars
  <2>1. stage[d] = "sending" /\ b \in batch[d]
    BY <1>2, <1>4
  <2>2. i \in batch[d] \cup seen[t]
    BY <1>1, <2>1 DEF Gapless
  <2> QED BY <1>4, <1>5, <2>2
<1>8. AtRows' /\ NoCursorYet'
  <2>1. AtRows'
    <3>1. \A t \in Tabs : lastId'[t] \in stored \cup {NoId}
      BY <1>1, <1>3, <1>5 DEF AtRows
    <3>2. \A d \in Conns : /\ cursor'[d] \in stored \cup {NoId}
                          /\ after[d] \in stored \cup {NoId} /\ batch'[d] \subseteq stored
      BY <1>1, <1>3, <1>4 DEF AtRows
    <3> QED BY <1>2, <3>1, <3>2 DEF AtRows, storeVars
  <2>2. NoCursorYet'
    BY <1>1, <1>4 DEF NoCursorYet
  <2> QED BY <2>1, <2>2
<1>9. InOrder'
  BY <1>1, <1>2 DEF InOrder, storeVars
<1> QED BY <1>6, <1>7, <1>8, <1>9 DEF GapInv

LEMMA GapStep == OneWriter /\ FeedInv /\ GapInv /\ [Next]_vars => GapInv'
<1> SUFFICES ASSUME OneWriter, FeedInv, GapInv, [Next]_vars PROVE GapInv'
  OBVIOUS
<1>0. FeedInv'
  BY FeedStep
<1>1. CASE \E w \in Writers : Insert(w) \/ Commit(w) \/ Discard(w)
  BY <1>1, StoreGap
<1>2. CASE \E t \in Tabs :
             Pause(t) \/ Resume(t) \/ Drop(t) \/ \E c \in Conns : Open(t, c)
  BY <1>0, <1>2, TabGap
<1>3. CASE \/ \E c \in Conns : Refuse(c) \/ Gone(c) \/ Fail(c)
           \/ Restart
  BY <1>0, <1>3, EndGap
<1>4. CASE \E c \in Conns : Admit(c) \/ Begin(c) \/ Attach(c) \/ Poll(c) \/ Yield(c)
  BY <1>0, <1>4, StartGap, AttachGap, PollGap, YieldGap
<1>5. CASE UNCHANGED vars
  <2>1. UNCHANGED <<storeVars, serverVars, lastId, seen, since, link>>
    BY <1>5 DEF vars, tabVars
  <2>2. AtRows' /\ NoCursorYet'
    BY <2>1 DEF GapInv, AtRows, NoCursorYet, storeVars, serverVars
  <2> QED BY <1>0, <2>1, <2>2, QuietGap DEF serverVars
<1> QED BY <1>1, <1>2, <1>3, <1>4, <1>5 DEF Next, Serve

\* With one instance inserting, the docstring of list_events_after
\* (repository.py:135-136) is right: a cursor skips no row, over any number of
\* reconnects, refusals and restarts.
THEOREM OneWriterSkipsNothing ==
  ASSUME OneWriter
  PROVE  Spec => []NothingSkipped
<1>1. Init => FeedInv /\ GapInv
  BY FeedInit, GapInit
<1>2. FeedInv /\ GapInv /\ [Next]_vars => (FeedInv /\ GapInv)'
  BY FeedStep, GapStep
<1>3. FeedInv /\ GapInv => NothingSkipped
  BY GapInvSuffices
<1> QED BY <1>1, <1>2, <1>3, PTL DEF Spec

-----------------------------------------------------------------------------
(* The limit                                                               *)

\* The requests that were let in and whose slot is not counted yet: the gap
\* between the check in stream_events and the first step of _event_frames.
Admitted == {c \in Conns : stage[c] = "admitted"}

\* Streams counted and streams let in.
Within(K) == openStreams + Cardinality(Admitted) < MaxClients + K

LEMMA AdmittedFinite ==
  /\ IsFiniteSet(Admitted) /\ IsFiniteSet(Admitted')
  /\ Cardinality(Admitted) \in Nat /\ Cardinality(Admitted') \in Nat
<1>1. Admitted \in SUBSET Conns /\ Admitted' \in SUBSET Conns
  BY DEF Admitted
<1>2. IsFiniteSet(Conns)
  BY StreamConstants
<1> QED BY <1>1, <1>2, FS_Subset, FS_CardinalityType

\* A step that counts no stream and lets none in.
LEMMA WithinKept ==
  ASSUME NEW K \in Nat, Within(K), openStreams \in Nat, openStreams' \in Nat,
         openStreams' <= openStreams, Admitted' \subseteq Admitted
  PROVE  Within(K)'
<1>1. Cardinality(Admitted') <= Cardinality(Admitted)
  BY AdmittedFinite, FS_Subset
<1> QED BY <1>1, AdmittedFinite, StreamConstants DEF Within

\* Requests that end take nobody's place.
LEMMA EndWithin ==
  ASSUME FeedInv, FeedInv', NEW K \in Nat, Within(K),
         \/ \E c \in Conns : Refuse(c) \/ Gone(c) \/ Fail(c)
         \/ Restart
  PROVE  Within(K)'
<1>1. openStreams \in Nat /\ openStreams' \in Nat
  BY DEF FeedInv, TypeOK
<1>2. openStreams' <= openStreams
  <2>1. openStreams' \in {openStreams, openStreams - 1, 0}
    BY DEF Refuse, Gone, Fail, Restart
  <2> QED BY <1>1, <2>1
<1>3. \E C \in SUBSET Conns : Free(C)
  BY DEF Refuse, Gone, Fail, Restart
<1>4. Admitted' \subseteq Admitted
  BY <1>3 DEF Free, Admitted
<1> QED BY <1>1, <1>2, <1>4, WithinKept

\* A request is let in while there is room, so it is the sum that may go over.
LEMMA AdmitWithin ==
  ASSUME FeedInv, FeedInv', NEW K \in Nat, Cardinality(Admitted') <= K,
         NEW c \in Conns, Admit(c)
  PROVE  Within(K)'
<1>1. openStreams \in Nat /\ openStreams < MaxClients /\ openStreams' = openStreams
  BY DEF FeedInv, TypeOK, Admit
<1> QED BY <1>1, AdmittedFinite, StreamConstants DEF Within

\* The first step of the generator turns one of the sum into the other.
LEMMA BeginWithin ==
  ASSUME FeedInv, FeedInv', NEW K \in Nat, Within(K), NEW c \in Conns, Begin(c)
  PROVE  Within(K)'
<1>1. openStreams \in Nat /\ openStreams' = openStreams + 1
  BY DEF FeedInv, TypeOK, Begin
<1>2. c \in Admitted /\ Admitted' = Admitted \ {c}
  BY DEF Begin, Admitted, FeedInv, TypeOK
<1>3. Cardinality(Admitted') = Cardinality(Admitted) - 1
  BY <1>2, AdmittedFinite, FS_RemoveElement
<1> QED BY <1>1, <1>3, AdmittedFinite, StreamConstants DEF Within

LEMMA WithinStep ==
  ASSUME FeedInv, NEW K \in Nat, Within(K), Cardinality(Admitted') <= K, [Next]_vars
  PROVE  Within(K)'
<1>0. FeedInv'
  BY FeedStep
<1>1. CASE \/ \E c \in Conns : Refuse(c) \/ Gone(c) \/ Fail(c)
           \/ Restart
  BY <1>0, <1>1, EndWithin
<1>2. CASE \E c \in Conns : Admit(c)
  BY <1>0, <1>2, AdmitWithin
<1>3. CASE \E c \in Conns : Begin(c)
  BY <1>0, <1>3, BeginWithin
<1>4. ASSUME openStreams' = openStreams, Admitted' \subseteq Admitted
      PROVE  Within(K)'
  BY <1>0, <1>4, WithinKept DEF FeedInv, TypeOK
<1>5. CASE UNCHANGED serverVars
  BY <1>4, <1>5 DEF serverVars, Admitted
<1>6. CASE \E t \in Tabs : \E c \in Conns : Open(t, c)
  BY <1>4, <1>6 DEF Open, Admitted, FeedInv, TypeOK
<1>7. CASE \E c \in Conns : Attach(c) \/ Poll(c) \/ Yield(c)
  <2>1. PICK c \in Conns : Attach(c) \/ Poll(c) \/ Yield(c)
    BY <1>7
  <2>2. /\ openStreams' = openStreams
        /\ \E to \in {"polling", "sending"} : stage' = [stage EXCEPT ![c] = to]
    BY <2>1 DEF Attach, Poll, Yield, FeedInv, TypeOK
  <2>3. Admitted' \subseteq Admitted
    BY <2>2 DEF Admitted, FeedInv, TypeOK
  <2> QED BY <1>4, <2>2, <2>3
<1>8. CASE \/ \E w \in Writers : Insert(w) \/ Commit(w) \/ Discard(w)
           \/ \E t \in Tabs : Pause(t) \/ Resume(t) \/ Drop(t)
           \/ UNCHANGED vars
  BY <1>5, <1>8 DEF Insert, Commit, Discard, Pause, Resume, Drop, vars
<1> QED BY <1>1, <1>2, <1>3, <1>6, <1>7, <1>8 DEF Next, Serve

LEMMA WithinInit ==
  ASSUME NEW K \in Nat \ {0}, Init
  PROVE  Within(K)
<1>1. Admitted = {} /\ openStreams = 0
  BY DEF Init, Admitted
<1> QED BY <1>1, FS_EmptySet, StreamConstants DEF Within

\* How far the limit can be overrun: by the requests that are let in together
\* before the first of them is counted, less one.
THEOREM LimitOverrun ==
  ASSUME NEW CONSTANT K \in Nat \ {0}
  PROVE  Spec /\ [](Cardinality(Admitted) <= K) => [](openStreams < MaxClients + K)
<1> DEFINE few == Cardinality(Admitted) <= K
<1>1. Init => Within(K)
  BY WithinInit
<1>2. FeedInv /\ few' /\ Within(K) /\ [Next]_vars => Within(K)'
  BY WithinStep
<1>3. FeedInv /\ Within(K) => openStreams < MaxClients + K
  BY AdmittedFinite, StreamConstants DEF FeedInv, TypeOK, Within
<1> QED BY <1>1, <1>2, <1>3, FeedHolds, PTL DEF Spec

\* The limit of stream.py:107 holds if no two requests are let in together: the
\* gap between the check and the count is the only way past it.
THEOREM LimitHeldOneAtATime ==
  Spec /\ [](Cardinality(Admitted) <= 1) => []StreamsWithinLimit
<1> DEFINE alone == Cardinality(Admitted) <= 1
<1>1. Init => Within(1)
  BY WithinInit
<1>2. FeedInv /\ alone' /\ Within(1) /\ [Next]_vars => Within(1)'
  BY WithinStep
<1>3. FeedInv /\ Within(1) => StreamsWithinLimit
  BY AdmittedFinite, StreamConstants DEF FeedInv, TypeOK, Within, StreamsWithinLimit
<1> QED BY <1>1, <1>2, <1>3, FeedHolds, PTL DEF Spec

-----------------------------------------------------------------------------
(* What a tab is sent *)

\* Only committed rows are on their way to a tab, or there.
FromStore ==
  /\ \A c \in Conns : batch[c] \subseteq stored
  /\ \A t \in Tabs : seen[t] \subseteq stored

LEMMA FromStoreKept ==
  ASSUME FromStore, stored \subseteq stored',
         \A c \in Conns : batch'[c] \subseteq batch[c],
         \A t \in Tabs : seen'[t] = seen[t]
  PROVE  FromStore'
BY DEF FromStore

LEMMA FromStoreStep == FeedInv /\ FromStore /\ [Next]_vars => FromStore'
<1> SUFFICES ASSUME FeedInv, FromStore, [Next]_vars PROVE FromStore'
  OBVIOUS
<1>0. StoreTyped /\ ConnsTyped /\ TabsTyped
  BY TypeParts DEF FeedInv
<1>1. CASE \E w \in Writers : Insert(w) \/ Commit(w) \/ Discard(w)
  <2>1. stored \subseteq stored' /\ UNCHANGED <<batch, seen>>
    BY <1>1 DEF Insert, Commit, Discard, serverVars, tabVars
  <2> QED BY <2>1, FromStoreKept
<1>2. CASE \/ \E t \in Tabs : \/ Pause(t) \/ Resume(t) \/ Drop(t)
                             \/ \E c \in Conns : Open(t, c)
           \/ \E c \in Conns : Admit(c) \/ Begin(c) \/ Attach(c)
           \/ UNCHANGED vars
  <2>1. UNCHANGED <<stored, batch, seen>>
    BY <1>2 DEF Pause, Resume, Drop, Open, Sever, Admit, Begin, Attach, vars, storeVars,
                serverVars, tabVars
  <2> QED BY <2>1, FromStoreKept
<1>3. CASE \/ \E c \in Conns : Refuse(c) \/ Gone(c) \/ Fail(c)
           \/ Restart
  <2>1. UNCHANGED <<stored, seen>> /\ \E C \in SUBSET Conns : Free(C)
    BY <1>3 DEF Refuse, Gone, Fail, Restart, Sever, storeVars, tabVars
  <2>2. \A c \in Conns : batch'[c] \subseteq batch[c]
    BY <2>1 DEF Free
  <2> QED BY <2>1, <2>2, FromStoreKept
<1>4. CASE \E c \in Conns : Poll(c)
  <2>1. PICK c \in Conns : Poll(c)
    BY <1>4
  <2>2. batch'[c] \subseteq stored
    BY <1>0, <2>1, BatchOf
  <2>3. \A d \in Conns \ {c} : batch'[d] = batch[d]
    BY <1>0, <2>1 DEF Poll, ConnsTyped
  <2>4. UNCHANGED <<stored, seen>>
    BY <2>1 DEF Poll, storeVars, tabVars
  <2> QED BY <2>2, <2>3, <2>4 DEF FromStore
<1>5. CASE \E c \in Conns : Yield(c)
  <2>1. PICK c \in Conns : Yield(c)
    BY <1>5
  <2> DEFINE i == Min(batch[c])
  <2>2. /\ stage[c] = "sending" /\ UNCHANGED stored
        /\ batch' = [batch EXCEPT ![c] = @ \ {i}]
        /\ \A t \in Tabs : seen'[t] \subseteq seen[t] \cup {i}
    BY <2>1 DEF Yield, storeVars
  <2>3. batch[c] # {} /\ batch[c] \in SUBSET Nat
    BY <1>0, <2>2 DEF FeedInv, BatchesLeft, ConnsTyped
  <2>4. i \in batch[c]
    BY <2>3, MinIs
  <2> HIDE DEF i
  <2>5. \A d \in Conns : batch'[d] \subseteq batch[d]
    BY <1>0, <2>2 DEF ConnsTyped
  <2>6. i \in stored
    BY <2>4 DEF FromStore
  <2> QED BY <2>2, <2>5, <2>6 DEF FromStore
<1> QED BY <1>1, <1>2, <1>3, <1>4, <1>5 DEF Next, Serve

\* "What a client sees here is exactly what is durably stored" (stream_events'
\* docstring, stream.py:100-103): no tab is sent a row of a transaction that was
\* rolled back or is still open.
THEOREM ShownIsStored == Spec => [](\A t \in Tabs : seen[t] \subseteq stored)
<1>1. Init => FromStore
  BY DEF Init, FromStore
<1>2. FromStore => \A t \in Tabs : seen[t] \subseteq stored
  BY DEF FromStore
<1> QED BY <1>1, <1>2, FromStoreStep, FeedHolds, PTL DEF Spec

\* What is left of useEventStream.ts:22-27 (ReconnectSkipsNothing): a reconnect
\* skips what arrived during the gap only for a tab that was sent no row at all.
THEOREM ServedTabsSkipNothing ==
  Spec => [][\A t \in Tabs : \A i \in stored :
               lastId[t] # NoId => ~(since[t] < i /\ i <= since'[t])]_vars
<1>1. FeedInv /\ [Next]_vars =>
        [\A t \in Tabs : \A i \in stored :
           lastId[t] # NoId => ~(since[t] < i /\ i <= since'[t])]_vars
  <2> SUFFICES ASSUME FeedInv, Next, NEW t \in Tabs, NEW i \in stored, lastId[t] # NoId,
                      since[t] < i, i <= since'[t]
               PROVE  FALSE
    OBVIOUS
  <2>1. since[t] \in Nat /\ i \in Nat
    BY StreamConstants DEF FeedInv, TypeOK, Ids, NoId, Nowhere
  <2>2. since'[t] = since[t]
    <3>1. CASE \E c \in Conns : Attach(c)
      BY <3>1 DEF Attach, Attached
    <3>2. CASE UNCHANGED since
      BY <3>2
    <3> QED
      BY <3>1, <3>2 DEF Next, Serve, Insert, Commit, Discard, Pause, Resume, Drop, Open,
         Refuse, Admit, Begin, Poll, Yield, Gone, Fail, Restart, Sever, tabVars
  <2> QED BY <2>1, <2>2
<1> QED BY <1>1, FeedHolds, PTL DEF Spec

=============================================================================
