--------------------------- MODULE Services_proof ---------------------------
(***************************************************************************)
(* Proofs about the parts that serve the tasks: the ring of main.c, the    *)
(* unsolicited result codes and the texts of the gateway, each for every   *)
(* value of its constants, and then, with the calls of the radio           *)
(* interface (RilCalls_proof), about the parts together, where a step of   *)
(* one leaves the others where they began.                                 *)
(*                                                                         *)
(* UrcInv says what keeps the news of the unsolicited lines true between   *)
(* two of them: a message in the queue still finds in the caches what its  *)
(* own line said, unless as many later lines have come as the cache has    *)
(* room for (UrcQueueOK), and a request nothing has disturbed has its      *)
(* function registered (RequestsInv).                                      *)
(***************************************************************************)
EXTENDS MCServices, RilCalls_proof, WellFoundedInduction

-----------------------------------------------------------------------------
(* The ring.                                                               *)

\* The modulo of the code, on the indexes it is applied to.
LEMMA AfterStep ==
    ASSUME NEW i \in 0 .. N-1
    PROVE  /\ After(i) = IF i = N-1 THEN 0 ELSE i + 1
           /\ After(i) \in 0 .. N-1
<1>1. N \in Nat /\ N > 1
  BY RingAssumption
<1>2. CASE i = N-1
  BY <1>1, <1>2 DEF After
<1>3. CASE i # N-1
  <2>1. i + 1 \in 0 .. N-1
    BY <1>1, <1>3
  <2>2. (i + 1) % N = i + 1
    BY <1>1, <2>1
  <2>3. QED
    BY <1>3, <2>1, <2>2 DEF After
<1>4. QED
  BY <1>2, <1>3

\* Where the k-th oldest item lies is always inside the array, and the number
\* of items is at most N-1: the slot under the write index is never counted.
LEMMA CountAndAt ==
    ASSUME TypeOK
    PROVE  /\ Count \in 0 .. N-1
           /\ \A k \in 1 .. N : At(k) \in 0 .. N-1
           /\ \A k \in 1 .. Count : At(k) # w
           /\ Count + 1 \in 1 .. N /\ At(Count + 1) = w
           /\ Count = 0 <=> r = w
           /\ At(1) = r
           /\ After(w) = r <=> Count = N - 1
<1>1. N \in Nat /\ N > 1 /\ w \in 0 .. N-1 /\ r \in 0 .. N-1
  BY RingAssumption DEF TypeOK
<1>2. /\ Count \in 0 .. N-1
      /\ \A k \in 1 .. N : At(k) \in 0 .. N-1
      /\ \A k \in 1 .. Count : At(k) # w
      /\ Count + 1 \in 1 .. N /\ At(Count + 1) = w
      /\ Count = 0 <=> r = w
      /\ At(1) = r
  BY <1>1 DEF Count, At
<1>3. After(w) = r <=> Count = N - 1
  BY <1>1, AfterStep DEF Count
<1>4. QED
  BY <1>2, <1>3

LEMMA RingTypeInit == Init => TypeOK
  BY RingAssumption DEF Init, TypeOK

LEMMA RingTypeStep == TypeOK /\ [Next]_vars => TypeOK'
<1> SUFFICES ASSUME TypeOK, [Next]_vars
             PROVE  TypeOK'
  OBVIOUS
<1> USE DEF TypeOK
<1>0. N \in Nat /\ N > 1
  BY RingAssumption
<1>1. ASSUME NEW v \in Item, Push(v)
      PROVE  TypeOK'
  <2>1. CASE After(w) = r
    BY <1>1, <2>1 DEF Push
  <2>2. CASE After(w) # r
    BY <1>1, <2>2, AfterStep DEF Push
  <2>3. QED
    BY <2>1, <2>2
<1>2. CASE Take
  BY <1>2, AfterStep DEF Take
<1>3. CASE Peek
  BY <1>3 DEF Peek
<1>4. CASE Commit
  BY <1>4, AfterStep DEF Commit
<1>5. CASE Clear
  BY <1>0, <1>5 DEF Clear
<1>6. CASE UNCHANGED vars
  BY <1>6 DEF vars
<1>7. QED
  BY <1>1, <1>2, <1>3, <1>4, <1>5, <1>6 DEF Next

\* The typing of the ring: after any mix of pushes, pops and resets both
\* indexes stay inside the array.
THEOREM RingTypeCorrect == Spec => []TypeOK
  BY RingTypeInit, RingTypeStep, PTL DEF Spec

\* What a push does to the positions: one more item, at the end, and the
\* earlier ones untouched.
LEMMA PushMoves ==
    ASSUME TypeOK, NEW v \in Item, Push(v), After(w) # r
    PROVE  /\ Count' = Count + 1
           /\ \A k \in 1 .. Count : slot'[At(k)'] = slot[At(k)]
           /\ \A k \in {Count + 1} : slot'[At(k)'] = v
<1>1. /\ N \in Nat /\ N > 1 /\ w \in 0 .. N-1 /\ r \in 0 .. N-1
      /\ r' = r /\ w' = After(w) /\ slot' = [slot EXCEPT ![w] = v]
      /\ slot \in [0 .. N-1 -> Item \cup {Nothing}]
  BY RingAssumption DEF TypeOK, Push
<1>2. /\ After(w) = IF w = N-1 THEN 0 ELSE w + 1
      /\ After(w) # r
  BY <1>1, AfterStep
<1>3. Count' = Count + 1
  BY <1>1, <1>2 DEF Count
<1>4. \A k \in 1 .. N : At(k)' = At(k)
  BY <1>1 DEF At
<1>5. /\ Count \in 0 .. N-1
      /\ Count + 1 \in 1 .. N /\ At(Count + 1) = w
      /\ \A k \in 1 .. Count : At(k) # w /\ At(k) \in 0 .. N-1
  BY <1>1, CountAndAt
<1>6. \A k \in 1 .. Count : k \in 1 .. N
  BY <1>1, <1>5
<1>7. \A k \in {Count + 1} : slot'[At(k)'] = v
  BY <1>1, <1>4, <1>5
<1>8. \A k \in 1 .. Count : slot'[At(k)'] = slot[At(k)]
  BY <1>1, <1>4, <1>5, <1>6
<1>9. QED
  BY <1>3, <1>7, <1>8

\* What freeing the oldest slot does to the positions: every item moves up by
\* one place and none changes.
LEMMA PopMoves ==
    ASSUME TypeOK, r # w, r' = After(r), UNCHANGED <<slot, w>>
    PROVE  /\ Count \in Nat /\ Count > 0
           /\ Count' = Count - 1
           /\ \A k \in 1 .. Count - 1 : slot'[At(k)'] = slot[At(k + 1)]
<1>1. /\ N \in Nat /\ N > 1 /\ w \in 0 .. N-1 /\ r \in 0 .. N-1
      /\ w' = w /\ slot' = slot
  BY RingAssumption DEF TypeOK
<1>2. r' = IF r = N-1 THEN 0 ELSE r + 1
  BY <1>1, AfterStep
<1>3. Count \in Nat /\ Count > 0 /\ Count < N /\ Count' = Count - 1
  BY <1>1, <1>2 DEF Count
<1>4. \A k \in 1 .. N - 1 : At(k)' = At(k + 1)
  BY <1>1, <1>2 DEF At
<1>5. QED
  BY <1>1, <1>3, <1>4

\* Every queued slot has been written, for every number of slots: the index
\* arithmetic never exposes the initial content of the array.
THEOREM RingNeverExposesUnwritten == Spec => []QueuedSlotsWritten
<1>1. Init => QueuedSlotsWritten
  <2> SUFFICES ASSUME Init PROVE QueuedSlotsWritten
    OBVIOUS
  <2>1. Count = 0
    BY RingAssumption DEF Init, Count
  <2>2. QED
    BY <2>1 DEF QueuedSlotsWritten
<1>2. TypeOK /\ QueuedSlotsWritten /\ [Next]_vars => QueuedSlotsWritten'
  <2> SUFFICES ASSUME TypeOK, QueuedSlotsWritten, [Next]_vars
               PROVE  QueuedSlotsWritten'
    OBVIOUS
  <2> USE DEF QueuedSlotsWritten
  <2>1. ASSUME NEW v \in Item, Push(v)
        PROVE  QueuedSlotsWritten'
    <3>1. CASE After(w) = r
      BY <2>1, <3>1 DEF Push, Count, At
    <3>2. CASE After(w) # r
      <4>1. /\ Count' = Count + 1
            /\ \A k \in 1 .. Count : slot'[At(k)'] = slot[At(k)]
            /\ \A k \in {Count + 1} : slot'[At(k)'] = v
        BY <2>1, <3>2, PushMoves
      <4>2. Count \in Nat
        BY CountAndAt, RingAssumption
      <4>3. \A k \in 1 .. Count' : k \in 1 .. Count \/ k = Count + 1
        BY <4>1, <4>2
      <4>4. QED
        BY <4>1, <4>3
    <3>3. QED
      BY <3>1, <3>2
  <2>2. ASSUME r # w, r' = After(r), UNCHANGED <<slot, w>>
        PROVE  QueuedSlotsWritten'
    <3>1. /\ Count \in Nat /\ Count > 0
          /\ Count' = Count - 1
          /\ \A k \in 1 .. Count - 1 : slot'[At(k)'] = slot[At(k + 1)]
      BY <2>2, PopMoves
    <3>2. \A k \in 1 .. Count' : k \in 1 .. Count - 1 /\ k + 1 \in 1 .. Count
      BY <3>1
    <3>3. QED
      BY <3>1, <3>2
  <2>3. CASE Take
    BY <2>2, <2>3 DEF Take
  <2>4. CASE Peek
    BY <2>4 DEF Peek, Count, At
  <2>5. CASE Commit
    BY <2>2, <2>5 DEF Commit
  <2>6. CASE Clear
    <3>1. Count' = 0
      BY <2>6, RingAssumption DEF Clear, Count
    <3>2. QED
      BY <3>1
  <2>7. CASE UNCHANGED vars
    BY <2>7 DEF vars, Count, At
  <2>8. QED
    BY <2>1, <2>3, <2>4, <2>5, <2>6, <2>7 DEF Next
<1>3. QED
  BY <1>1, <1>2, RingTypeCorrect, PTL DEF Spec

\* The queue the ring stands for, as BQ names it.
Queued == [k \in 1 .. Count |-> slot[At(k)]]

\* It is a sequence of items as long as Count says.
LEMMA QueuedIsSequence ==
    ASSUME TypeOK, QueuedSlotsWritten
    PROVE  /\ Queued \in Seq(Item)
           /\ Len(Queued) = Count
           /\ \A k \in 1 .. Count : Queued[k] = slot[At(k)]
<1>1. Count \in Nat
  BY CountAndAt, RingAssumption
<1>2. \A k \in 1 .. Count : slot[At(k)] \in Item
  BY DEF QueuedSlotsWritten
<1>3. Queued \in Seq(Item) /\ Len(Queued) = Count
  BY <1>1, <1>2, IsASeq, LenProperties DEF Queued
<1>4. QED
  BY <1>3 DEF Queued

\* The same facts as a state predicate, so that they hold of both states of a
\* step.
QueuedOK ==
    /\ Count \in Nat
    /\ Queued \in Seq(Item) /\ Len(Queued) = Count
    /\ \A k \in 1 .. Count : Queued[k] = slot[At(k)]

\* The ring implements the bounded queue of N-1 items, for every number of
\* slots: the three queues of main.c:254-328 drop, reorder and repeat nothing
\* except a push that finds N-1 items.
THEOREM RingImplementsBoundedQueue == Spec => RingIsBoundedQueue
<1> DEFINE Inv == TypeOK /\ QueuedOK
<1>0. Spec => []Inv
  <2>1. TypeOK /\ QueuedSlotsWritten => Inv
    BY QueuedIsSequence, CountAndAt, RingAssumption DEF QueuedOK
  <2>2. QED
    BY <2>1, RingTypeCorrect, RingNeverExposesUnwritten, PTL
<1>1. Init => BQ!Init
  <2> SUFFICES ASSUME Init PROVE BQ!Init
    OBVIOUS
  <2>1. Count = 0 /\ TypeOK /\ QueuedSlotsWritten
    BY RingAssumption DEF Init, Count, TypeOK, QueuedSlotsWritten
  <2>2. Queued \in Seq(Item) /\ Len(Queued) = 0
    BY <2>1, QueuedIsSequence
  <2>3. QED
    BY <2>2, EmptySeq DEF BQ!Init, Queued, Init
<1>2. Inv /\ Inv' /\ [Next]_vars => [BQ!Next]_(BQ!vars)
  <2> SUFFICES ASSUME Inv, Inv', [Next]_vars
               PROVE  [BQ!Next]_(BQ!vars)
    OBVIOUS
  <2>0. /\ Count \in Nat /\ Count' \in Nat
        /\ Queued \in Seq(Item) /\ Len(Queued) = Count
        /\ Queued' \in Seq(Item) /\ Len(Queued') = Count'
        /\ \A k \in 1 .. Count : Queued[k] = slot[At(k)]
        /\ \A k \in 1 .. Count' : Queued'[k] = slot'[At(k)']
    BY DEF QueuedOK
  <2>1. ASSUME NEW v \in Item, Push(v)
        PROVE  BQ!Push(v)
    <3>1. CASE After(w) = r
      <4>1. Count = N - 1 /\ Queued' = Queued /\ out' = out
        BY <2>1, <3>1, CountAndAt DEF Push, Queued, Count, At
      <4>2. ~(Len(Queued) < N - 1)
        BY <4>1, <2>0
      <4>3. QED
        BY <4>1, <4>2 DEF BQ!Push, Queued
    <3>2. CASE After(w) # r
      <4>1. /\ Count' = Count + 1
            /\ \A k \in 1 .. Count : slot'[At(k)'] = slot[At(k)]
            /\ \A k \in {Count + 1} : slot'[At(k)'] = v
        BY <2>1, <3>2, PushMoves
      <4>2. Len(Queued) < N - 1 /\ out' = out
        BY <2>0, <2>1, <3>2, CountAndAt, RingAssumption DEF Push
      <4>3. /\ Append(Queued, v) \in Seq(Item)
            /\ Len(Append(Queued, v)) = Count + 1
            /\ \A k \in 1 .. Count : Append(Queued, v)[k] = Queued[k]
            /\ Append(Queued, v)[Count + 1] = v
        BY <2>0, AppendProperties
      <4>4. \A k \in 1 .. Count + 1 : k \in 1 .. Count \/ k = Count + 1
        BY <2>0
      <4>5. \A k \in 1 .. Count + 1 : Queued'[k] = Append(Queued, v)[k]
        BY <2>0, <4>1, <4>3, <4>4
      <4>6. Queued' = Append(Queued, v)
        BY <2>0, <4>1, <4>3, <4>5, SeqEqual
      <4>7. QED
        BY <4>2, <4>6 DEF BQ!Push, Queued
    <3>3. QED
      BY <3>1, <3>2
  <2>2. ASSUME r # w, r' = After(r), UNCHANGED <<slot, w>>
        PROVE  Queued # <<>> /\ Queued' = Tail(Queued)
    <3>1. /\ Count > 0
          /\ Count' = Count - 1
          /\ \A k \in 1 .. Count - 1 : slot'[At(k)'] = slot[At(k + 1)]
      BY <2>2, PopMoves
    <3>2. Queued # <<>>
      BY <2>0, <3>1, EmptySeq
    <3>3. /\ Tail(Queued) \in Seq(Item)
          /\ Len(Tail(Queued)) = Count - 1
          /\ \A k \in 1 .. Count - 1 : Tail(Queued)[k] = Queued[k + 1]
      BY <2>0, <3>2, HeadTailProperties
    <3>4. \A k \in 1 .. Count - 1 : k + 1 \in 1 .. Count
      BY <2>0
    <3>5. \A k \in 1 .. Count - 1 : Queued'[k] = Tail(Queued)[k]
      BY <2>0, <3>1, <3>3, <3>4
    <3>6. Queued' = Tail(Queued)
      BY <2>0, <3>1, <3>3, <3>5, SeqEqual
    <3>7. QED
      BY <3>2, <3>6
  <2>3. ASSUME r # w
        PROVE  Queued # <<>> /\ Head(Queued) = slot[r]
    <3>1. Count # 0 /\ At(1) = r
      BY <2>3, CountAndAt
    <3>2. Queued # <<>> /\ 1 \in 1 .. Count
      BY <2>0, <3>1, EmptySeq
    <3>3. Head(Queued) = Queued[1]
      BY <2>0, <3>2, HeadTailProperties
    <3>4. QED
      BY <2>0, <3>1, <3>2, <3>3
  <2>4. ASSUME Take PROVE BQ!Take
    <3>1. Queued # <<>> /\ Queued' = Tail(Queued) /\ out' = Head(Queued)
      BY <2>2, <2>3, <2>4 DEF Take
    <3>2. QED
      BY <3>1 DEF BQ!Take, Queued
  <2>5. ASSUME Peek PROVE BQ!Peek
    <3>1. Queued # <<>> /\ out' = Head(Queued)
      BY <2>3, <2>5 DEF Peek
    <3>2. Queued' = Queued
      BY <2>5 DEF Peek, Queued, Count, At
    <3>3. QED
      BY <3>1, <3>2 DEF BQ!Peek, Queued
  <2>6. ASSUME Commit PROVE BQ!Commit
    <3>1. Queued # <<>> /\ Queued' = Tail(Queued) /\ out' = out
      BY <2>2, <2>6 DEF Commit
    <3>2. QED
      BY <3>1 DEF BQ!Commit, Queued
  <2>7. ASSUME Clear PROVE BQ!Clear
    <3>1. Count' = 0 /\ out' = Nothing
      BY <2>7, RingAssumption DEF Clear, Count
    <3>2. Queued' = <<>>
      BY <2>0, <3>1, EmptySeq
    <3>3. QED
      BY <3>1, <3>2 DEF BQ!Clear, Queued
  <2>8. ASSUME UNCHANGED vars PROVE UNCHANGED BQ!vars
    BY <2>8 DEF vars, BQ!vars, Count, At
  <2>9. QED
    BY <2>1, <2>4, <2>5, <2>6, <2>7, <2>8 DEF Next, BQ!Next
<1>3. QED
  BY <1>0, <1>1, <1>2, PTL
     DEF Spec, BQ!Spec, RingIsBoundedQueue

-----------------------------------------------------------------------------
(* The unsolicited result codes.                                           *)

(* Lines and their handlers.                                               *)

LEMMA UrcTableType == DOMAIN UrcTable \subseteq Nat
  <1> DEFINE S == {m_SysURCHdlEntry[i] : i \in 1 .. 21} \cup {m_AtURCHdlEntry[i] : i \in 1 .. 21}
  <1>1. m_SysURCHdlEntry = [i \in 1 .. 21 |-> m_SysURCHdlEntry[i]]
    BY DEF m_SysURCHdlEntry
  <1>2. m_AtURCHdlEntry = [i \in 1 .. 21 |-> m_AtURCHdlEntry[i]]
    BY DEF m_AtURCHdlEntry
  <1>3. m_SysURCHdlEntry \in [1 .. 21 -> S] /\ m_AtURCHdlEntry \in [1 .. 21 -> S]
    BY <1>1, <1>2
  <1> HIDE DEF S
  <1>4. m_SysURCHdlEntry \in Seq(S) /\ m_AtURCHdlEntry \in Seq(S)
    <2>1. Seq(S) = UNION {[1 .. n -> S] : n \in Nat}
      BY SeqDef
    <2>2. 21 \in Nat
      OBVIOUS
    <2> QED
      BY <1>3, <2>1, <2>2
  <1>5. UrcTable \in Seq(S)
    BY <1>4, ConcatProperties DEF UrcTable
  <1> QED
    BY <1>5, LenProperties

LEMMA PlaceType == \A keyword \in Keywords : Place[keyword] \in Nat
  <1> SUFFICES ASSUME NEW keyword \in Keywords PROVE Place[keyword] \in Nat
    OBVIOUS
  <1>1. Place[keyword] = CHOOSE i \in DOMAIN UrcTable : UrcTable[i] = keyword
    BY DEF Place
  <1>2. \E i \in DOMAIN UrcTable : UrcTable[i] = keyword
    BY DEF Keywords
  <1>3. Place[keyword] \in DOMAIN UrcTable
    BY <1>1, <1>2
  <1> QED
    BY <1>3, UrcTableType

\* The keyword that is found is in the line.
LEMMA ChosenIsThere ==
    ASSUME NEW line, NEW x, NEW y, line.has = {x, y}
    PROVE  Chosen(line) \in {"none", x, y}
  <1> DEFINE found == line.has \cap Keywords
  <1>1. CASE found = {}
    BY <1>1 DEF Chosen
  <1>2. CASE found # {}
    <2>1. \A k \in found : Place[k] \in Nat
      BY PlaceType
    <2>2. found = {x} \/ found = {y} \/ found = {x, y}
      BY <1>2
    <2>3. \E k \in found : \A other \in found : Place[k] <= Place[other]
      <3>1. CASE found = {x}
        BY <3>1, <2>1
      <3>2. CASE found = {y}
        BY <3>2, <2>1
      <3>3. CASE found = {x, y}
        <4>1. Place[x] \in Nat /\ Place[y] \in Nat
          BY <3>3, <2>1
        <4>2. CASE Place[x] <= Place[y]
          BY <3>3, <4>1, <4>2
        <4>3. CASE Place[y] <= Place[x]
          BY <3>3, <4>1, <4>3
        <4> QED
          BY <4>1, <4>2, <4>3
      <3> QED
        BY <2>2, <3>1, <3>2, <3>3
    <2>4. Chosen(line) = CHOOSE k \in found : \A other \in found : Place[k] <= Place[other]
      BY <1>2 DEF Chosen
    <2>5. Chosen(line) \in found
      BY <2>3, <2>4
    <2> QED
      BY <2>5
  <1> QED
    BY <1>1, <1>2

\* The handler of each keyword.
LEMMA Handlers ==
    /\ \A k \in Ringing \cup CallStates : HandlerOf(k) = "RING"
    /\ \A k \in Networks : HandlerOf(k) = "+CREG:"
    /\ \A k \in Voltages : HandlerOf(k) = "UNDER_VOLTAGE WARNING"
    /\ \A k \in InitStates : HandlerOf(k) = "Call Ready"
    /\ \A k \in Alarms : HandlerOf(k) = "ALARM RING"
    /\ \A k \in FtpFiles : HandlerOf(k) = "+QFTPGET:"
    /\ \A k \in Sounds : HandlerOf(k) = "sound"
    /\ \A k \in {"none", "unknown", "+CMTI:", "+CPIN:", "+CFUN:", "+CUSD:", "+QMTRECV:",
                 "+QHTTPDL:", "+QTONEDET:"} \cup Lasting : HandlerOf(k) = k
  BY DEF HandlerOf, Ringing, CallStates, Networks, Voltages, InitStates, Alarms,
         FtpFiles, Sounds, Lasting

-----------------------------------------------------------------------------
(* What a handler does with a line.                                        *)

Cached == {"URC_COMING_CALL_IND", "URC_MQTT_RECV_IND", "URC_USSD_RECV_IND"}

Ignores(line) == OnlyPosts /\ Ignored(line) /\ Meaning(line) = NoMeaning

PostsPlain(line) ==
    /\ OnlyPosts
    /\ \E id, arg : /\ id \notin Cached
                    /\ Posted(id, arg, line)
                    /\ Meaning(line) \in {NoMeaning, <<id, arg>>}

PostsRing(line) ==
    /\ ringCnt' = NextSlot
    /\ comingCall' = [comingCall EXCEPT ![NextSlot] = line.val]
    /\ UNCHANGED <<g_mqtt, g_ussd, urcInside>>
    /\ Posted("URC_COMING_CALL_IND", NextSlot, line)
    /\ Meaning(line) \in {NoMeaning, <<"URC_COMING_CALL_IND", line.val>>}

PostsUssd(line) ==
    /\ UNCHANGED <<comingCall, ringCnt, g_mqtt, urcInside>>
    /\ Posted("URC_USSD_RECV_IND", 0, line)
    /\ Meaning(line) \in {NoMeaning, <<"URC_USSD_RECV_IND", g_ussd'>>}

PostsMqtt(line) ==
    /\ UNCHANGED <<comingCall, ringCnt, g_ussd, urcInside>>
    /\ Posted("URC_MQTT_RECV_IND", 0, line)
    /\ Meaning(line) \in {NoMeaning, <<"URC_MQTT_RECV_IND", g_mqtt'>>}

CallsFunction(line, kind) ==
    /\ CachesStay /\ UNCHANGED urcQueue
    /\ urcInside' = IF kind \in Once /\ urcCallback[kind] # 0 THEN kind ELSE "none"
    /\ \E given : /\ Calls(kind, given, line)
                  /\ Meaning(line) \in {NoMeaning, <<kind, given>>}

\* A payload may make the program call the function of a download.
CallsByMistake(line) ==
    /\ HandlerOf(Chosen(line)) = "+QHTTPDL:"
    /\ CallsFunction(line, "+QHTTPDL:") /\ Meaning(line) = NoMeaning

UnaskedOutcome(line) ==
    \/ Ignores(line) \/ PostsPlain(line) \/ PostsRing(line)
    \/ PostsUssd(line) \/ PostsMqtt(line) \/ CallsByMistake(line)

LEMMA Meanings ==
    ASSUME NEW line
    PROVE  /\ Meaning(line) \in {NoMeaning, line.means}
           /\ /\ line.head # "unknown"
              /\ HandlerOf(Chosen(line)) # HandlerOf(line.head)
              => Meaning(line) = NoMeaning
  BY DEF Meaning, Misled

LEMMA Handled ==
    ASSUME NEW line, OnURCHandler(line)
    PROVE  LET h == HandlerOf(Chosen(line)) IN
           /\ h = "RING" => OnURCHandler_Call(line)
           /\ h = "+CMTI:" => OnURCHandler_SMS(line)
           /\ h = "+CREG:" => OnURCHandler_Network(line)
           /\ h = "+CPIN:" => OnURCHandler_SIM(line)
           /\ h = "+CFUN:" => OnURCHandler_CFUN(line)
           /\ h = "UNDER_VOLTAGE WARNING" => OnURCHandler_Voltage(line)
           /\ h = "Call Ready" => OnURCHandler_InitStat(line)
           /\ h = "ALARM RING" => OnURCHandler_AlarmRing(line)
           /\ h = "+QCELLLOC:" => OnURCHandler_QCELLLocation(line)
           /\ h = "+QHTTPDL:" => OnURCHandler_HTTP(line)
           /\ h = "+QFTPGET:" => OnURCHandler_FTP(line)
           /\ h = "sound" => OnURCHandler_AudPlayInd(line)
           /\ h = "+CUSD:" => OnURCHandler_USSD(line)
           /\ h = "+QMTRECV:" => OnURCHandler_MQTT(line)
           /\ h = "+QTONEDET:" => OnURCHandler_QToneDet(line)
           /\ h = "+QWDTMF:" => OnURCHandler_QWDTMF(line)
           /\ h = "+QGNSSCMD:" => OnURCHandler_GPSCMD(line)
           /\ h = "+QNTP:" => OnURCHandler_NTPCMD(line)
           /\ h = "none" => OnURCHandler_Undefined(line)
           /\ h # "unknown"
  BY DEF OnURCHandler

LEMMA NobodysLine ==
    ASSUME NEW line, OnURCHandler(line), HandlerOf(Chosen(line)) = "none",
           line.head = "unknown" => line.means = <<"URC_END", 0>>,
           line.head # "unknown" => HandlerOf(line.head) # "none"
    PROVE  PostsPlain(line)
  <1>1. OnlyPosts /\ Posted("URC_END", 0, line)
    BY Handled DEF OnURCHandler_Undefined
  <1>2. Meaning(line) \in {NoMeaning, <<"URC_END", 0>>}
    BY Meanings
  <1> QED
    BY <1>1, <1>2 DEF PostsPlain, Cached

LEMMA CallLineHandled ==
    ASSUME NEW line \in CallLines, OnURCHandler(line)
    PROVE  UnaskedOutcome(line)
  <1> DEFINE ring == {"+CRING: VOICE", "RING", "+CLIP:"}
  <1>0. PICK head, has, n, means :
            /\ head \in ring /\ line = UrcLine(head, has, n, means)
            /\ \/ has = {} /\ means = NoMeaning
               \/ has = {"+CLIP:"} /\ means = <<"URC_COMING_CALL_IND", n>>
    <2>1. CASE line = UrcLine("RING", {}, 0, NoMeaning)
      BY <2>1
    <2>2. CASE \E h \in ring, n \in {1, 2} : line = CallLine(h, n)
      BY <2>2 DEF CallLine
    <2> QED
      BY <2>1, <2>2 DEF CallLines, Ringing
  <1>1. /\ line.head = head /\ line.val = n /\ line.means = means
        /\ line.head \in {"+CRING: VOICE", "RING", "+CLIP:"}
        /\ line.has = {line.head, "+CLIP:"} \/ line.has = {line.head, line.head}
        /\ \/ line.means = NoMeaning
           \/ /\ "+CLIP:" \in line.has
              /\ line.means = <<"URC_COMING_CALL_IND", line.val>>
    BY <1>0 DEF UrcLine
  <1>2. Chosen(line) \in {"none", line.head, "+CLIP:"}
    BY <1>1, ChosenIsThere
  <1>3. HandlerOf(Chosen(line)) \in {"none", "RING"} /\ HandlerOf(line.head) = "RING"
    BY <1>1, <1>2, Handlers DEF Ringing
  <1>4. CASE HandlerOf(Chosen(line)) = "none"
    BY <1>1, <1>3, <1>4, NobodysLine DEF UnaskedOutcome
  <1>5. CASE HandlerOf(Chosen(line)) = "RING"
    <2>1. OnURCHandler_Call(line)
      BY <1>5, Handled
    <2>2. CASE "+CLIP:" \in line.has
      <3>1. PostsRing(line)
        BY <1>1, <2>1, <2>2, Meanings DEF OnURCHandler_Call, Starts, Ringing, PostsRing
      <3> QED
        BY <3>1 DEF UnaskedOutcome
    <2>3. CASE "+CLIP:" \notin line.has
      <3>1. line.means = NoMeaning /\ line.head \notin CallStates
        BY <1>1, <2>3 DEF CallStates
      <3>2. Ignores(line)
        BY <2>1, <2>3, <3>1, Meanings
           DEF OnURCHandler_Call, Starts, Ignores, OnlyPosts, CachesStay
      <3> QED
        BY <3>2 DEF UnaskedOutcome
    <2> QED
      BY <2>2, <2>3
  <1> QED
    BY <1>3, <1>4, <1>5

LEMMA SimpleLines ==
    ASSUME NEW line, OnURCHandler(line), line.has = {line.head, line.head},
           line.head # "unknown", HandlerOf(line.head) # "none"
    PROVE  \/ PostsPlain(line)
           \/ HandlerOf(Chosen(line)) = HandlerOf(line.head)
  <1>1. Chosen(line) \in {"none", line.head}
    BY ChosenIsThere
  <1>2. CASE Chosen(line) = "none"
    BY <1>2, NobodysLine, Handlers
  <1> QED
    BY <1>1, <1>2

LEMMA TellsLine ==
    ASSUME NEW head, NEW id, NEW vals, NEW line \in Tells(head, id, vals)
    PROVE  /\ line.head = head /\ line.has = {head, head}
           /\ line.val \in vals /\ line.means = <<id, line.val>>
  BY DEF Tells, UrcLine

LEMMA StatesLine ==
    ASSUME NEW heads, NEW id, NEW line \in States(heads, id)
    PROVE  /\ line.head \in heads /\ line.has = {line.head, line.head}
           /\ line.means = <<id, line.head>>
  BY DEF States, UrcLine

LEMMA PlainHandled ==
    ASSUME NEW line \in PlainLines, OnURCHandler(line)
    PROVE  UnaskedOutcome(line)
  <1>1. CASE line \in CallLines
    BY <1>1, CallLineHandled
  <1>2. CASE line \in States(CallStates, "URC_CALL_STATE_IND")
    <2>1. /\ line.head \in CallStates /\ line.has = {line.head, line.head}
          /\ line.means = <<"URC_CALL_STATE_IND", line.head>>
      BY <1>2, StatesLine
    <2>2. HandlerOf(line.head) = "RING" /\ line.head # "unknown"
      BY <2>1, Handlers DEF CallStates
    <2>3. CASE HandlerOf(Chosen(line)) = "RING"
      <3>1. OnURCHandler_Call(line)
        BY <2>3, Handled
      <3> QED
        BY <2>1, <3>1, Meanings
           DEF OnURCHandler_Call, Starts, CallStates, Ringing, OnlyPosts, CachesStay, PostsPlain, Cached, UnaskedOutcome
    <2> QED
      BY <2>1, <2>2, <2>3, SimpleLines DEF UnaskedOutcome
  <1>3. CASE line \in Tells("+CMTI:", "URC_NEW_SMS_IND", {1})
    <2>1. /\ line.head = "+CMTI:" /\ line.has = {line.head, line.head}
          /\ line.means = <<"URC_NEW_SMS_IND", line.val>>
      BY <1>3, TellsLine
    <2>2. HandlerOf(line.head) = "+CMTI:" /\ line.head # "unknown"
      BY <2>1, Handlers
    <2>3. CASE HandlerOf(Chosen(line)) = "+CMTI:"
      <3>1. OnURCHandler_SMS(line)
        BY <2>3, Handled
      <3> QED
        BY <2>1, <3>1, Meanings
           DEF OnURCHandler_SMS, Starts, PostsPlain, Cached, UnaskedOutcome
    <2> QED
      BY <2>1, <2>2, <2>3, SimpleLines DEF UnaskedOutcome
  <1>4. CASE line \in Tells("+CREG:", "URC_GSM_NW_STATE_IND", {1})
    <2>1. /\ line.head = "+CREG:" /\ line.has = {line.head, line.head}
          /\ line.means = <<"URC_GSM_NW_STATE_IND", line.val>>
      BY <1>4, TellsLine
    <2>2. HandlerOf(line.head) = "+CREG:" /\ line.head # "unknown"
      BY <2>1, Handlers DEF Networks
    <2>3. CASE HandlerOf(Chosen(line)) = "+CREG:"
      <3>1. OnURCHandler_Network(line)
        BY <2>3, Handled
      <3> QED
        BY <2>1, <3>1, Meanings
           DEF OnURCHandler_Network, Starts, PostsPlain, Cached, UnaskedOutcome
    <2> QED
      BY <2>1, <2>2, <2>3, SimpleLines DEF UnaskedOutcome
  <1>5. CASE line \in Tells("+CGREG:", "URC_GPRS_NW_STATE_IND", {1})
    <2>1. /\ line.head = "+CGREG:" /\ line.has = {line.head, line.head}
          /\ line.means = <<"URC_GPRS_NW_STATE_IND", line.val>>
      BY <1>5, TellsLine
    <2>2. HandlerOf(line.head) = "+CREG:" /\ line.head # "unknown"
      BY <2>1, Handlers DEF Networks
    <2>3. CASE HandlerOf(Chosen(line)) = "+CREG:"
      <3>1. OnURCHandler_Network(line)
        BY <2>3, Handled
      <3> QED
        BY <2>1, <3>1, Meanings
           DEF OnURCHandler_Network, Starts, PostsPlain, Cached, UnaskedOutcome
    <2> QED
      BY <2>1, <2>2, <2>3, SimpleLines DEF UnaskedOutcome
  <1>6. CASE line \in Tells("+CPIN:", "URC_SIM_CARD_STATE_IND", {1})
    <2>1. /\ line.head = "+CPIN:" /\ line.has = {line.head, line.head}
          /\ line.means = <<"URC_SIM_CARD_STATE_IND", line.val>>
      BY <1>6, TellsLine
    <2>2. HandlerOf(line.head) = "+CPIN:" /\ line.head # "unknown"
      BY <2>1, Handlers
    <2>3. CASE HandlerOf(Chosen(line)) = "+CPIN:"
      <3>1. OnURCHandler_SIM(line)
        BY <2>3, Handled
      <3> QED
        BY <2>1, <3>1, Meanings
           DEF OnURCHandler_SIM, Starts, PostsPlain, Cached, UnaskedOutcome
    <2> QED
      BY <2>1, <2>2, <2>3, SimpleLines DEF UnaskedOutcome
  <1>7. CASE line \in Tells("+CFUN:", "URC_CFUN_STATE_IND", {1})
    <2>1. /\ line.head = "+CFUN:" /\ line.has = {line.head, line.head}
          /\ line.means = <<"URC_CFUN_STATE_IND", line.val>>
      BY <1>7, TellsLine
    <2>2. HandlerOf(line.head) = "+CFUN:" /\ line.head # "unknown"
      BY <2>1, Handlers
    <2>3. CASE HandlerOf(Chosen(line)) = "+CFUN:"
      <3>1. OnURCHandler_CFUN(line)
        BY <2>3, Handled
      <3> QED
        BY <2>1, <3>1, Meanings
           DEF OnURCHandler_CFUN, Starts, PostsPlain, Cached, UnaskedOutcome
    <2> QED
      BY <2>1, <2>2, <2>3, SimpleLines DEF UnaskedOutcome
  <1>8. CASE line \in States(Voltages, "URC_MODULE_VOLTAGE_IND")
    <2>1. /\ line.head \in Voltages /\ line.has = {line.head, line.head}
          /\ line.means = <<"URC_MODULE_VOLTAGE_IND", line.head>>
      BY <1>8, StatesLine
    <2>2. HandlerOf(line.head) = "UNDER_VOLTAGE WARNING" /\ line.head # "unknown"
      BY <2>1, Handlers DEF Voltages
    <2>3. CASE HandlerOf(Chosen(line)) = "UNDER_VOLTAGE WARNING"
      <3>1. OnURCHandler_Voltage(line)
        BY <2>3, Handled
      <3> QED
        BY <2>1, <3>1, Meanings
           DEF OnURCHandler_Voltage, Starts, PostsPlain, Cached, UnaskedOutcome
    <2> QED
      BY <2>1, <2>2, <2>3, SimpleLines DEF UnaskedOutcome
  <1>9. CASE line \in States(InitStates, "URC_SYS_INIT_STATE_IND")
    <2>1. /\ line.head \in InitStates /\ line.has = {line.head, line.head}
          /\ line.means = <<"URC_SYS_INIT_STATE_IND", line.head>>
      BY <1>9, StatesLine
    <2>2. HandlerOf(line.head) = "Call Ready" /\ line.head # "unknown"
      BY <2>1, Handlers DEF InitStates
    <2>3. CASE HandlerOf(Chosen(line)) = "Call Ready"
      <3>1. OnURCHandler_InitStat(line)
        BY <2>3, Handled
      <3> QED
        BY <2>1, <3>1, Meanings
           DEF OnURCHandler_InitStat, InitStates, PostsPlain, Cached, UnaskedOutcome
    <2> QED
      BY <2>1, <2>2, <2>3, SimpleLines DEF UnaskedOutcome
  <1>10. CASE \E h \in Alarms : line = UrcLine(h, {}, 0, <<"URC_ALARM_RING_IND", 0>>)
    <2>1. /\ line.head \in Alarms /\ line.has = {line.head, line.head}
          /\ line.means = <<"URC_ALARM_RING_IND", 0>>
      BY <1>10 DEF UrcLine
    <2>2. HandlerOf(line.head) = "ALARM RING" /\ line.head # "unknown"
      BY <2>1, Handlers DEF Alarms
    <2>3. CASE HandlerOf(Chosen(line)) = "ALARM RING"
      <3>1. OnURCHandler_AlarmRing(line)
        BY <2>3, Handled
      <3> QED
        BY <2>1, <3>1, Meanings
           DEF OnURCHandler_AlarmRing, PostsPlain, Cached, UnaskedOutcome
    <2> QED
      BY <2>1, <2>2, <2>3, SimpleLines DEF UnaskedOutcome
  <1>11. CASE line = UrcLine("unknown", {}, 0, <<"URC_END", 0>>)
    <2>1. /\ line.head = "unknown" /\ line.has = {line.head, line.head}
          /\ line.means = <<"URC_END", 0>>
      BY <1>11 DEF UrcLine
    <2>2. HandlerOf(Chosen(line)) = "none"
      <3>1. Chosen(line) \in {"none", "unknown"}
        BY <2>1, ChosenIsThere
      <3>2. HandlerOf(Chosen(line)) = Chosen(line)
        BY <3>1, Handlers
      <3> QED
        BY <3>1, <3>2, Handled
    <2> QED
      BY <2>1, <2>2, NobodysLine DEF UnaskedOutcome
  <1> QED
    BY <1>1, <1>2, <1>3, <1>4, <1>5, <1>6, <1>7, <1>8, <1>9, <1>10, <1>11 DEF PlainLines

LEMMA UssdLineFields ==
    ASSUME NEW text, NEW has
    PROVE  /\ UssdLine(text, has).head = "+CUSD:"
           /\ UssdLine(text, has).has = {"+CUSD:"} \cup has
           /\ UssdLine(text, has).val = <<text, 15>>
           /\ UssdLine(text, has).means = <<"URC_USSD_RECV_IND", <<text, 15>>>>
  BY DEF UssdLine, UrcLine

LEMMA UssdHandled ==
    ASSUME NEW line \in UssdLines, OnURCHandler(line)
    PROVE  UnaskedOutcome(line)
  <1> DEFINE read(text) == /\ line.val = <<text, 15>>
                           /\ line.means = <<"URC_USSD_RECV_IND", <<text, 15>>>>
             noText == /\ line.val = <<"no text">>
                       /\ line.means = <<"URC_USSD_RECV_IND", <<"no text", -1>>>>
  <1>1. \/ \E t \in {"t"} \cup UssdCut : line = UssdLine(t, {})
        \/ line = UssdLine("t", {"+QMTRECV:"}) \/ line = UssdLine("t", {"ALARM RING"})
        \/ line = UrcLine("+CUSD:", {}, <<"no text">>,
                          <<"URC_USSD_RECV_IND", <<"no text", -1>>>>)
    BY DEF UssdLines
  <1>2. /\ line.head = "+CUSD:"
        /\ \E inside \in {"+CUSD:", "+QMTRECV:", "ALARM RING"} : line.has = {"+CUSD:", inside}
        /\ noText \/ \E text \in {"t"} \cup UssdCut : read(text)
    <2>1. CASE \E t \in {"t"} \cup UssdCut : line = UssdLine(t, {})
      <3>1. PICK t \in {"t"} \cup UssdCut : line = UssdLine(t, {})
        BY <2>1
      <3>2. line.head = "+CUSD:" /\ line.has = {"+CUSD:"} \cup {} /\ read(t)
        BY <3>1, UssdLineFields
      <3>3. line.has = {"+CUSD:", "+CUSD:"}
        BY <3>2
      <3> QED
        BY <3>2, <3>3
    <2>2. ASSUME NEW k \in {"+QMTRECV:", "ALARM RING"}, line = UssdLine("t", {k})
          PROVE  <1>2
      <3>1. line.head = "+CUSD:" /\ line.has = {"+CUSD:"} \cup {k} /\ read("t")
        BY <2>2, UssdLineFields
      <3>2. line.has = {"+CUSD:", k}
        BY <3>1
      <3> QED
        BY <3>1, <3>2
    <2>3. CASE line = UrcLine("+CUSD:", {}, <<"no text">>,
                              <<"URC_USSD_RECV_IND", <<"no text", -1>>>>)
      <3>1. line.head = "+CUSD:" /\ line.has = {"+CUSD:"} \cup {} /\ noText
        BY <2>3 DEF UrcLine
      <3>2. line.has = {"+CUSD:", "+CUSD:"}
        BY <3>1
      <3> QED
        BY <3>1, <3>2
    <2> QED
      BY <1>1, <2>1, <2>2, <2>3
  <1>3. Chosen(line) \in {"none", "+CUSD:", "+QMTRECV:", "ALARM RING"}
    BY <1>2, ChosenIsThere
  <1>4. /\ HandlerOf(Chosen(line)) = Chosen(line) /\ HandlerOf(line.head) = "+CUSD:"
    BY <1>2, <1>3, Handlers DEF Alarms
  <1>5. CASE Chosen(line) = "none"
    BY <1>2, <1>4, <1>5, NobodysLine DEF UnaskedOutcome
  <1>6. CASE Chosen(line) = "+CUSD:"
    <2>1. OnURCHandler_USSD(line)
      BY <1>4, <1>6, Handled
    <2>2. CASE noText
      <3>1. g_ussd' = <<line.val[1], -1>>
        BY <1>2, <2>1, <2>2 DEF OnURCHandler_USSD, Starts
      <3>2. <<"no text">>[1] = "no text"
        OBVIOUS
      <3>3. g_ussd' = <<"no text", -1>>
        BY <2>2, <3>1, <3>2
      <3> QED
        BY <2>1, <2>2, <3>3, Meanings DEF OnURCHandler_USSD, PostsUssd, UnaskedOutcome
    <2>3. ASSUME NEW text \in {"t"} \cup UssdCut, read(text)
          PROVE  UnaskedOutcome(line)
      <3>1. <<text, 15>> # <<"no text">> /\ <<text, 15>>[1] = text
        OBVIOUS
      <3>2. line.val # <<"no text">> /\ line.val[1] = text /\ "t" \notin UssdCut
        BY <2>3, <3>1 DEF UssdCut
      <3>3. CASE text \in UssdCut
        <4>1. Meaning(line) = NoMeaning
          BY <1>2, <3>2, <3>3 DEF Meaning
        <4> QED
          BY <2>1, <4>1 DEF OnURCHandler_USSD, PostsUssd, UnaskedOutcome
      <3>4. CASE text \notin UssdCut
        <4>1. line.val # <<"huge", 15>> /\ line.means = <<"URC_USSD_RECV_IND", line.val>>
          <5>1. <<text, 15>> # <<"huge", 15>>
            BY <3>4 DEF UssdCut
          <5> QED
            BY <2>3, <5>1
        <4>2. g_ussd' = line.val
          BY <1>2, <2>1, <3>2, <3>4, <4>1 DEF OnURCHandler_USSD, Starts
        <4> QED
          BY <2>1, <4>1, <4>2, Meanings DEF OnURCHandler_USSD, PostsUssd, UnaskedOutcome
      <3> QED
        BY <3>3, <3>4
    <2> QED
      BY <1>2, <2>2, <2>3
  <1>7. CASE Chosen(line) \in {"+QMTRECV:", "ALARM RING"}
    <2>1. Meaning(line) = NoMeaning
      BY <1>2, <1>4, <1>7, Meanings
    <2>2. CASE Chosen(line) = "+QMTRECV:"
      <3>1. OnURCHandler_MQTT(line)
        BY <1>4, <2>2, Handled
      <3> QED
        BY <2>1, <3>1 DEF OnURCHandler_MQTT, Ignored, Ignores, OnlyPosts, CachesStay,
                          PostsMqtt, UnaskedOutcome
    <2>3. CASE Chosen(line) = "ALARM RING"
      <3>1. OnURCHandler_AlarmRing(line)
        BY <1>4, <2>3, Handled
      <3> QED
        BY <2>1, <3>1 DEF OnURCHandler_AlarmRing, PostsPlain, Cached, UnaskedOutcome
    <2> QED
      BY <1>7, <2>2, <2>3
  <1> QED
    BY <1>3, <1>5, <1>6, <1>7

LEMMA MqttLineFields ==
    ASSUME NEW payload, NEW has
    PROVE  /\ MqttLine(payload, has).head = "+QMTRECV:"
           /\ MqttLine(payload, has).has = {"+QMTRECV:"} \cup has
           /\ MqttLine(payload, has).val = <<"topic", payload>>
           /\ MqttLine(payload, has).means = <<"URC_MQTT_RECV_IND", <<"topic", payload>>>>
  BY DEF MqttLine, UrcLine

LEMMA MqttHandled ==
    ASSUME NEW line \in MqttLines, OnURCHandler(line)
    PROVE  UnaskedOutcome(line)
  <1> DEFINE keywords == {"+QMTRECV:", "+CUSD:", "+CMTI:", "+CFUN:", "+QHTTPDL:"}
  <1>1. PICK payload, has : /\ line = MqttLine(payload, has)
                            /\ has = {} \/ \E k \in keywords : has = {k}
    BY DEF MqttLines
  <1>2. /\ line.head = "+QMTRECV:" /\ line.has = {"+QMTRECV:"} \cup has
        /\ line.val = <<"topic", payload>>
        /\ line.means = <<"URC_MQTT_RECV_IND", <<"topic", payload>>>>
    BY <1>1, MqttLineFields
  <1>0. PICK inside \in keywords : line.has = {"+QMTRECV:", inside}
    <2>1. CASE has = {}
      <3>1. line.has = {"+QMTRECV:", "+QMTRECV:"}
        BY <1>2, <2>1
      <3> QED
        BY <3>1
    <2>2. ASSUME NEW k \in keywords, has = {k}
          PROVE  \E inside \in keywords : line.has = {"+QMTRECV:", inside}
      <3>1. line.has = {"+QMTRECV:", k}
        BY <1>2, <2>2
      <3> QED
        BY <3>1
    <2> QED
      BY <1>1, <2>1, <2>2
  <1>3. Chosen(line) \in {"none"} \cup keywords
    BY <1>0, ChosenIsThere
  <1>4. HandlerOf(Chosen(line)) = Chosen(line) /\ HandlerOf(line.head) = "+QMTRECV:"
    BY <1>2, <1>3, Handlers
  <1>5. CASE Chosen(line) = "none"
    BY <1>2, <1>4, <1>5, NobodysLine DEF UnaskedOutcome
  <1>6. CASE Chosen(line) = "+QMTRECV:"
    <2>1. OnURCHandler_MQTT(line)
      BY <1>4, <1>6, Handled
    <2>0. line.val[2] = payload
      <3>1. <<"topic", payload>>[2] = payload
        OBVIOUS
      <3> QED
        BY <1>2, <3>1
    <2>2. CASE payload = "no quotes"
      <3>1. line.val[2] = "no quotes" /\ Meaning(line) = NoMeaning
        BY <1>2, <2>0, <2>2 DEF Meaning
      <3> QED
        BY <2>1, <3>1 DEF OnURCHandler_MQTT, Ignored, Ignores, OnlyPosts, CachesStay,
                          UnaskedOutcome
    <2>3. CASE payload # "no quotes"
      <3>1. line.val[2] # "no quotes"
        BY <2>0, <2>3
      <3> QED
        BY <1>2, <2>1, <3>1, Meanings DEF OnURCHandler_MQTT, PostsMqtt, UnaskedOutcome
    <2> QED
      BY <2>2, <2>3
  <1>7. CASE Chosen(line) \in keywords \ {"+QMTRECV:"}
    <2>1. Meaning(line) = NoMeaning
      BY <1>2, <1>4, <1>7, Meanings
    <2>2. CASE Chosen(line) = "+CUSD:"
      <3>1. OnURCHandler_USSD(line)
        BY <1>4, <2>2, Handled
      <3> QED
        BY <2>1, <3>1 DEF OnURCHandler_USSD, PostsUssd, UnaskedOutcome
    <2>3. CASE Chosen(line) = "+CMTI:"
      <3>1. OnURCHandler_SMS(line)
        BY <1>4, <2>3, Handled
      <3> QED
        BY <1>2, <2>1, <3>1 DEF OnURCHandler_SMS, Starts, Ignores, UnaskedOutcome
    <2>4. CASE Chosen(line) = "+CFUN:"
      <3>1. OnURCHandler_CFUN(line)
        BY <1>4, <2>4, Handled
      <3> QED
        BY <2>1, <3>1 DEF OnURCHandler_CFUN, PostsPlain, Cached, UnaskedOutcome
    <2>5. CASE Chosen(line) = "+QHTTPDL:"
      <3>1. OnURCHandler_HTTP(line)
        BY <1>4, <2>5, Handled
      <3>2. CallsFunction(line, "+QHTTPDL:")
        BY <2>1, <3>1 DEF OnURCHandler_HTTP, CallsOnce, CallsFunction, Once
      <3> QED
        BY <1>4, <2>1, <2>5, <3>2 DEF CallsByMistake, UnaskedOutcome
    <2> QED
      BY <1>7, <2>2, <2>3, <2>4, <2>5
  <1> QED
    BY <1>3, <1>5, <1>6, <1>7

\* The result of a request goes to the function for its kind.
LEMMA ResultHandled ==
    ASSUME NEW kind \in Requests, NEW told \in ResultLines(kind), NEW number,
           OnURCHandler([told EXCEPT !.number = number]), urcInside = "none"
    PROVE  LET line == [told EXCEPT !.number = number] IN
           /\ line.number = number
           /\ Ignores(line) \/ PostsPlain(line) \/ CallsFunction(line, kind)
  <1> DEFINE line == [told EXCEPT !.number = number]
  <1>1. PICK head, val, means : told = UrcLine(head, {}, val, means)
    BY DEF ResultLines, Tells
  <1>2. /\ line.head = told.head /\ line.has = told.has /\ line.val = told.val
        /\ line.means = told.means /\ line.number = number
        /\ line.has = {line.head, line.head}
    BY <1>1 DEF UrcLine
  <1> HIDE DEF line
  <1>3. CASE kind = "sound"
    <2>1. line.head \in Sounds /\ line.means = <<kind, line.val>>
      BY <1>2, <1>3 DEF ResultLines, UrcLine, FtpFiles
    <2>2. HandlerOf(line.head) = "sound" /\ line.head # "unknown"
      BY <2>1, Handlers DEF Sounds
    <2>3. CASE HandlerOf(Chosen(line)) = "sound"
      <3>1. OnURCHandler_AudPlayInd(line)
        BY <2>3, Handled DEF line
      <3> QED
        BY <1>2, <1>3, <2>1, <3>1, Meanings
           DEF OnURCHandler_AudPlayInd, CallsAgain, OnlyPosts, CallsFunction, Once, line
    <2> QED
      BY <1>2, <2>2, <2>3, SimpleLines DEF line
  <1>4. CASE kind = "+QHTTPDL:"
    <2>1. line.head = kind /\ line.means = <<kind, line.val>>
      BY <1>2, <1>4 DEF ResultLines, FtpFiles, Tells, UrcLine
    <2>2. HandlerOf(line.head) = kind /\ line.head # "unknown"
      BY <1>4, <2>1, Handlers
    <2>3. CASE HandlerOf(Chosen(line)) = kind
      <3>1. OnURCHandler_HTTP(line)
        BY <1>4, <2>3, Handled DEF line
      <3> QED
        BY <1>2, <1>4, <2>1, <3>1, Meanings
           DEF OnURCHandler_HTTP, CallsOnce, Starts, CallsFunction, Once, line
    <2> QED
      BY <1>2, <1>4, <2>2, <2>3, SimpleLines DEF line
  <1>5. CASE kind \in FtpFiles
    <2>1. /\ line.head = kind
          /\ line.means = <<kind, <<IF line.val < 0 THEN 0 ELSE 1, line.val>>>>
      <3>1. PICK n \in {-1, 1} :
                told = UrcLine(kind, {}, n, <<kind, <<IF n < 0 THEN 0 ELSE 1, n>>>>)
        BY <1>5 DEF ResultLines, FtpFiles
      <3> QED
        BY <1>2, <3>1 DEF UrcLine
    <2>2. HandlerOf(line.head) = "+QFTPGET:" /\ line.head # "unknown"
      BY <1>5, <2>1, Handlers DEF FtpFiles
    <2>3. CASE HandlerOf(Chosen(line)) = "+QFTPGET:"
      <3>1. OnURCHandler_FTP(line)
        BY <2>3, Handled DEF line
      <3> QED
        BY <1>2, <1>5, <2>1, <3>1, Meanings
           DEF OnURCHandler_FTP, CallsOnce, CallsFunction, Once, FtpFiles, line
    <2> QED
      BY <1>2, <2>2, <2>3, SimpleLines DEF line
  <1>6. CASE kind \in Lasting
    <2>1. line.head = kind /\ line.means = <<kind, line.val>>
      BY <1>2, <1>6 DEF ResultLines, FtpFiles, Tells, UrcLine, Lasting
    <2>2. HandlerOf(line.head) = kind /\ line.head \notin {"unknown", "none"} /\ kind \notin Once
      BY <1>6, <2>1, Handlers DEF Lasting, Once
    <2>3. CASE HandlerOf(Chosen(line)) = kind
      <3>1. CallsAgain(kind, line.val, line)
        BY <1>6, <2>3, Handled
           DEF Lasting, OnURCHandler_QCELLLocation, OnURCHandler_NTPCMD, OnURCHandler_GPSCMD,
               OnURCHandler_QWDTMF, line
      <3> QED
        BY <1>2, <2>1, <2>2, <3>1, Meanings
           DEF CallsAgain, OnlyPosts, CallsFunction, line
    <2> QED
      BY <1>2, <2>1, <2>2, <2>3, SimpleLines DEF line
  <1>7. CASE kind = "+QTONEDET:"
    <2>1. PICK code \in {47, 48, 69} :
              /\ line.head = kind /\ line.val = <<code, 9>>
              /\ line.means = IF code \notin 48 .. 70 THEN NoMeaning
                              ELSE <<kind, <<code, IF code \in {69, 70} THEN 9 ELSE -1>>>>
      <3>1. PICK code \in {47, 48, 69} :
                told = UrcLine(kind, {}, <<code, 9>>,
                               IF code \notin 48 .. 70 THEN NoMeaning
                               ELSE <<kind, <<code, IF code \in {69, 70} THEN 9 ELSE -1>>>>)
        BY <1>7 DEF ResultLines, FtpFiles
      <3> QED
        BY <1>2, <3>1 DEF UrcLine
    <2>2. HandlerOf(line.head) = kind /\ line.head # "unknown" /\ kind \notin Once
      BY <1>7, <2>1, Handlers DEF Once
    <2>3. CASE HandlerOf(Chosen(line)) = kind
      <3>1. OnURCHandler_QToneDet(line)
        BY <1>7, <2>3, Handled DEF line
      <3>2. line.val[1] = code /\ line.val[2] = 9
        <4>1. <<code, 9>>[1] = code /\ <<code, 9>>[2] = 9
          OBVIOUS
        <4> QED
          BY <2>1, <4>1
      <3>3. Meaning(line) \in {NoMeaning, line.means}
        BY Meanings
      <3>4. CASE code \notin 48 .. 70
        <4>1. Meaning(line) = NoMeaning
          BY <2>1, <3>3, <3>4
        <4>2. Ignores(line) \/ \E given : CallsAgain(kind, given, line)
          BY <1>7, <3>1, <3>2, <4>1 DEF OnURCHandler_QToneDet, Ignores
        <4> QED
          BY <1>2, <2>2, <4>1, <4>2 DEF CallsAgain, OnlyPosts, CallsFunction, line
      <3>5. CASE code \in 48 .. 70
        <4>1. CallsAgain(kind, <<code, IF code \in {69, 70} THEN 9 ELSE -1>>, line)
          BY <1>7, <3>1, <3>2, <3>5 DEF OnURCHandler_QToneDet
        <4> QED
          BY <1>2, <2>1, <2>2, <3>3, <3>5, <4>1 DEF CallsAgain, OnlyPosts, CallsFunction, line
      <3> QED
        BY <3>4, <3>5
    <2> QED
      BY <1>2, <1>7, <2>2, <2>3, SimpleLines DEF line
  <1> QED
    BY <1>3, <1>4, <1>5, <1>6, <1>7 DEF Requests, Once, FtpFiles, Streams

-----------------------------------------------------------------------------
(* The messages that wait.                                                 *)

\* While a message can be trusted, what it points to is what its line said: the
\* slot of a call is as many behind ringCnt as calls came after it.
MessageOK(m, ring, calls, topic, text) ==
    /\ m = [id |-> m.id, arg |-> m.arg, means |-> m.means, later |-> m.later]
    /\ m.later \in Nat
    /\ m.id = "URC_COMING_CALL_IND" =>
        /\ m.arg \in 0 .. CallSlots - 1
        /\ m.later < CallSlots =>
            /\ m.arg + m.later = ring \/ m.arg + m.later = ring + CallSlots
            /\ m.means \in {NoMeaning, <<m.id, calls[m.arg]>>}
    /\ m.id = "URC_MQTT_RECV_IND" /\ m.later = 0 => m.means \in {NoMeaning, <<m.id, topic>>}
    /\ m.id = "URC_USSD_RECV_IND" /\ m.later = 0 => m.means \in {NoMeaning, <<m.id, text>>}
    /\ m.id \notin Cached => m.means \in {NoMeaning, <<m.id, m.arg>>}

UrcQueueOK ==
    /\ \E S : urcQueue \in Seq(S)
    /\ comingCall = [i \in 0 .. CallSlots - 1 |-> comingCall[i]]
    /\ \A i \in DOMAIN urcQueue :
            MessageOK(urcQueue[i], ringCnt, comingCall, g_mqtt, g_ussd)

Slots == 0 .. CallSlots - 1

LEMMA NextSlotIs ==
    ASSUME ringCnt \in Slots
    PROVE  /\ NextSlot \in Slots
           /\ NextSlot = IF ringCnt = CallSlots - 1 THEN 0 ELSE ringCnt + 1
  <1>1. CallSlots \in Nat /\ CallSlots > 0 /\ ringCnt \in 0 .. CallSlots - 1
    BY UrcAssumption DEF Slots
  <1>2. CASE ringCnt = CallSlots - 1
    <2>1. ringCnt + 1 = CallSlots /\ CallSlots % CallSlots = 0
      BY <1>1, <1>2
    <2> QED
      BY <1>1, <1>2, <2>1 DEF NextSlot, Slots
  <1>3. CASE ringCnt # CallSlots - 1
    <2>1. ringCnt + 1 \in 0 .. CallSlots - 1
      BY <1>1, <1>3
    <2>2. (ringCnt + 1) % CallSlots = ringCnt + 1
      BY <1>1, <2>1
    <2> QED
      BY <1>3, <2>1, <2>2 DEF NextSlot, Slots
  <1> QED
    BY <1>2, <1>3

\* The message when another one is posted.
Followed(m, id) == IF m.id = id THEN [m EXCEPT !.later = @ + 1] ELSE m

\* What is in the queue once a message was posted.
LEMMA PostedIs ==
    ASSUME NEW id, NEW arg, NEW line, UrcQueueOK, Len(urcQueue) <= UrcQueueCap,
           Posted(id, arg, line)
    PROVE  /\ \E S : urcQueue' \in Seq(S)
           /\ Len(urcQueue') <= UrcQueueCap
           /\ urcSeen' = Silence
           /\ \A i \in DOMAIN urcQueue' :
                \/ i \in DOMAIN urcQueue /\ urcQueue'[i] = Followed(urcQueue[i], id)
                \/ urcQueue'[i] = [id |-> id, arg |-> arg, means |-> Meaning(line), later |-> 0]
  <1> DEFINE waiting == [i \in DOMAIN urcQueue |->
                            IF urcQueue[i].id = id
                            THEN [urcQueue[i] EXCEPT !.later = @ + 1] ELSE urcQueue[i]]
             new == [id |-> id, arg |-> arg, means |-> Meaning(line), later |-> 0]
             S == {waiting[i] : i \in DOMAIN urcQueue} \cup {new}
             n == Len(urcQueue)
  <1>1. n \in Nat /\ DOMAIN urcQueue = 1 .. n
    BY LenProperties DEF UrcQueueOK
  <1>2. \A i \in 1 .. n : waiting[i] = Followed(urcQueue[i], id)
    BY <1>1 DEF Followed
  <1>3. waiting \in [1 .. n -> S] /\ new \in S
    BY <1>1
  <1>4. urcSeen' = Silence /\ urcQueue' = IF Len(waiting) < UrcQueueCap THEN Append(waiting, new)
                                          ELSE waiting
    BY DEF Posted
  <1> HIDE DEF S, waiting, new
  <1>5. waiting \in Seq(S) /\ Len(waiting) = n
    <2>1. Seq(S) = UNION {[1 .. k -> S] : k \in Nat}
      BY SeqDef
    <2>2. waiting \in Seq(S)
      BY <1>1, <1>3, <2>1
    <2>3. DOMAIN waiting = 1 .. n
      BY <1>3
    <2> QED
      BY <1>1, <2>2, <2>3, LenProperties
  <1>6. CASE Len(waiting) < UrcQueueCap
    <2>1. /\ urcQueue' \in Seq(S) /\ Len(urcQueue') = n + 1
          /\ \A i \in 1 .. n : urcQueue'[i] = waiting[i]
          /\ urcQueue'[n + 1] = new
      BY <1>3, <1>4, <1>5, <1>6, AppendProperties
    <2>2. DOMAIN urcQueue' = 1 .. n + 1
      BY <2>1, LenProperties
    <2>3. Len(urcQueue') <= UrcQueueCap
      BY <1>1, <1>5, <1>6, <2>1, UrcAssumption
    <2>4. \A i \in 1 .. n + 1 : i \in 1 .. n \/ i = n + 1
      BY <1>1
    <2>5. ASSUME NEW i \in DOMAIN urcQueue'
          PROVE  \/ i \in DOMAIN urcQueue /\ urcQueue'[i] = Followed(urcQueue[i], id)
                 \/ urcQueue'[i] = new
      BY <1>1, <1>2, <2>1, <2>2, <2>4
    <2> QED
      BY <1>4, <2>1, <2>3, <2>5 DEF new
  <1>7. CASE ~(Len(waiting) < UrcQueueCap)
    <2>1. urcQueue' = waiting
      BY <1>4, <1>7
    <2> QED
      BY <1>1, <1>2, <1>3, <1>4, <1>5, <2>1
  <1> QED
    BY <1>6, <1>7

\* No message: the caches stay with the queue.
LEMMA QueueStays ==
    ASSUME UrcQueueOK, CachesStay, UNCHANGED urcQueue
    PROVE  UrcQueueOK'
  BY DEF UrcQueueOK, CachesStay

LEMMA PlainKeepsQueue ==
    ASSUME UrcQueueOK, Len(urcQueue) <= UrcQueueCap, NEW line, PostsPlain(line)
    PROVE  UrcQueueOK'
  <1>1. PICK id, arg : /\ id \notin Cached
                       /\ Posted(id, arg, line)
                       /\ Meaning(line) \in {NoMeaning, <<id, arg>>}
    BY DEF PostsPlain
  <1>2. UNCHANGED <<ringCnt, comingCall, g_mqtt, g_ussd>>
    BY DEF PostsPlain, OnlyPosts, CachesStay
  <1>3. /\ \E S : urcQueue' \in Seq(S)
        /\ \A i \in DOMAIN urcQueue' :
              \/ i \in DOMAIN urcQueue /\ urcQueue'[i] = Followed(urcQueue[i], id)
              \/ urcQueue'[i] = [id |-> id, arg |-> arg, means |-> Meaning(line), later |-> 0]
    BY <1>1, PostedIs
  <1>4. ASSUME NEW m, MessageOK(m, ringCnt, comingCall, g_mqtt, g_ussd)
        PROVE  MessageOK(Followed(m, id), ringCnt, comingCall, g_mqtt, g_ussd)
    BY <1>1, <1>4 DEF MessageOK, Followed, Cached
  <1>5. MessageOK([id |-> id, arg |-> arg, means |-> Meaning(line), later |-> 0],
                  ringCnt, comingCall, g_mqtt, g_ussd)
    BY <1>1 DEF MessageOK, Cached
  <1> QED
    BY <1>2, <1>3, <1>4, <1>5 DEF UrcQueueOK

LEMMA RingKeepsQueue ==
    ASSUME UrcQueueOK, Len(urcQueue) <= UrcQueueCap, ringCnt \in Slots,
           NEW line, PostsRing(line)
    PROVE  UrcQueueOK'
  <1> DEFINE id == "URC_COMING_CALL_IND"
  <1>1. /\ ringCnt' = NextSlot
        /\ comingCall' = [comingCall EXCEPT ![NextSlot] = line.val]
        /\ UNCHANGED <<g_mqtt, g_ussd>>
        /\ Posted(id, NextSlot, line)
        /\ Meaning(line) \in {NoMeaning, <<id, line.val>>}
    BY DEF PostsRing
  <1>2. /\ NextSlot \in Slots /\ CallSlots \in Nat \ {0}
        /\ NextSlot = IF ringCnt = CallSlots - 1 THEN 0 ELSE ringCnt + 1
    BY NextSlotIs, UrcAssumption
  <1>3. /\ \E S : urcQueue' \in Seq(S)
        /\ \A i \in DOMAIN urcQueue' :
              \/ i \in DOMAIN urcQueue /\ urcQueue'[i] = Followed(urcQueue[i], id)
              \/ urcQueue'[i] = [id |-> id, arg |-> NextSlot, means |-> Meaning(line), later |-> 0]
    BY <1>1, PostedIs
  <1>4. /\ comingCall' = [i \in Slots |-> comingCall'[i]]
        /\ comingCall'[NextSlot] = line.val
        /\ \A i \in Slots : i # NextSlot => comingCall'[i] = comingCall[i]
    BY <1>1, <1>2 DEF UrcQueueOK, Slots
  <1>5. ASSUME NEW m, MessageOK(m, ringCnt, comingCall, g_mqtt, g_ussd)
        PROVE  MessageOK(Followed(m, id), ringCnt', comingCall', g_mqtt, g_ussd)
    <2>1. CASE m.id # id
      BY <1>5, <2>1 DEF MessageOK, Followed
    <2>2. CASE m.id = id
      <3> DEFINE x == Followed(m, id)
      <3>1. /\ x = [id |-> id, arg |-> m.arg, means |-> m.means, later |-> m.later + 1]
            /\ m.arg \in Slots /\ m.later \in Nat
        BY <1>5, <2>2 DEF MessageOK, Followed, Slots
      <3>2. x.id = id /\ x.arg = m.arg /\ x.means = m.means /\ x.later = m.later + 1
        BY <3>1
      <3> HIDE DEF x
      <3>3. ASSUME x.later < CallSlots
            PROVE  /\ x.arg + x.later = ringCnt' \/ x.arg + x.later = ringCnt' + CallSlots
                   /\ x.means \in {NoMeaning, <<x.id, comingCall'[x.arg]>>}
        <4>1. m.later < CallSlots
          BY <3>1, <3>2, <3>3, <1>2
        <4>2. /\ m.arg + m.later = ringCnt \/ m.arg + m.later = ringCnt + CallSlots
              /\ m.means \in {NoMeaning, <<m.id, comingCall[m.arg]>>}
          BY <1>5, <2>2, <4>1 DEF MessageOK
        <4>3. m.arg # NextSlot
          BY <1>2, <3>1, <3>2, <3>3, <4>2 DEF Slots
        <4>4. comingCall'[m.arg] = comingCall[m.arg]
          BY <1>4, <3>1, <4>3
        <4>5. x.arg + x.later = ringCnt' \/ x.arg + x.later = ringCnt' + CallSlots
          <5>1. /\ m.arg \in 0 .. CallSlots - 1 /\ m.later \in Nat /\ m.later + 1 < CallSlots
                /\ ringCnt \in 0 .. CallSlots - 1 /\ CallSlots \in Nat
            BY <1>2, <3>1, <3>2, <3>3 DEF Slots
          <5>2. CASE ringCnt = CallSlots - 1
            <6>1. ringCnt' = 0
              BY <1>1, <1>2, <5>2
            <6> QED
              BY <3>2, <4>2, <5>1, <5>2, <6>1
          <5>3. CASE ringCnt # CallSlots - 1
            <6>1. ringCnt' = ringCnt + 1
              BY <1>1, <1>2, <5>3
            <6> QED
              BY <3>2, <4>2, <5>1, <5>3, <6>1
          <5> QED
            BY <5>2, <5>3
        <4> QED
          BY <2>2, <3>2, <4>2, <4>4, <4>5
      <3>4. x = [id |-> x.id, arg |-> x.arg, means |-> x.means, later |-> x.later]
        BY <3>1, <3>2 DEF x
      <3> QED
        BY <3>1, <3>2, <3>3, <3>4 DEF MessageOK, Cached, Slots, x
    <2> QED
      BY <2>1, <2>2
  <1>6. MessageOK([id |-> id, arg |-> NextSlot, means |-> Meaning(line), later |-> 0],
                  ringCnt', comingCall', g_mqtt, g_ussd)
    BY <1>1, <1>2, <1>4 DEF MessageOK, Cached, Slots
  <1> QED
    BY <1>1, <1>3, <1>4, <1>5, <1>6 DEF UrcQueueOK, Slots

LEMMA UssdKeepsQueue ==
    ASSUME UrcQueueOK, Len(urcQueue) <= UrcQueueCap, NEW line, PostsUssd(line)
    PROVE  UrcQueueOK'
  <1> DEFINE id == "URC_USSD_RECV_IND"
  <1>1. /\ UNCHANGED <<comingCall, ringCnt, g_mqtt>>
        /\ Posted(id, 0, line)
        /\ Meaning(line) \in {NoMeaning, <<id, g_ussd'>>}
    BY DEF PostsUssd
  <1>2. /\ \E S : urcQueue' \in Seq(S)
        /\ \A i \in DOMAIN urcQueue' :
              \/ i \in DOMAIN urcQueue /\ urcQueue'[i] = Followed(urcQueue[i], id)
              \/ urcQueue'[i] = [id |-> id, arg |-> 0, means |-> Meaning(line), later |-> 0]
    BY <1>1, PostedIs
  <1>3. ASSUME NEW m, MessageOK(m, ringCnt, comingCall, g_mqtt, g_ussd)
        PROVE  MessageOK(Followed(m, id), ringCnt, comingCall, g_mqtt, g_ussd')
    BY <1>3 DEF MessageOK, Followed, Cached
  <1>4. MessageOK([id |-> id, arg |-> 0, means |-> Meaning(line), later |-> 0],
                  ringCnt, comingCall, g_mqtt, g_ussd')
    BY <1>1 DEF MessageOK, Cached
  <1> QED
    BY <1>1, <1>2, <1>3, <1>4 DEF UrcQueueOK

LEMMA MqttKeepsQueue ==
    ASSUME UrcQueueOK, Len(urcQueue) <= UrcQueueCap, NEW line, PostsMqtt(line)
    PROVE  UrcQueueOK'
  <1> DEFINE id == "URC_MQTT_RECV_IND"
  <1>1. /\ UNCHANGED <<comingCall, ringCnt, g_ussd>>
        /\ Posted(id, 0, line)
        /\ Meaning(line) \in {NoMeaning, <<id, g_mqtt'>>}
    BY DEF PostsMqtt
  <1>2. /\ \E S : urcQueue' \in Seq(S)
        /\ \A i \in DOMAIN urcQueue' :
              \/ i \in DOMAIN urcQueue /\ urcQueue'[i] = Followed(urcQueue[i], id)
              \/ urcQueue'[i] = [id |-> id, arg |-> 0, means |-> Meaning(line), later |-> 0]
    BY <1>1, PostedIs
  <1>3. ASSUME NEW m, MessageOK(m, ringCnt, comingCall, g_mqtt, g_ussd)
        PROVE  MessageOK(Followed(m, id), ringCnt, comingCall, g_mqtt', g_ussd)
    BY <1>3 DEF MessageOK, Followed, Cached
  <1>4. MessageOK([id |-> id, arg |-> 0, means |-> Meaning(line), later |-> 0],
                  ringCnt, comingCall, g_mqtt', g_ussd)
    BY <1>1 DEF MessageOK, Cached
  <1> QED
    BY <1>1, <1>2, <1>3, <1>4 DEF UrcQueueOK

-----------------------------------------------------------------------------
(* The requests and their functions.                                       *)

\* A request that waits for its result has its function registered, unless
\* another one came in between, or it is a file of FTP whose command has not
\* returned or has failed.
OwedOK(owed) ==
    /\ owed \in [kind : Requests, number : 1 .. urcBegun]
    /\ owed.kind \in Streams => urcCallback[owed.kind] # 0
    /\ urcCommand.number = owed.number => urcCommand.kind = owed.kind
    /\ owed.kind \notin Streams \cup urcDisturbed =>
        /\ urcInside # owed.kind
        /\ TooEarly(owed) \/ urcCallback[owed.kind] = owed.number
        /\ urcCommand.kind = owed.kind => urcCommand.number = owed.number
        /\ \A other \in urcOwed : other.kind = owed.kind => other = owed

RequestsInv ==
    /\ \/ urcCommand = NoCommand
       \/ urcCommand \in [kind : Requests, number : 1 .. urcBegun, taken : BOOLEAN]
    /\ \A owed \in urcOwed : OwedOK(owed)

UrcInv == UrcTypeOK /\ UrcQueueOK /\ RequestsInv /\ UrcsAreTrue

LEMMA UrcBounds ==
    /\ CallSlots \in Nat /\ CallSlots > 0 /\ UrcQueueCap \in Nat /\ UrcQueueCap > 0
    /\ MaxUrcEvents \in Nat /\ MaxRequests \in Nat /\ MaxRequests <= MaxUrcEvents
  BY UrcAssumption

LEMMA SilenceIsTrue == ASSUME urcSeen' = Silence PROVE UrcsAreTrue'
  BY DEF UrcsAreTrue, Silence

LEMMA PostsSilently ==
    ASSUME UrcQueueOK, Len(urcQueue) <= UrcQueueCap, NEW line,
           PostsPlain(line) \/ PostsRing(line) \/ PostsUssd(line) \/ PostsMqtt(line)
    PROVE  /\ urcSeen' = Silence /\ Len(urcQueue') <= UrcQueueCap
           /\ urcInside' = urcInside
  <1>1. \E id, arg : Posted(id, arg, line)
    BY DEF PostsPlain, PostsRing, PostsUssd, PostsMqtt
  <1>2. urcInside' = urcInside
    BY DEF PostsPlain, PostsRing, PostsUssd, PostsMqtt, OnlyPosts
  <1> QED
    BY <1>1, <1>2, PostedIs

LEMMA IgnoresTruly == ASSUME NEW line, Ignores(line) PROVE UrcsAreTrue'
  BY DEF Ignores, Ignored, UrcsAreTrue

\* A call is true when its line has no meaning, or the function is the one that
\* was registered with the request.
LEMMA CallsTruly ==
    ASSUME NEW line, NEW kind \in Requests, CallsFunction(line, kind),
           \/ Meaning(line) = NoMeaning
           \/ kind \in urcDisturbed'
           \/ /\ urcCallback[kind] # 0
              /\ kind \in Once \cup Lasting => urcCallback[kind] = line.number
    PROVE  UrcsAreTrue'
  <1>1. PICK given : Calls(kind, given, line) /\ Meaning(line) \in {NoMeaning, <<kind, given>>}
    BY DEF CallsFunction
  <1>2. CASE Meaning(line) = NoMeaning
    BY <1>1, <1>2 DEF Calls, UrcsAreTrue
  <1>3. CASE Meaning(line) # NoMeaning
    <2>1. Meaning(line) = <<kind, given>> /\ <<kind, given>>[1] = kind
      BY <1>1, <1>3
    <2>2. CASE urcCallback[kind] = 0
      BY <1>1, <1>3, <2>2 DEF Calls, UrcsAreTrue
    <2>3. CASE urcCallback[kind] # 0
      <3>1. urcSeen' = [what |-> "called", is |-> <<kind, given>>, means |-> Meaning(line),
                        by |-> urcCallback[kind], number |-> line.number]
        BY <1>1, <2>3 DEF Calls
      <3>2. /\ urcSeen'.what = "called" /\ urcSeen'.is = urcSeen'.means
            /\ urcSeen'.is[1] = kind
            /\ urcSeen'.by = urcCallback[kind] /\ urcSeen'.number = line.number
        BY <2>1, <3>1
      <3> QED
        BY <1>3, <2>3, <3>2 DEF UrcsAreTrue
    <2> QED
      BY <2>2, <2>3
  <1> QED
    BY <1>2, <1>3

\* What the handler of a line leaves as it should be.
LEMMA OutcomeKeepsQueue ==
    ASSUME UrcTypeOK, UrcQueueOK, NEW line, NEW kind,
           \/ Ignores(line) \/ PostsPlain(line) \/ PostsRing(line)
           \/ PostsUssd(line) \/ PostsMqtt(line) \/ CallsFunction(line, kind)
    PROVE  /\ UrcQueueOK' /\ Len(urcQueue') <= UrcQueueCap
           /\ ringCnt' \in Slots /\ DOMAIN comingCall' = Slots
  <1>1. Len(urcQueue) <= UrcQueueCap /\ ringCnt \in Slots
    BY DEF UrcTypeOK, Slots
  <1>2. UrcQueueOK'
    <2>1. CASE Ignores(line)
      BY <2>1, QueueStays DEF Ignores, OnlyPosts, Ignored
    <2>2. CASE CallsFunction(line, kind)
      BY <2>2, QueueStays DEF CallsFunction
    <2> QED
      BY <1>1, <2>1, <2>2, PlainKeepsQueue, RingKeepsQueue, UssdKeepsQueue, MqttKeepsQueue
  <1>3. Len(urcQueue') <= UrcQueueCap
    BY <1>1, PostsSilently DEF Ignores, Ignored, CallsFunction
  <1>4. ringCnt' \in Slots
    <2>1. CASE PostsRing(line)
      BY <1>1, <2>1, NextSlotIs DEF PostsRing
    <2>2. CASE ~PostsRing(line)
      <3>1. ringCnt' = ringCnt
        BY <2>2 DEF Ignores, PostsPlain, PostsUssd, PostsMqtt, CallsFunction, OnlyPosts, CachesStay
      <3> QED
        BY <1>1, <3>1
    <2> QED
      BY <2>1, <2>2
  <1>5. DOMAIN comingCall' = Slots
    BY <1>2 DEF UrcQueueOK, Slots
  <1> QED
    BY <1>2, <1>3, <1>4, <1>5

\* A step that only adds to the events and the disturbed kinds.
LEMMA UnaskedKeeps ==
    ASSUME UrcInv, NEW line, UnaskedOutcome(line), urcInside = "none",
           urcBegun < MaxUrcEvents, urcBegun' = urcBegun + 1,
           urcDisturbed' = urcDisturbed \cup ({HandlerOf(Chosen(line))} \cap Requests),
           UNCHANGED <<urcCallback, urcCommand, urcOwed, urcRefused>>
    PROVE  UrcInv'
  <1>1. /\ UrcQueueOK' /\ Len(urcQueue') <= UrcQueueCap
        /\ ringCnt' \in Slots /\ DOMAIN comingCall' = Slots
    BY OutcomeKeepsQueue DEF UrcInv, UnaskedOutcome, CallsByMistake
  <1>2. /\ UrcsAreTrue'
        /\ \/ urcInside' = "none"
           \/ urcInside' = "+QHTTPDL:" /\ "+QHTTPDL:" \in urcDisturbed'
    <2>1. CASE Ignores(line)
      BY <2>1, IgnoresTruly DEF Ignores, OnlyPosts
    <2>2. CASE PostsPlain(line) \/ PostsRing(line) \/ PostsUssd(line) \/ PostsMqtt(line)
      BY <2>2, PostsSilently, SilenceIsTrue DEF UrcInv, UrcTypeOK
    <2>3. CASE CallsByMistake(line)
      <3>1. "+QHTTPDL:" \in Requests
        BY DEF Requests, Once
      <3>2. UrcsAreTrue'
        BY <2>3, <3>1, CallsTruly DEF CallsByMistake
      <3>3. urcInside' \in {"none", "+QHTTPDL:"} /\ "+QHTTPDL:" \in urcDisturbed'
        BY <2>3, <3>1 DEF CallsByMistake, CallsFunction
      <3> QED
        BY <3>2, <3>3
    <2> QED
      BY <2>1, <2>2, <2>3 DEF UnaskedOutcome
  <1>3. UrcTypeOK'
    <2>1. /\ urcCallback' \in [Requests -> 0 .. MaxUrcEvents]
          /\ \A owed \in urcOwed' : owed.kind \in Requests
          /\ urcRefused' \subseteq 1 .. MaxUrcEvents
      BY DEF UrcInv, UrcTypeOK
    <2>2. urcDisturbed' \subseteq Requests
      BY DEF UrcInv, UrcTypeOK
    <2>3. urcBegun' \in 0 .. MaxUrcEvents
      BY UrcBounds DEF UrcInv, UrcTypeOK
    <2>4. urcInside' \in Once \cup {"none"}
      BY <1>2 DEF Once
    <2> QED
      BY <1>1, <2>1, <2>2, <2>3, <2>4 DEF UrcTypeOK, Slots
  <1>4. 1 .. urcBegun \subseteq 1 .. urcBegun'
    BY UrcBounds DEF UrcInv, UrcTypeOK
  <1>5. RequestsInv'
    <2>1. \/ urcCommand' = NoCommand
          \/ urcCommand' \in [kind : Requests, number : 1 .. urcBegun', taken : BOOLEAN]
      BY <1>4 DEF UrcInv, RequestsInv
    <2>2. ASSUME NEW owed \in urcOwed'
          PROVE  OwedOK(owed)'
      <3>1. OwedOK(owed) /\ owed \in urcOwed
        BY <2>2 DEF UrcInv, RequestsInv
      <3>2. owed \in [kind : Requests, number : 1 .. urcBegun']
        BY <1>4, <3>1 DEF OwedOK
      <3>3. TooEarly(owed)' <=> TooEarly(owed)
        BY DEF TooEarly
      <3>4. urcDisturbed \subseteq urcDisturbed'
        OBVIOUS
      <3>5. owed.kind \notin urcDisturbed' => urcInside' # owed.kind
        BY <1>2, <3>2 DEF Requests, Once, Lasting, Streams
      <3> QED
        BY <3>1, <3>2, <3>3, <3>4, <3>5 DEF OwedOK
    <2> QED
      BY <2>1, <2>2 DEF RequestsInv
  <1> QED
    BY <1>1, <1>2, <1>3, <1>5 DEF UrcInv

LEMMA UnaskedStep ==
    ASSUME UrcInv, Unasked(PlainLines) \/ Unasked(UssdLines) \/ Unasked(MqttLines)
    PROVE  UrcInv'
  <1>1. PICK lines \in {PlainLines, UssdLines, MqttLines} : Unasked(lines)
    OBVIOUS
  <1>2. PICK line \in lines :
            /\ OnURCHandler(line)
            /\ urcDisturbed' = urcDisturbed \cup ({HandlerOf(Chosen(line))} \cap Requests)
    BY <1>1 DEF Unasked
  <1>3. UnaskedOutcome(line)
    BY <1>2, PlainHandled, UssdHandled, MqttHandled
  <1> QED
    BY <1>1, <1>2, <1>3, UnaskedKeeps DEF Unasked

LEMMA ResultStep ==
    ASSUME UrcInv, Result
    PROVE  UrcInv'
  <1> DEFINE comes(owed, told) ==
            /\ IF owed.kind \in Streams
               THEN urcBegun < MaxUrcEvents /\ urcBegun' = urcBegun + 1 /\ UNCHANGED urcOwed
               ELSE urcOwed' = urcOwed \ {owed} /\ UNCHANGED urcBegun
            /\ OnURCHandler([told EXCEPT !.number = owed.number])
            /\ urcDisturbed' = IF TooEarly(owed) THEN urcDisturbed \cup {owed.kind}
                               ELSE urcDisturbed
  <1>0. PICK owed \in urcOwed : \E told \in ResultLines(owed.kind) : comes(owed, told)
    BY DEF Result
  <1>1. PICK told \in ResultLines(owed.kind) : comes(owed, told)
    BY <1>0
  <1>2. urcInside = "none" /\ UNCHANGED <<urcCallback, urcCommand, urcRefused>>
    BY DEF Result
  <1> DEFINE line == [told EXCEPT !.number = owed.number]
             kind == owed.kind
  <1>3. OwedOK(owed) /\ kind \in Requests /\ owed.number # 0
    BY DEF UrcInv, RequestsInv, OwedOK
  <1>4. /\ line.number = owed.number
        /\ Ignores(line) \/ PostsPlain(line) \/ CallsFunction(line, kind)
    BY <1>1, <1>2, <1>3, ResultHandled
  <1> HIDE DEF line
  <1>5. /\ UrcQueueOK' /\ Len(urcQueue') <= UrcQueueCap
        /\ ringCnt' \in Slots /\ DOMAIN comingCall' = Slots
    BY <1>4, OutcomeKeepsQueue DEF UrcInv
  <1>6. urcInside' = "none" \/ (urcInside' = kind /\ kind \in Once)
    <2>1. CASE Ignores(line)
      BY <1>2, <2>1 DEF Ignores, OnlyPosts
    <2>2. CASE PostsPlain(line)
      BY <1>2, <2>2 DEF PostsPlain, OnlyPosts
    <2>3. CASE CallsFunction(line, kind)
      BY <2>3 DEF CallsFunction
    <2> QED
      BY <1>4, <2>1, <2>2, <2>3
  <1>7. UrcsAreTrue'
    <2>1. CASE Ignores(line)
      BY <2>1, IgnoresTruly
    <2>2. CASE PostsPlain(line)
      BY <2>2, PostsSilently, SilenceIsTrue DEF UrcInv, UrcTypeOK
    <2>3. CASE CallsFunction(line, kind)
      <3>1. CASE kind \in Streams
        <4>1. urcCallback[kind] # 0 /\ kind \notin Once \cup Lasting
          BY <1>3, <3>1 DEF OwedOK, Streams, Once, Lasting
        <4> QED
          BY <1>3, <2>3, <4>1, CallsTruly
      <3>2. CASE kind \notin Streams
        <4>1. kind \in urcDisturbed' \/ urcCallback[kind] = line.number
          BY <1>1, <1>3, <1>4, <3>2 DEF OwedOK
        <4> QED
          BY <1>3, <1>4, <2>3, <4>1, CallsTruly
      <3> QED
        BY <3>1, <3>2
    <2> QED
      BY <1>4, <2>1, <2>2, <2>3
  <1>8. /\ urcBegun' \in 0 .. MaxUrcEvents /\ 1 .. urcBegun \subseteq 1 .. urcBegun'
        /\ urcOwed' \subseteq urcOwed /\ urcDisturbed \subseteq urcDisturbed'
    BY <1>1, UrcBounds DEF UrcInv, UrcTypeOK
  <1>9. UrcTypeOK'
    <2>1. /\ urcCallback' \in [Requests -> 0 .. MaxUrcEvents]
          /\ \A other \in urcOwed' : other.kind \in Requests
          /\ urcRefused' \subseteq 1 .. MaxUrcEvents
      BY <1>2, <1>8 DEF UrcInv, UrcTypeOK
    <2>2. urcDisturbed' \subseteq Requests /\ urcInside' \in Once \cup {"none"}
      BY <1>1, <1>3, <1>6 DEF UrcInv, UrcTypeOK
    <2> QED
      BY <1>5, <1>8, <2>1, <2>2 DEF UrcTypeOK, Slots
  <1>10. RequestsInv'
    <2>1. \/ urcCommand' = NoCommand
          \/ urcCommand' \in [kind : Requests, number : 1 .. urcBegun', taken : BOOLEAN]
      BY <1>2, <1>8 DEF UrcInv, RequestsInv
    <2>2. ASSUME NEW other \in urcOwed'
          PROVE  OwedOK(other)'
      <3>1. OwedOK(other) /\ other \in urcOwed
        BY <1>8 DEF UrcInv, RequestsInv
      <3>2. other \in [kind : Requests, number : 1 .. urcBegun']
        BY <1>8, <3>1 DEF OwedOK
      <3>3. TooEarly(other)' <=> TooEarly(other)
        BY <1>2 DEF TooEarly
      <3>4. other.kind \notin Streams \cup urcDisturbed' => urcInside' # other.kind
        <4>1. CASE urcInside' = "none"
          BY <3>2, <4>1 DEF Requests, Once, Lasting, Streams
        <4>2. CASE urcInside' = kind /\ other.kind = kind /\ other.kind \notin Streams \cup urcDisturbed'
          <5>1. other = owed
            BY <1>8, <3>1, <4>2 DEF OwedOK
          <5> QED
            BY <1>1, <4>2, <5>1
        <4> QED
          BY <1>6, <4>1, <4>2
      <3> QED
        BY <1>2, <1>8, <3>1, <3>2, <3>3, <3>4 DEF OwedOK
    <2> QED
      BY <2>1, <2>2 DEF RequestsInv
  <1> QED
    BY <1>5, <1>7, <1>9, <1>10 DEF UrcInv

LEMMA ReturnStep ==
    ASSUME UrcInv, CallbackReturns
    PROVE  UrcInv'
  <1> USE DEF UrcInv
  <1>1. /\ urcInside # "none" /\ urcInside \in Once
        /\ urcCallback' = [urcCallback EXCEPT ![urcInside] = 0]
        /\ urcInside' = "none" /\ urcSeen' = Silence /\ CachesStay
        /\ UNCHANGED <<urcQueue, urcCommand, urcOwed, urcRefused, urcDisturbed, urcBegun>>
    BY DEF CallbackReturns, UrcTypeOK
  <1>2. UrcQueueOK' /\ UrcsAreTrue'
    BY <1>1, QueueStays, SilenceIsTrue
  <1>3. urcCallback' \in [Requests -> 0 .. MaxUrcEvents]
    BY <1>1, UrcBounds DEF UrcTypeOK
  <1>4. UrcTypeOK'
    BY <1>1, <1>3 DEF UrcTypeOK, CachesStay
  <1>5. ASSUME NEW owed \in urcOwed PROVE OwedOK(owed)'
    <2>1. OwedOK(owed)
      BY DEF RequestsInv
    <2>2. TooEarly(owed)' <=> TooEarly(owed)
      BY <1>1 DEF TooEarly
    <2>3. owed.kind # urcInside => urcCallback'[owed.kind] = urcCallback[owed.kind]
      BY <1>1, <2>1 DEF OwedOK, UrcTypeOK
    <2>4. owed.kind \in Streams => owed.kind # urcInside
      BY <1>1 DEF Streams, Once
    <2>5. owed.kind # "none"
      BY <2>1 DEF OwedOK, Requests, Once, Lasting, Streams
    <2> QED
      BY <1>1, <2>1, <2>2, <2>3, <2>4, <2>5 DEF OwedOK
  <1>6. RequestsInv'
    BY <1>1, <1>5 DEF RequestsInv
  <1> QED
    BY <1>2, <1>4, <1>6

LEMMA RequestStep ==
    ASSUME UrcInv, NEW kind \in Requests, Request(kind)
    PROVE  UrcInv'
  <1> USE DEF UrcInv
  <1>0. PICK number : number = urcBegun + 1
    OBVIOUS
  <1> DEFINE new == [kind |-> kind, number |-> number]
  <1>1. /\ urcCommand = NoCommand /\ urcBegun < MaxRequests /\ urcBegun' = number
        /\ urcDisturbed' = IF urcInside = kind \/ \E owed \in urcOwed : owed.kind = kind
                           THEN urcDisturbed \cup {kind} ELSE urcDisturbed
        /\ urcCallback' = IF kind \in FtpFiles THEN urcCallback
                          ELSE [urcCallback EXCEPT ![kind] = number]
        /\ urcSeen' = Silence /\ CachesStay /\ UNCHANGED <<urcQueue, urcInside, urcRefused>>
    BY <1>0 DEF Request
  <1>2. PICK taken \in BOOLEAN :
            /\ urcOwed' = IF taken THEN urcOwed \cup {new} ELSE urcOwed
            /\ urcCommand' = IF kind = "sound" THEN NoCommand
                             ELSE [kind |-> kind, number |-> number, taken |-> taken]
    BY <1>0 DEF Request
  <1>3. UrcQueueOK' /\ UrcsAreTrue'
    BY <1>1, QueueStays, SilenceIsTrue
  <1>4. /\ urcBegun \in Nat /\ number \in 1 .. MaxUrcEvents /\ number \in 1 .. number
        /\ 1 .. urcBegun \subseteq 1 .. number /\ number \notin 1 .. urcBegun
    BY <1>0, <1>1, UrcBounds DEF UrcTypeOK
  <1>5. UrcTypeOK'
    <2>1. urcCallback' \in [Requests -> 0 .. MaxUrcEvents]
      BY <1>1, <1>4 DEF UrcTypeOK
    <2>2. \A owed \in urcOwed' : owed.kind \in Requests
      BY <1>2 DEF UrcTypeOK
    <2>3. urcDisturbed' \subseteq Requests
      BY <1>1 DEF UrcTypeOK
    <2>4. urcBegun' \in 0 .. MaxUrcEvents
      BY <1>1, <1>4
    <2> QED
      BY <1>1, <2>1, <2>2, <2>3, <2>4 DEF UrcTypeOK, CachesStay
  <1>6. \/ urcCommand' = NoCommand
        \/ urcCommand' \in [kind : Requests, number : 1 .. urcBegun', taken : BOOLEAN]
    BY <1>1, <1>2, <1>4
  <1>7. ASSUME NEW owed \in urcOwed PROVE OwedOK(owed)'
    <2>1. OwedOK(owed) /\ owed.number \in 1 .. urcBegun /\ owed.kind \in Requests
      BY DEF RequestsInv, OwedOK
    <2>2. owed \in [kind : Requests, number : 1 .. urcBegun']
      BY <1>1, <1>4, <2>1 DEF OwedOK
    <2>3. owed.number # number /\ owed.number # 0
      BY <1>4, <2>1
    <2>4. owed.number # urcCommand'.number
      BY <1>2, <2>3 DEF NoCommand
    <2>5. CASE owed.kind = kind
      <3>1. kind \in urcDisturbed'
        BY <1>1, <2>5
      <3>2. kind \in Streams => urcCallback'[kind] # 0
        BY <1>1, <1>4, <2>1, <2>5 DEF OwedOK, UrcTypeOK
      <3> QED
        BY <2>2, <2>4, <2>5, <3>1, <3>2 DEF OwedOK
    <2>6. CASE owed.kind # kind
      <3>1. urcCallback'[owed.kind] = urcCallback[owed.kind]
        BY <1>1, <2>1, <2>6 DEF UrcTypeOK
      <3>2. owed.kind \notin Streams \cup urcDisturbed' =>
              /\ urcInside' # owed.kind
              /\ \A other \in urcOwed' : other.kind = owed.kind => other = owed
        BY <1>1, <1>2, <2>1, <2>6 DEF OwedOK
      <3>3. owed.kind \notin Streams \cup urcDisturbed' =>
              TooEarly(owed)' \/ urcCallback'[owed.kind] = owed.number
        <4>1. TooEarly(owed) => TooEarly(owed)'
          BY <1>1, <2>3 DEF TooEarly, NoCommand
        <4> QED
          BY <1>1, <2>1, <3>1, <4>1 DEF OwedOK
      <3>4. urcCommand'.kind # owed.kind
        <4>1. owed.kind # "none"
          BY <2>1 DEF Requests, Once, Lasting, Streams
        <4> QED
          BY <1>2, <2>6, <4>1 DEF NoCommand
      <3> QED
        BY <2>1, <2>2, <2>4, <3>1, <3>2, <3>3, <3>4 DEF OwedOK
    <2> QED
      BY <2>5, <2>6
  <1>8. CASE ~taken
    BY <1>2, <1>6, <1>7, <1>8, <1>3, <1>5 DEF RequestsInv
  <1>9. CASE taken
    <2>1. OwedOK(new)'
      <3>1. new \in [kind : Requests, number : 1 .. urcBegun'] /\ new.kind = kind /\ new.number = number
        BY <1>1, <1>4
      <3>2. kind \notin FtpFiles => urcCallback'[kind] = number
        BY <1>1 DEF UrcTypeOK
      <3>3. kind \in Streams => urcCallback'[kind] # 0
        <4>1. kind \in Streams => kind \notin FtpFiles
          BY DEF Streams, FtpFiles
        <4> QED
          BY <1>4, <3>2, <4>1
      <3>4. /\ urcCommand'.number = number => urcCommand'.kind = kind
            /\ urcCommand'.kind = kind => urcCommand'.number = number
        <4>1. kind # "none" /\ number # 0
          BY <1>4 DEF Requests, Once, Lasting, Streams
        <4> QED
          BY <1>2, <4>1 DEF NoCommand
      <3>5. kind \in FtpFiles => TooEarly(new)'
        <4>1. kind \in FtpFiles => urcCommand'.number = number
          BY <1>2 DEF FtpFiles
        <4> QED
          BY <3>1, <4>1 DEF TooEarly
      <3>6. kind \notin Streams \cup urcDisturbed' =>
              /\ urcInside' # kind
              /\ \A other \in urcOwed' : other.kind = kind => other = new
        BY <1>1, <1>2
      <3> HIDE DEF new
      <3> QED
        BY <3>1, <3>2, <3>3, <3>4, <3>5, <3>6 DEF OwedOK
    <2> HIDE DEF new
    <2>2. urcOwed' = urcOwed \cup {new}
      BY <1>2, <1>9
    <2> QED
      BY <1>3, <1>5, <1>6, <1>7, <2>1, <2>2 DEF RequestsInv
  <1> QED
    BY <1>8, <1>9

LEMMA CommandStep ==
    ASSUME UrcInv, CommandReturns
    PROVE  UrcInv'
  <1> USE DEF UrcInv
  <1>1. /\ urcCommand # NoCommand /\ urcCommand' = NoCommand
        /\ urcSeen' = Silence /\ CachesStay
        /\ UNCHANGED <<urcQueue, urcOwed, urcInside, urcDisturbed, urcBegun>>
    BY DEF CommandReturns
  <1>2. PICK success \in BOOLEAN :
        /\ success => urcCommand.taken
        /\ urcCallback' = IF success /\ urcCommand.kind \in FtpFiles
                          THEN [urcCallback EXCEPT ![urcCommand.kind] = urcCommand.number]
                          ELSE urcCallback
        /\ urcRefused' = IF success THEN urcRefused ELSE urcRefused \cup {urcCommand.number}
    BY DEF CommandReturns
  <1>3. UrcQueueOK' /\ UrcsAreTrue'
    BY <1>1, QueueStays, SilenceIsTrue
  <1>4. /\ urcCommand.kind \in Requests /\ urcCommand.number \in 1 .. urcBegun
        /\ urcCommand.number \in 1 .. MaxUrcEvents
    <2>1. urcCommand \in [kind : Requests, number : 1 .. urcBegun, taken : BOOLEAN]
      BY <1>1 DEF RequestsInv
    <2>2. 1 .. urcBegun \subseteq 1 .. MaxUrcEvents
      BY UrcBounds DEF UrcTypeOK
    <2> QED
      BY <2>1, <2>2
  <1>5. UrcTypeOK'
    <2>1. urcCallback' \in [Requests -> 0 .. MaxUrcEvents]
      <3>1. urcCommand.number \in 0 .. MaxUrcEvents
        BY <1>4, UrcBounds
      <3> QED
        BY <1>2, <1>4, <3>1 DEF UrcTypeOK
    <2>2. urcRefused' \subseteq 1 .. MaxUrcEvents
      BY <1>2, <1>4 DEF UrcTypeOK
    <2> QED
      BY <1>1, <2>1, <2>2 DEF UrcTypeOK, CachesStay
  <1>6. ASSUME NEW owed \in urcOwed PROVE OwedOK(owed)'
    <2>1. OwedOK(owed) /\ owed.kind \in Requests /\ owed.number # 0
      BY DEF RequestsInv, OwedOK
    <2>2. NoCommand.kind # owed.kind /\ NoCommand.number # owed.number
      BY <2>1 DEF NoCommand, Requests, Once, Lasting, Streams
    <2>3. owed.kind \in Streams => urcCallback'[owed.kind] # 0
      <3>1. owed.kind \in Streams => owed.kind \notin FtpFiles
        BY DEF Streams, FtpFiles
      <3> QED
        BY <1>2, <2>1, <3>1 DEF OwedOK, UrcTypeOK
    <2>4. ASSUME owed.kind \notin Streams \cup urcDisturbed
          PROVE  TooEarly(owed)' \/ urcCallback'[owed.kind] = owed.number
      <3>1. CASE urcCommand.number = owed.number /\ owed.kind \in FtpFiles
        <4>1. urcCommand.kind = owed.kind
          BY <2>1, <3>1 DEF OwedOK
        <4>2. CASE success
          BY <1>2, <2>1, <3>1, <4>1, <4>2 DEF UrcTypeOK
        <4>3. CASE ~success
          BY <1>2, <3>1, <4>3 DEF TooEarly
        <4> QED
          BY <4>2, <4>3
      <3>2. CASE owed.kind \in FtpFiles /\ owed.number \in urcRefused
        BY <1>2, <3>2 DEF TooEarly
      <3>3. CASE urcCallback[owed.kind] = owed.number
        <4>1. CASE urcCommand.kind = owed.kind
          BY <1>2, <2>1, <2>4, <3>3, <4>1 DEF OwedOK, UrcTypeOK
        <4>2. CASE urcCommand.kind # owed.kind
          BY <1>2, <2>1, <3>3, <4>2 DEF UrcTypeOK
        <4> QED
          BY <4>1, <4>2
      <3> QED
        BY <2>1, <2>4, <3>1, <3>2, <3>3 DEF OwedOK, TooEarly
    <2> QED
      BY <1>1, <2>1, <2>2, <2>3, <2>4 DEF OwedOK
  <1>7. RequestsInv'
    BY <1>1, <1>6 DEF RequestsInv
  <1> QED
    BY <1>3, <1>5, <1>7

LEMMA CloseStep ==
    ASSUME UrcInv, RIL_ToneDet_Close
    PROVE  UrcInv'
  <1> USE DEF UrcInv
  <1>1. /\ urcOwed' \subseteq urcOwed /\ urcSeen' = Silence /\ CachesStay
        /\ UNCHANGED <<urcQueue, urcCallback, urcCommand, urcInside, urcRefused, urcDisturbed,
                       urcBegun>>
    BY DEF RIL_ToneDet_Close
  <1>2. UrcQueueOK' /\ UrcsAreTrue'
    BY <1>1, QueueStays, SilenceIsTrue
  <1>3. UrcTypeOK'
    BY <1>1 DEF UrcTypeOK, CachesStay
  <1>4. ASSUME NEW owed \in urcOwed' PROVE OwedOK(owed)'
    BY <1>1 DEF RequestsInv, OwedOK, TooEarly
  <1>5. RequestsInv'
    BY <1>1, <1>4 DEF RequestsInv
  <1> QED
    BY <1>2, <1>3, <1>5

LEMMA TakesStep ==
    ASSUME UrcInv, Takes
    PROVE  UrcInv'
  <1> USE DEF UrcInv
  <1> DEFINE m == Head(urcQueue)
  <1>1. /\ urcQueue # <<>> /\ urcQueue' = Tail(urcQueue)
        /\ urcSeen' = [what |-> "learned", is |-> <<m.id, FoundBy(m)>>,
                       means |-> m.means, later |-> m.later]
        /\ CachesStay
        /\ UNCHANGED <<urcCallback, urcCommand, urcOwed, urcInside, urcRefused, urcDisturbed,
                       urcBegun>>
    BY DEF Takes
  <1>2. PICK S : urcQueue \in Seq(S)
    BY DEF UrcQueueOK
  <1>3. /\ Len(urcQueue) \in Nat /\ Len(urcQueue) > 0 /\ 1 \in DOMAIN urcQueue /\ m = urcQueue[1]
        /\ DOMAIN urcQueue = 1 .. Len(urcQueue)
        /\ urcQueue' \in Seq(S) /\ Len(urcQueue') = Len(urcQueue) - 1
        /\ DOMAIN urcQueue' = 1 .. Len(urcQueue) - 1
        /\ \A i \in 1 .. Len(urcQueue) - 1 : urcQueue'[i] = urcQueue[i + 1]
    BY <1>1, <1>2
  <1>4. UrcQueueOK'
    <2>1. ASSUME NEW i \in DOMAIN urcQueue'
          PROVE  MessageOK(urcQueue'[i], ringCnt, comingCall, g_mqtt, g_ussd)
      <3>1. urcQueue'[i] = urcQueue[i + 1] /\ i + 1 \in DOMAIN urcQueue
        BY <1>3
      <3> QED
        BY <3>1 DEF UrcQueueOK
    <2>2. comingCall = [i \in 0 .. CallSlots - 1 |-> comingCall[i]]
      BY DEF UrcQueueOK
    <2> QED
      BY <1>1, <1>3, <2>1, <2>2 DEF UrcQueueOK, CachesStay
  <1>5. MessageOK(m, ringCnt, comingCall, g_mqtt, g_ussd)
    BY <1>3 DEF UrcQueueOK
  <1> HIDE DEF m
  <1>6. m.means # NoMeaning /\ m.later < RoomFor(m.id) => m.means = <<m.id, FoundBy(m)>>
    <2>1. CASE m.id = "URC_COMING_CALL_IND"
      BY <1>5, <2>1 DEF MessageOK, RoomFor, FoundBy
    <2>2. CASE m.id \in {"URC_MQTT_RECV_IND", "URC_USSD_RECV_IND"}
      <3>1. RoomFor(m.id) = 1 /\ m.later \in Nat
        BY <1>5, <2>2 DEF MessageOK, RoomFor
      <3>2. m.later < RoomFor(m.id) => m.later = 0
        BY <3>1
      <3>3. FoundBy(m) = IF m.id = "URC_MQTT_RECV_IND" THEN g_mqtt ELSE g_ussd
        BY <2>2 DEF FoundBy
      <3> QED
        BY <1>5, <2>2, <3>2, <3>3 DEF MessageOK
    <2>3. CASE m.id \notin Cached
      <3>1. FoundBy(m) = m.arg
        BY <2>3 DEF FoundBy, Cached
      <3> QED
        BY <1>5, <2>3, <3>1 DEF MessageOK
    <2> QED
      BY <2>1, <2>2, <2>3 DEF Cached
  <1>7. UrcsAreTrue'
    <2>1. /\ urcSeen'.what = "learned" /\ urcSeen'.is = <<m.id, FoundBy(m)>>
          /\ urcSeen'.means = m.means /\ urcSeen'.later = m.later
      BY <1>1 DEF m
    <2>2. <<m.id, FoundBy(m)>>[1] = m.id
      OBVIOUS
    <2> QED
      BY <1>6, <2>1, <2>2 DEF UrcsAreTrue
  <1>8. UrcTypeOK'
    <2>1. Len(urcQueue') <= UrcQueueCap
      BY <1>3, UrcBounds DEF UrcTypeOK
    <2> QED
      BY <1>1, <2>1 DEF UrcTypeOK, CachesStay
  <1>9. RequestsInv'
    BY <1>1 DEF RequestsInv, OwedOK, TooEarly
  <1> QED
    BY <1>4, <1>7, <1>8, <1>9

LEMMA UrcInitially == UrcInit => UrcInv
  <1> SUFFICES ASSUME UrcInit PROVE UrcInv
    OBVIOUS
  <1>1. UrcTypeOK
    <2>1. ringCnt = 0 /\ comingCall = [i \in 0 .. CallSlots - 1 |-> 0] /\ urcQueue = <<>>
      BY DEF UrcInit
    <2>2. urcCallback = [kind \in Requests |-> 0] /\ urcBegun = 0
      BY DEF UrcInit
    <2>3. ringCnt \in 0 .. CallSlots - 1 /\ DOMAIN comingCall = 0 .. CallSlots - 1
      BY <2>1, UrcBounds
    <2>4. Len(urcQueue) <= UrcQueueCap
      BY <2>1, UrcBounds
    <2>5. /\ urcCallback \in [Requests -> 0 .. MaxUrcEvents] /\ urcBegun \in 0 .. MaxUrcEvents
      BY <2>2, UrcBounds
    <2> QED
      BY <2>3, <2>4, <2>5 DEF UrcInit, UrcTypeOK
  <1>2. UrcQueueOK
    <2>1. urcQueue = <<>> /\ comingCall = [i \in 0 .. CallSlots - 1 |-> 0]
      BY DEF UrcInit
    <2>2. urcQueue \in Seq({}) /\ DOMAIN urcQueue = {}
      BY <2>1
    <2>3. comingCall = [i \in 0 .. CallSlots - 1 |-> comingCall[i]]
      BY <2>1
    <2> QED
      BY <2>2, <2>3 DEF UrcQueueOK
  <1>3. RequestsInv
    BY DEF UrcInit, RequestsInv
  <1>4. UrcsAreTrue
    BY DEF UrcInit, UrcsAreTrue, Silence
  <1> QED
    BY <1>1, <1>2, <1>3, <1>4 DEF UrcInv

LEMMA UrcStep == UrcInv /\ [UrcNext]_urcVars => UrcInv'
  <1> SUFFICES ASSUME UrcInv, [UrcNext]_urcVars PROVE UrcInv'
    OBVIOUS
  <1>1. CASE UNCHANGED urcVars
    BY <1>1 DEF urcVars, UrcInv, UrcTypeOK, UrcQueueOK, RequestsInv, OwedOK, TooEarly, UrcsAreTrue
  <1>2. CASE UrcNext
    BY <1>2, UnaskedStep, ResultStep, ReturnStep, RequestStep, CommandStep, CloseStep,
       TakesStep DEF UrcNext
  <1> QED
    BY <1>1, <1>2

\* What the application learns from the unsolicited lines is what the modem has
\* announced, through any number of lines, requests, lost messages and
\* overwritten caches.
THEOREM UrcDispatchIsTrue == UrcSpec => []UrcsAreTrue
  <1>1. UrcInv => UrcsAreTrue
    BY DEF UrcInv
  <1> QED
    BY <1>1, UrcInitially, UrcStep, PTL DEF UrcSpec

-----------------------------------------------------------------------------
(* The texts.                                                              *)

\* The four digits of a number, the last first.
Part(x, k) == IF k = 4 THEN x % 16 ELSE IF k = 3 THEN (x \div 16) % 16
              ELSE IF k = 2 THEN (x \div 256) % 16 ELSE (x \div 4096) % 16

LEMMA FourParts ==
    ASSUME NEW x \in Nat, x < 65536
    PROVE  /\ Part(x, 1) \in 0 .. 15 /\ Part(x, 2) \in 0 .. 15
           /\ Part(x, 3) \in 0 .. 15 /\ Part(x, 4) \in 0 .. 15
           /\ 4096 * Part(x, 1) + 256 * Part(x, 2) + 16 * Part(x, 3) + Part(x, 4) = x
  <1> DEFINE p == x \div 16
             q == x \div 256
             top == x \div 4096
  <1>2. p \in Nat /\ q \in Nat /\ top \in Nat /\ q = p \div 16 /\ top = q \div 16
    BY SMT
  <1>3. top \in 0 .. 15
    BY SMT
  <1>4. x - 16 * p = x % 16
    BY SMT
  <1>0. /\ Part(x, 1) = top % 16 /\ Part(x, 2) = q % 16
        /\ Part(x, 3) = p % 16 /\ Part(x, 4) = x % 16
    BY DEF Part
  <1> HIDE DEF p, q, top
  <1>5. p - 16 * q = p % 16
    BY <1>2, SMT
  <1>6. q - 16 * top = q % 16
    BY <1>2, SMT
  <1>7. top % 16 = top
    BY <1>3, SMT
  <1>8. p % 16 \in 0 .. 15 /\ q % 16 \in 0 .. 15 /\ top % 16 \in 0 .. 15 /\ x % 16 \in 0 .. 15
    BY <1>2, <1>3, SMT
  <1> DEFINE x0 == Part(x, 4)
             p0 == Part(x, 3)
             q0 == Part(x, 2)
             r0 == Part(x, 1)
  <1>9. x0 \in 0 .. 15 /\ p0 \in 0 .. 15 /\ q0 \in 0 .. 15 /\ r0 \in 0 .. 15
    BY <1>0, <1>8
  <1>10. x - 16 * p = x0 /\ p - 16 * q = p0 /\ q - 16 * top = q0 /\ top = r0
    BY <1>0, <1>4, <1>5, <1>6, <1>7
  <1> HIDE DEF x0, p0, q0, r0
  <1>11. 4096 * r0 + 256 * q0 + 16 * p0 + x0 = x
    BY <1>2, <1>9, <1>10, SMT
  <1> QED
    BY <1>9, <1>11 DEF x0, p0, q0, r0

LEMMA DigitIs ==
    ASSUME NEW v \in 0 .. 15
    PROVE  hex_val(Digit(v)) = v /\ is_hex_char(Digit(v)) /\ Digit(v) \in 1 .. 127
  BY SMT DEF hex_val, Digit, is_hex_char

\* The two characters 0 and A stand for no other values.
LEMMA DigitTells ==
    ASSUME NEW v \in 0 .. 15
    PROVE  (Digit(v) = 48 <=> v = 0) /\ (Digit(v) = 65 <=> v = 10)
  BY SMT DEF Digit

Text(t) == t \in Seq(Char)

LEMMA CharIs == ASSUME NEW x \in Char PROVE x \in Nat /\ 0 < x /\ x < 65536
  BY SMT DEF Char

LEMMA AsciiChar == ASSUME NEW x \in 1 .. 127 PROVE x \in Char
  BY SMT DEF Char

LEMMA TextIs ==
    ASSUME NEW t \in Texts
    PROVE  /\ Text(t) /\ Len(t) \in Nat \ {0} /\ DOMAIN t = 1 .. Len(t)
           /\ \A i \in 1 .. Len(t) : t[i] \in Char
  <1>1. PICK n \in 1 .. MaxText : t \in [1 .. n -> Characters]
    BY DEF Texts
  <1>2. n \in Nat \ {0}
    <2>1. MaxText \in Nat
      BY TextAssumption
    <2> QED
      BY <2>1
  <1>4. Characters \subseteq Char
    BY TextAssumption
  <1>3. t \in Seq(Char) /\ Len(t) = n /\ DOMAIN t = 1 .. n
    <2>1. t \in [1 .. n -> Char]
      BY <1>1, <1>4
    <2> QED
      BY <1>2, <2>1
  <1> QED
    BY <1>2, <1>3 DEF Text

\* Every place in a string of 4 * n digits is one of the four of a character.
LEMMA Places ==
    ASSUME NEW n \in Nat, NEW i \in 1 .. 4 * n
    PROVE  \E j \in 1 .. n : i = 4 * j - 3 \/ i = 4 * j - 2 \/ i = 4 * j - 1 \/ i = 4 * j
  <1> DEFINE j == (i + 3) \div 4
  <1>1. i \in Int /\ i + 3 \in Int /\ 1 <= i /\ i <= 4 * n
    BY SMT
  <1>2. 4 * j <= i + 3 /\ i + 3 < 4 * j + 4 /\ j \in Int
    BY <1>1, SMT
  <1> HIDE DEF j
  <1>3. j \in 1 .. n
    BY <1>1, <1>2, SMT
  <1>4. i = 4 * j - 3 \/ i = 4 * j - 2 \/ i = 4 * j - 1 \/ i = 4 * j
    BY <1>1, <1>2, SMT
  <1> QED
    BY <1>3, <1>4

LEMMA HexIs ==
    ASSUME NEW t, Text(t)
    PROVE  LET h == ascii_to_ucs2_hex(t)
           IN  /\ Text(h) /\ Len(h) = 4 * Len(t) /\ Len(t) \in Nat
               /\ \A i \in 1 .. Len(h) : is_hex_char(h[i])
               /\ \A j \in 1 .. Len(t) :
                     /\ h[4 * j - 3] = Digit(Part(t[j], 1))
                     /\ h[4 * j - 2] = Digit(Part(t[j], 2))
                     /\ h[4 * j - 1] = Digit(Part(t[j], 3))
                     /\ h[4 * j] = Digit(Part(t[j], 4))
  <1> DEFINE h == ascii_to_ucs2_hex(t)
             n == Len(t)
  <1>1. n \in Nat /\ \A j \in 1 .. n : t[j] \in Char
    BY DEF Text
  <1>2. h = [i \in 1 .. 4 * n |->
                Digit((t[(i + 3) \div 4] \div <<1, 4096, 256, 16>>[(i % 4) + 1]) % 16)]
    BY DEF ascii_to_ucs2_hex
  <1> HIDE DEF h, n
  <1>3. ASSUME NEW j \in 1 .. n
        PROVE  /\ h[4 * j - 3] = Digit(Part(t[j], 1))
               /\ h[4 * j - 2] = Digit(Part(t[j], 2))
               /\ h[4 * j - 1] = Digit(Part(t[j], 3))
               /\ h[4 * j] = Digit(Part(t[j], 4))
    <2>1. /\ (4 * j - 3 + 3) \div 4 = j /\ ((4 * j - 3) % 4) + 1 = 2 /\ 4 * j - 3 \in 1 .. 4 * n
          /\ (4 * j - 2 + 3) \div 4 = j /\ ((4 * j - 2) % 4) + 1 = 3 /\ 4 * j - 2 \in 1 .. 4 * n
          /\ (4 * j - 1 + 3) \div 4 = j /\ ((4 * j - 1) % 4) + 1 = 4 /\ 4 * j - 1 \in 1 .. 4 * n
          /\ (4 * j + 3) \div 4 = j /\ ((4 * j) % 4) + 1 = 1 /\ 4 * j \in 1 .. 4 * n
      BY <1>1, SMT
    <2>2. t[j] \in Nat
      BY <1>1, CharIs
    <2>3. /\ Digit((t[j] \div <<1, 4096, 256, 16>>[2]) % 16) = Digit(Part(t[j], 1))
          /\ Digit((t[j] \div <<1, 4096, 256, 16>>[3]) % 16) = Digit(Part(t[j], 2))
          /\ Digit((t[j] \div <<1, 4096, 256, 16>>[4]) % 16) = Digit(Part(t[j], 3))
          /\ Digit((t[j] \div <<1, 4096, 256, 16>>[1]) % 16) = Digit(Part(t[j], 4))
      <3>1. t[j] \div 1 = t[j]
        BY <2>2, SMT
      <3> QED
        BY <3>1 DEF Part
    <2>4. h[4 * j - 3] = Digit((t[j] \div <<1, 4096, 256, 16>>[2]) % 16)
      BY <1>2, <2>1
    <2>5. h[4 * j - 2] = Digit((t[j] \div <<1, 4096, 256, 16>>[3]) % 16)
      BY <1>2, <2>1
    <2>6. h[4 * j - 1] = Digit((t[j] \div <<1, 4096, 256, 16>>[4]) % 16)
      BY <1>2, <2>1
    <2>7. h[4 * j] = Digit((t[j] \div <<1, 4096, 256, 16>>[1]) % 16)
      BY <1>2, <2>1
    <2> QED
      BY <2>3, <2>4, <2>5, <2>6, <2>7
  <1>4. ASSUME NEW i \in 1 .. 4 * n PROVE is_hex_char(h[i]) /\ h[i] \in Char
    <2>1. PICK j \in 1 .. n : i = 4 * j - 3 \/ i = 4 * j - 2 \/ i = 4 * j - 1 \/ i = 4 * j
      BY <1>1, Places
    <2>2. t[j] \in Nat /\ t[j] < 65536
      BY <1>1, CharIs
    <2>3. PICK v \in 0 .. 15 : h[i] = Digit(v)
      <3>1. /\ Part(t[j], 1) \in 0 .. 15 /\ Part(t[j], 2) \in 0 .. 15
            /\ Part(t[j], 3) \in 0 .. 15 /\ Part(t[j], 4) \in 0 .. 15
        BY <2>2, FourParts
      <3>2. \E k \in 1 .. 4 : h[i] = Digit(Part(t[j], k))
        BY <1>3, <2>1
      <3> QED
        BY <3>1, <3>2
    <2>4. is_hex_char(h[i]) /\ h[i] \in 1 .. 127
      BY <2>3, DigitIs
    <2>5. h[i] \in Char
      BY <2>4, AsciiChar
    <2> QED
      BY <2>4, <2>5
  <1>5. Text(h) /\ Len(h) = 4 * n
    <2>1. DOMAIN h = 1 .. 4 * n /\ 4 * n \in Nat
      BY <1>1, <1>2
    <2>2. h \in [1 .. 4 * n -> Char]
      BY <1>2, <1>4
    <2>3. h \in Seq(Char) /\ Len(h) = 4 * n
      BY <2>1, <2>2
    <2> QED
      BY <2>3 DEF Text
  <1> QED
    BY <1>1, <1>3, <1>4, <1>5 DEF h, n

\* Digits say again what was written in them.
LEMMA UnitsOfHex ==
    ASSUME NEW t, Text(t), NEW k \in 0 .. Len(t), NEW s, Text(s), Len(s) = 4 * k,
           \A i \in 1 .. 4 * k : s[i] = ascii_to_ucs2_hex(t)[i]
    PROVE  Units(s) = SubSeq(t, 1, k)
  <1> DEFINE h == ascii_to_ucs2_hex(t)
  <1>1. /\ Len(t) \in Nat
        /\ \A j \in 1 .. Len(t) :
                     /\ h[4 * j - 3] = Digit(Part(t[j], 1))
                     /\ h[4 * j - 2] = Digit(Part(t[j], 2))
                     /\ h[4 * j - 1] = Digit(Part(t[j], 3))
                     /\ h[4 * j] = Digit(Part(t[j], 4))
    BY HexIs
  <1>0. \A i \in 1 .. 4 * k : s[i] = h[i]
    OBVIOUS
  <1> HIDE DEF h
  <1>2. Len(s) \div 4 = k /\ k \in Nat
    BY <1>1, SMT
  <1>3. ASSUME NEW j \in 1 .. k
        PROVE  4096 * hex_val(s[4 * j - 3]) + 256 * hex_val(s[4 * j - 2])
               + 16 * hex_val(s[4 * j - 1]) + hex_val(s[4 * j]) = t[j]
    <2>1. j \in 1 .. Len(t) /\ t[j] \in Char
      BY <1>1, <1>2 DEF Text
    <2>2. t[j] \in Nat /\ t[j] < 65536
      BY <2>1, CharIs
    <2>3. /\ s[4 * j - 3] = h[4 * j - 3] /\ s[4 * j - 2] = h[4 * j - 2]
          /\ s[4 * j - 1] = h[4 * j - 1] /\ s[4 * j] = h[4 * j]
      BY <1>0, <1>2
    <2>4. /\ hex_val(s[4 * j - 3]) = Part(t[j], 1)
          /\ hex_val(s[4 * j - 2]) = Part(t[j], 2)
          /\ hex_val(s[4 * j - 1]) = Part(t[j], 3)
          /\ hex_val(s[4 * j]) = Part(t[j], 4)
      <3>1. /\ Part(t[j], 1) \in 0 .. 15 /\ Part(t[j], 2) \in 0 .. 15
            /\ Part(t[j], 3) \in 0 .. 15 /\ Part(t[j], 4) \in 0 .. 15
        BY <2>2, FourParts
      <3>2. /\ s[4 * j - 3] = Digit(Part(t[j], 1))
            /\ s[4 * j - 2] = Digit(Part(t[j], 2))
            /\ s[4 * j - 1] = Digit(Part(t[j], 3))
            /\ s[4 * j] = Digit(Part(t[j], 4))
        BY <1>1, <2>1, <2>3
      <3> QED
        BY <3>1, <3>2, DigitIs
    <2> QED
      BY <2>2, <2>4, FourParts
  <1>4. Units(s) = [j \in 1 .. k |-> t[j]]
    BY <1>2, <1>3 DEF Units
  <1>5. SubSeq(t, 1, k) = [j \in 1 .. k |-> t[j]]
    BY <1>1, <1>2 DEF Text
  <1> QED
    BY <1>4, <1>5

-----------------------------------------------------------------------------
(* The beginning of a string.                                              *)

Begins(s, t, n) ==
    Text(s) /\ Len(s) = n /\ n \in 0 .. Len(t) /\ \A i \in 1 .. n : s[i] = t[i]

LEMMA LenIs == ASSUME NEW t, Text(t) PROVE Len(t) \in Nat /\ \A i \in 1 .. Len(t) : t[i] \in Char
  BY DEF Text

LEMMA SameText ==
    ASSUME NEW s, Text(s), NEW t, Text(t), Len(s) = Len(t), \A i \in 1 .. Len(s) : s[i] = t[i]
    PROVE  s = t
  <1>1. /\ s = [i \in 1 .. Len(s) |-> s[i]] /\ t = [i \in 1 .. Len(t) |-> t[i]]
        /\ Len(s) \in Nat
    BY DEF Text
  <1> QED
    BY <1>1

LEMMA OneBeginning ==
    ASSUME NEW s, NEW u, NEW t, NEW n, Begins(s, t, n), Begins(u, t, n)
    PROVE  s = u
  BY SameText DEF Begins

LEMMA CutBegins ==
    ASSUME NEW t, Text(t), NEW n \in 0 .. Len(t)
    PROVE  Begins(SubSeq(t, 1, n), t, n)
  <1>1. t \in Seq(Char) /\ Len(t) \in Nat /\ n \in Nat /\ n <= Len(t)
    BY DEF Text
  <1>2. SubSeq(t, 1, n) = [i \in 1 .. n |-> t[i]]
    BY <1>1
  <1>3. \A i \in 1 .. n : t[i] \in Char
    BY <1>1
  <1>4. SubSeq(t, 1, n) \in Seq(Char) /\ Len(SubSeq(t, 1, n)) = n
    BY <1>1, <1>2, <1>3
  <1> QED
    BY <1>1, <1>2, <1>4 DEF Begins, Text

LEMMA WholeBegins == ASSUME NEW t, Text(t) PROVE Begins(t, t, Len(t))
  BY LenIs DEF Begins

LEMMA BeginsAgain ==
    ASSUME NEW t, NEW n, NEW s, Begins(s, t, n), NEW m, NEW u, Begins(u, s, m), Text(t)
    PROVE  Begins(u, t, m)
  <1>1. n \in 0 .. Len(t) /\ Len(t) \in Nat /\ m \in 0 .. n
    BY LenIs DEF Begins
  <1> QED
    BY <1>1 DEF Begins

\* A copy into a buffer is the text, or as much of it as there is room for.
LEMMA CopiedBegins ==
    ASSUME NEW t, Text(t), NEW n \in Nat
    PROVE  Begins(Copied(t, n), t, IF Len(t) > n THEN n ELSE Len(t))
  <1>1. Len(t) \in Nat
    BY LenIs
  <1>2. CASE Len(t) > n
    <2>1. n \in 0 .. Len(t)
      BY <1>1, <1>2
    <2> QED
      BY <1>2, <2>1, CutBegins DEF Copied
  <1>3. CASE ~(Len(t) > n)
    BY <1>3, WholeBegins DEF Copied
  <1> QED
    BY <1>2, <1>3

LEMMA NatMin ==
    ASSUME NEW T, T \subseteq Nat, T # {}
    PROVE  \E n \in T : \A m \in T : n <= m
  <1> DEFINE R == {p \in Nat \X Nat : p[1] < p[2]}
  <1>1. OpToRel(<, Nat) = R
    BY DEF OpToRel
  <1>2. \E x \in T : \A y \in T : ~(<<y, x>> \in R)
    BY <1>1, NatLessThanWellFounded, WFMin
  <1>3. PICK n \in T : \A m \in T : ~(<<m, n>> \in R)
    BY <1>2
  <1>4. ASSUME NEW m \in T PROVE n <= m
    <2>1. m \in Nat /\ n \in Nat /\ ~(<<m, n>> \in R)
      BY <1>3
    <2>2. m < n => <<m, n>> \in R
      BY <2>1
    <2> QED
      BY <2>1, <2>2
  <1> QED
    BY <1>3, <1>4

LEMMA NatSetInduction ==
    ASSUME NEW S, S \subseteq Nat, 0 \in S, \A n \in S : n + 1 \in S
    PROVE  S = Nat
  <1> SUFFICES ASSUME Nat \ S # {} PROVE FALSE
    OBVIOUS
  <1> DEFINE T == Nat \ S
  <1>1. T \subseteq Nat /\ T # {}
    OBVIOUS
  <1>2. PICK n \in T : \A m \in T : n <= m
    BY <1>1, NatMin
  <1>3. n \in Nat /\ n # 0 /\ n - 1 \in Nat /\ n - 1 + 1 = n /\ ~(n <= n - 1)
    BY <1>2
  <1>4. n - 1 \in S
    BY <1>2, <1>3
  <1> QED
    BY <1>2, <1>3, <1>4

\* Nothing but digits is left as it is.
LEMMA SameDigits ==
    ASSUME NEW s, Text(s), \A i \in 1 .. Len(s) : is_hex_char(s[i])
    PROVE  OnlyDigits(s) = s
  <1>0. s \in Seq(Char) /\ Len(s) \in Nat /\ s = [i \in 1 .. Len(s) |-> s[i]]
    BY DEF Text
  <1> DEFINE Next1(k, i) == IF i = 0 THEN <<>>
                   ELSE IF is_hex_char(s[i]) THEN Append(k[i - 1], s[i]) ELSE k[i - 1]
             kept == CHOOSE k : k = [i \in 0 .. Len(s) |-> Next1(k, i)]
             g == [i \in 0 .. Len(s) |-> [j \in 1 .. i |-> s[j]]]
  <1>1. OnlyDigits(s) = kept[Len(s)]
    BY DEF OnlyDigits
  <1>2. g = [i \in 0 .. Len(s) |-> Next1(g, i)]
    <2>1. ASSUME NEW i \in 0 .. Len(s) PROVE [j \in 1 .. i |-> s[j]] = Next1(g, i)
      <3>1. CASE i = 0
        BY <3>1
      <3>2. CASE i # 0
        <4>1. i \in 1 .. Len(s) /\ i - 1 \in 0 .. Len(s) /\ i \in Nat /\ i - 1 \in Nat
          BY <1>0, <3>2
        <4>2. g[i - 1] = [j \in 1 .. i - 1 |-> s[j]]
          BY <4>1
        <4>3. Next1(g, i) = Append([j \in 1 .. i - 1 |-> s[j]], s[i])
          BY <3>2, <4>1, <4>2
        <4>4. [j \in 1 .. i - 1 |-> s[j]] \in Seq(Char) /\ Len([j \in 1 .. i - 1 |-> s[j]]) = i - 1
          BY <1>0, <4>1
        <4>5. s[i] \in Char
          BY <1>0, <4>1
        <4> QED
          BY <1>0, <4>1, <4>3, <4>4, <4>5
      <3> QED
        BY <3>1, <3>2
    <2> QED
      BY <2>1, Zenon
  <1>3. kept = [i \in 0 .. Len(s) |-> Next1(kept, i)]
    BY <1>2, Zenon
  <1> HIDE DEF kept, g
  <1>4. kept[0] = <<>> /\ \A i \in 1 .. Len(s) : kept[i] = Append(kept[i - 1], s[i])
    <2>1. \A i \in 0 .. Len(s) : kept[i] = Next1(kept, i)
      BY <1>3, Zenon
    <2>2. 0 \in 0 .. Len(s) /\ \A i \in 1 .. Len(s) : i \in 0 .. Len(s) /\ i # 0
      BY <1>0
    <2> QED
      BY <2>1, <2>2
  <1> DEFINE Good == {n \in Nat : n <= Len(s) => kept[n] = [j \in 1 .. n |-> s[j]]}
  <1>5. 0 \in Good
    BY <1>4
  <1>6. ASSUME NEW n \in Good PROVE n + 1 \in Good
    <2>1. n \in Nat
      OBVIOUS
    <2> SUFFICES ASSUME n + 1 <= Len(s) PROVE kept[n + 1] = [j \in 1 .. n + 1 |-> s[j]]
      BY <2>1
    <2>2. n + 1 \in 1 .. Len(s) /\ (n + 1) - 1 = n /\ n <= Len(s)
      BY <1>0, <2>1
    <2>3. kept[n + 1] = Append([j \in 1 .. n |-> s[j]], s[n + 1])
      BY <1>4, <2>2
    <2>4. /\ [j \in 1 .. n |-> s[j]] \in Seq(Char) /\ Len([j \in 1 .. n |-> s[j]]) = n
          /\ s[n + 1] \in Char
      BY <1>0, <2>1, <2>2
    <2> QED
      BY <1>0, <2>1, <2>2, <2>3, <2>4
  <1>7. Nat \subseteq Good
    <2>1. Good \subseteq Nat
      OBVIOUS
    <2> HIDE DEF Good
    <2> QED
      BY <1>5, <1>6, <2>1, NatSetInduction
  <1>8. kept[Len(s)] = [j \in 1 .. Len(s) |-> s[j]]
    BY <1>0, <1>7
  <1> QED
    BY <1>0, <1>1, <1>8

-----------------------------------------------------------------------------
(* What is written, and what is read of it.                                *)

\* A string that holds the digits of the first k characters of a text.
LEMMA FirstDigits ==
    ASSUME NEW t, Text(t), NEW k \in 0 .. Len(t), NEW s,
           Begins(s, ascii_to_ucs2_hex(t), 4 * k)
    PROVE  /\ Text(s) /\ Len(s) = 4 * k /\ Units(s) = SubSeq(t, 1, k)
           /\ OnlyDigits(s) = s
           /\ k # 0 => looks_like_ucs2_hex(s)
  <1> DEFINE h == ascii_to_ucs2_hex(t)
  <1>1. /\ Len(h) = 4 * Len(t) /\ Len(t) \in Nat
        /\ \A i \in 1 .. Len(h) : is_hex_char(h[i])
    BY HexIs
  <1>2. Text(s) /\ Len(s) = 4 * k /\ \A i \in 1 .. 4 * k : s[i] = h[i]
    BY DEF Begins
  <1>3. Units(s) = SubSeq(t, 1, k)
    BY <1>2, UnitsOfHex
  <1> HIDE DEF h
  <1>4. \A i \in 1 .. Len(s) : is_hex_char(s[i])
    BY <1>1, <1>2
  <1>5. OnlyDigits(s) = s
    BY <1>2, <1>4, SameDigits
  <1>6. ASSUME k # 0 PROVE looks_like_ucs2_hex(s)
    <2>1. k \in Nat /\ 4 * k # 0 /\ (4 * k) % 4 = 0
      BY <1>1, <1>6, SMT
    <2>2. DOMAIN s = 1 .. Len(s) /\ s # <<>>
      BY <1>2, <2>1 DEF Text
    <2> QED
      BY <1>2, <1>4, <2>1, <2>2 DEF looks_like_ucs2_hex
  <1> QED
    BY <1>2, <1>3, <1>5, <1>6

LEMMA AllDigits ==
    ASSUME NEW t, Text(t), Len(t) # 0
    PROVE  LET h == ascii_to_ucs2_hex(t)
           IN  Text(h) /\ Units(h) = t /\ looks_like_ucs2_hex(h) /\ OnlyDigits(h) = h
  <1> DEFINE h == ascii_to_ucs2_hex(t)
  <1>1. Text(h) /\ Len(h) = 4 * Len(t) /\ Len(t) \in Nat
    BY HexIs
  <1>2. Begins(h, h, 4 * Len(t))
    BY <1>1, WholeBegins
  <1>3. SubSeq(t, 1, Len(t)) = t
    <2>1. Begins(t, t, Len(t)) /\ Begins(SubSeq(t, 1, Len(t)), t, Len(t))
      BY <1>1, CutBegins, WholeBegins
    <2> QED
      BY <2>1, OneBeginning
  <1>4. Len(t) \in 0 .. Len(t)
    BY <1>1
  <1>5. Units(h) = SubSeq(t, 1, Len(t)) /\ looks_like_ucs2_hex(h) /\ OnlyDigits(h) = h
    BY <1>2, <1>4, FirstDigits
  <1> QED
    BY <1>1, <1>3, <1>5

LEMMA WholeCopy ==
    ASSUME NEW t, NEW n, ~(Len(t) > n)
    PROVE  Copied(t, n) = t
  BY DEF Copied

\* A text that does not look like digits is left as it is.
LEMMA NotDigits ==
    ASSUME NEW t, Text(t), Len(t) # 0,
           ~(Len(t) % 4 = 0 /\ \A i \in DOMAIN t : is_hex_char(t[i]))
    PROVE  ~looks_like_ucs2_hex(t)
  BY DEF looks_like_ucs2_hex

LEMMA SendersAre ==
    ASSUME NEW s \in Senders
    PROVE  /\ Text(s) /\ Len(s) = 2 /\ AllIn(s, Ascii)
           /\ ~looks_like_ucs2_hex(s)
  <1>1. 43 \in Char /\ 57 \in Char /\ 65 \in Char /\ 66 \in Char
    BY AsciiChar
  <1>2. Text(s) /\ Len(s) = 2 /\ DOMAIN s = 1 .. 2
    <2>1. ASSUME NEW x \in Char, NEW y \in Char
          PROVE  Text(<<x, y>>) /\ Len(<<x, y>>) = 2 /\ DOMAIN <<x, y>> = 1 .. 2
      BY DEF Text
    <2>2. s = <<43, 57>> \/ s = <<65, 66>>
      BY DEF Senders, Phone
    <2> QED
      BY <1>1, <2>1, <2>2
  <1>3. AllIn(s, Ascii)
    BY <1>2, SMT DEF Senders, Phone, AllIn, Ascii
  <1>4. 2 % 4 # 0
    BY SMT
  <1> QED
    BY <1>2, <1>3, <1>4 DEF looks_like_ucs2_hex

\* What is decoded is what was written.
LEMMA DecodedIs ==
    ASSUME NEW t, Text(t), Len(t) # 0, NEW coded \in BOOLEAN,
           coded \/ ~looks_like_ucs2_hex(t)
    PROVE  Decoded(Written(t, coded)) = Shown(t, coded)
  <1>1. CASE coded
    BY <1>1, AllDigits DEF Decoded, Written, Shown
  <1>2. CASE ~coded
    BY <1>2 DEF Decoded, Written, Shown
  <1> QED
    BY <1>1, <1>2

LEMMA SmsInExact ==
    ASSUME NEW text \in Texts, SmsIn(text)
    PROVE  TextsExact'
  <1>1. PICK coded \in FormsOfModem(text), sender \in Senders :
            /\ textIn' = [from |-> "sms", text |-> text, coded |-> coded, sender |-> sender]
            /\ textOut' = sms_prepare_payload_and_enqueue(
                              Written(sender, coded), MsgRaw(Written(text, coded)))
    BY DEF SmsIn
  <1>2. coded \in BOOLEAN
    BY DEF FormsOfModem, Forms
  <1>3. Text(text) /\ Len(text) # 0
    BY TextIs
  <1> DEFINE read == ~coded /\ Ambiguous(text)
             long == Len(Written(text, coded)) > RawLen
  <1>4. ASSUME ~read, ~long
        PROVE  textOut' = sender \o <<Colon>> \o Shown(text, coded)
    <2>1. MsgRaw(Written(text, coded)) = Written(text, coded)
      BY <1>4, WholeCopy DEF MsgRaw
    <2>2. coded \/ ~looks_like_ucs2_hex(text)
      BY <1>3, <1>4, NotDigits DEF Ambiguous
    <2>3. Decoded(Written(text, coded)) = Shown(text, coded)
      BY <1>2, <1>3, <2>2, DecodedIs
    <2>4. Decoded(Written(sender, coded)) = Shown(sender, coded)
      BY <1>2, SendersAre, DecodedIs
    <2>5. Shown(sender, coded) = sender
      BY SendersAre DEF Shown
    <2> QED
      BY <1>1, <2>1, <2>3, <2>4, <2>5 DEF sms_prepare_payload_and_enqueue
  <1>5. /\ textIn'.from = "sms" /\ textIn'.text = text /\ textIn'.coded = coded
        /\ textIn'.sender = sender
    BY <1>1
  <1>6. read <=> ReadWrong'
    BY <1>5 DEF ReadWrong
  <1>7. \/ ReadWrong' \/ Len(Written(textIn.text, textIn.coded))' > RawLen
        \/ textOut' = textIn.sender' \o <<Colon>> \o Shown(textIn.text, textIn.coded)'
    BY <1>4, <1>5, <1>6
  <1> QED
    BY <1>5, <1>7 DEF TextsExact

LEMMA ThreeChars ==
    ASSUME NEW x \in Char, NEW y \in Char, NEW z \in Char
    PROVE  <<x, y>> \o <<z>> = <<x, y, z>>
  <1> DEFINE d == <<x, y>>
             e == <<z>>
             f == <<x, y, z>>
  <1>1. /\ d \in Seq(Char) /\ e \in Seq(Char) /\ Len(d) = 2 /\ Len(e) = 1
        /\ d[1] = x /\ d[2] = y /\ e[1] = z
    OBVIOUS
  <1>2. f \in Seq(Char) /\ Len(f) = 3 /\ f[1] = x /\ f[2] = y /\ f[3] = z
    OBVIOUS
  <1> HIDE DEF d, e, f
  <1>3. d \o e \in Seq(Char)
    BY <1>1, ConcatProperties
  <1>4. Len(d \o e) = Len(d) + Len(e)
    BY <1>1, ConcatProperties
  <1>5. Len(d \o e) = 3
    BY <1>1, <1>4
  <1>6. \A i \in 1 .. Len(d) + Len(e) :
            (d \o e)[i] = IF i <= Len(d) THEN d[i] ELSE e[i - Len(d)]
    BY <1>1, ConcatProperties
  <1>7. \A i \in 1 .. 3 : (d \o e)[i] = f[i]
    <2>1. 1 \in 1 .. Len(d) + Len(e) /\ 2 \in 1 .. Len(d) + Len(e) /\ 3 \in 1 .. Len(d) + Len(e)
          /\ 1 <= Len(d) /\ 2 <= Len(d) /\ ~(3 <= Len(d)) /\ 3 - Len(d) = 1
      BY <1>1
    <2>2. (d \o e)[1] = d[1] /\ (d \o e)[2] = d[2] /\ (d \o e)[3] = e[1]
      BY <1>6, <2>1
    <2>3. \A i \in 1 .. 3 : i = 1 \/ i = 2 \/ i = 3
      OBVIOUS
    <2> QED
      BY <1>1, <1>2, <2>2, <2>3
  <1>8. d \o e = f
    BY <1>2, <1>3, <1>5, <1>7, SameText DEF Text
  <1> QED
    BY <1>8 DEF d, e, f

LEMMA TwoChars ==
    ASSUME NEW x \in Char, NEW y \in Char, NEW p, p[1] = x, p[2] = y
    PROVE  <<x, y>> = [i \in 1 .. 2 |-> p[i]]
  <1>1. <<x, y>> = [i \in 1 .. 2 |-> IF i = 1 THEN x ELSE y]
    OBVIOUS
  <1> QED
    BY <1>1

LEMMA PhoneColon ==
    /\ 43 \in Char /\ 57 \in Char /\ Colon \in Char
    /\ Phone \o <<Colon>> = <<43, 57, Colon>>
  <1>1. 43 \in Char /\ 57 \in Char /\ Colon \in Char
    BY AsciiChar DEF Colon
  <1>2. <<43, 57>> \o <<Colon>> = <<43, 57, Colon>>
    BY <1>1, ThreeChars
  <1> QED
    BY <1>1, <1>2 DEF Phone

\* A text after the phone of a command.
LEMMA CommandIs ==
    ASSUME NEW str, Text(str), Len(str) # 0
    PROVE  LET p == Phone \o <<Colon>> \o str
           IN  /\ Len(p) = 3 + Len(str) /\ DOMAIN p = 1 .. 3 + Len(str) /\ Len(str) \in Nat
               /\ p[1] = 43 /\ p[2] = 57 /\ p[3] = Colon
               /\ SubSeq(p, 1, 2) = Phone /\ SubSeq(p, 4, Len(p)) = str
  <1> DEFINE p == Phone \o <<Colon>> \o str
  <1>1. 43 \in Char /\ 57 \in Char /\ Colon \in Char
    BY AsciiChar DEF Colon
  <1>2. str \in Seq(Char) /\ Len(str) \in Nat
    BY DEF Text
  <1>3. Phone \o <<Colon>> = <<43, 57, Colon>>
    BY PhoneColon
  <1>4. p = <<43, 57, Colon>> \o str
    BY <1>3
  <1>5. <<43, 57, Colon>> \in Seq(Char) /\ Len(<<43, 57, Colon>>) = 3
    BY <1>1
  <1> HIDE DEF p
  <1>6. /\ p = [i \in 1 .. 3 + Len(str) |->
                   IF i <= 3 THEN <<43, 57, Colon>>[i] ELSE str[i - 3]]
    BY <1>2, <1>4, <1>5
  <1>7. p \in Seq(Char) /\ Len(p) = 3 + Len(str) /\ DOMAIN p = 1 .. 3 + Len(str)
    BY <1>2, <1>4, <1>5, <1>6
  <1>8. p[1] = 43 /\ p[2] = 57 /\ p[3] = Colon
    <2>1. 1 \in 1 .. 3 + Len(str) /\ 2 \in 1 .. 3 + Len(str) /\ 3 \in 1 .. 3 + Len(str)
      BY <1>2
    <2> QED
      BY <1>6, <2>1
  <1>9. SubSeq(p, 1, 2) = Phone
    <2>1. SubSeq(p, 1, 2) = [i \in 1 .. 2 |-> p[i]]
      BY <1>2, <1>7
    <2>2. <<43, 57>> = [i \in 1 .. 2 |-> p[i]]
      BY <1>1, <1>8, TwoChars
    <2> QED
      BY <2>1, <2>2 DEF Phone
  <1>10. SubSeq(p, 4, Len(p)) = str
    <2>1. SubSeq(p, 4, Len(p)) = [i \in 1 .. Len(str) |-> p[i + 3]]
      BY <1>2, <1>7
    <2>2. \A i \in 1 .. Len(str) : p[i + 3] = str[i]
      BY <1>2, <1>6
    <2>3. str = [i \in 1 .. Len(str) |-> str[i]]
      BY <1>2
    <2> QED
      BY <2>1, <2>2, <2>3
  <1> QED
    BY <1>2, <1>7, <1>8, <1>9, <1>10 DEF p

\* The text of a command that fits its buffer is sent whole.
LEMMA ItemIs ==
    ASSUME NEW str, Text(str), Len(str) # 0, ~(Len(str) > CommandLen)
    PROVE  Handle_ServerCmd_ToSMS(Phone \o <<Colon>> \o str)
              = <<[phone |-> Phone, msg |-> str, msg_is_ucs2_hex |-> looks_like_ucs2_hex(str)]>>
  <1> DEFINE p == Phone \o <<Colon>> \o str
             colons == {i \in DOMAIN p : p[i] = Colon}
             c == CHOOSE i \in colons : \A j \in colons : i <= j
  <1>1. /\ Len(p) = 3 + Len(str) /\ DOMAIN p = 1 .. 3 + Len(str) /\ Len(str) \in Nat
        /\ p[1] = 43 /\ p[2] = 57 /\ p[3] = Colon
        /\ SubSeq(p, 1, 2) = Phone /\ SubSeq(p, 4, Len(p)) = str
    BY CommandIs
  <1>2. Handle_ServerCmd_ToSMS(p) =
            IF colons = {} \/ c = 1 \/ c = Len(p) THEN <<>>
            ELSE <<[phone |-> SubSeq(p, 1, c - 1),
                    msg |-> Copied(SubSeq(p, c + 1, Len(p)), CommandLen),
                    msg_is_ucs2_hex |->
                        looks_like_ucs2_hex(Copied(SubSeq(p, c + 1, Len(p)), CommandLen))]>>
    BY DEF Handle_ServerCmd_ToSMS
  <1>3. Copied(str, CommandLen) = str
    BY WholeCopy
  <1> HIDE DEF p
  <1>4. 3 \in colons /\ \A j \in colons : 3 <= j
    BY <1>1 DEF Colon
  <1>5. c = 3
    <2>1. c \in colons /\ \A j \in colons : c <= j
      <3> HIDE DEF colons
      <3> QED
        BY <1>4, Zenon
    <2>2. c \in Int
      BY <1>1, <2>1
    <2> QED
      BY <1>4, <2>1, <2>2
  <1>6. colons # {} /\ c # 1 /\ c # Len(p) /\ c - 1 = 2 /\ c + 1 = 4
    <2> HIDE DEF c
    <2> QED
      BY <1>1, <1>4, <1>5
  <1>7. Handle_ServerCmd_ToSMS(p) =
            <<[phone |-> Phone, msg |-> str, msg_is_ucs2_hex |-> looks_like_ucs2_hex(str)]>>
    <2> HIDE DEF c, colons
    <2> QED
      BY <1>1, <1>2, <1>3, <1>6
  <1> QED
    BY <1>7 DEF p

LEMMA WrittenIs ==
    ASSUME NEW t \in Texts, NEW coded \in BOOLEAN
    PROVE  /\ Text(Written(t, coded)) /\ Len(Written(t, coded)) # 0
           /\ coded => looks_like_ucs2_hex(Written(t, coded))
  <1>1. Text(t) /\ Len(t) # 0 /\ Len(t) \in Nat
    BY TextIs
  <1>2. CASE coded
    <2>1. Len(ascii_to_ucs2_hex(t)) = 4 * Len(t)
      BY <1>1, HexIs
    <2>2. Len(ascii_to_ucs2_hex(t)) # 0
      BY <1>1, <2>1
    <2> QED
      BY <1>1, <1>2, <2>2, AllDigits DEF Written
  <1>3. CASE ~coded
    BY <1>1, <1>3 DEF Written
  <1> QED
    BY <1>2, <1>3

LEMMA CommandInExact ==
    ASSUME NEW text \in Texts, CommandIn(text)
    PROVE  TextsExact'
  <1>1. PICK coded \in Forms(text) :
            LET items == Handle_ServerCmd_ToSMS(Phone \o <<Colon>> \o Written(text, coded)) IN
            /\ textIn' = [from |-> "broker", text |-> text, coded |-> coded]
            /\ textOut' = [i \in DOMAIN items |->
                              [to |-> items[i].phone, text |-> Units(SMS_Send_UCS2(items[i]))]]
    BY DEF CommandIn
  <1>2. coded \in BOOLEAN
    BY DEF Forms
  <1>3. Text(text) /\ Len(text) # 0
    BY TextIs
  <1> DEFINE str == Written(text, coded)
             item == [phone |-> Phone, msg |-> str, msg_is_ucs2_hex |-> looks_like_ucs2_hex(str)]
             read == ~coded /\ Ambiguous(text)
             long == Len(str) > CommandLen
  <1>4. ASSUME ~read, ~long
        PROVE  textOut' = <<[to |-> Phone, text |-> text]>>
    <2>1. Handle_ServerCmd_ToSMS(Phone \o <<Colon>> \o str) = <<item>>
      BY <1>2, <1>4, WrittenIs, ItemIs
    <2>2. coded <=> looks_like_ucs2_hex(str)
      <3>1. CASE coded
        BY <1>2, <3>1, WrittenIs
      <3>2. CASE ~coded
        BY <1>3, <1>4, <3>2, NotDigits DEF Ambiguous, Written
      <3> QED
        BY <3>1, <3>2
    <2>3. Units(SMS_Send_UCS2(item)) = text
      <3>1. SMS_Send_UCS2(item) = IF looks_like_ucs2_hex(str) THEN str ELSE ascii_to_ucs2_hex(str)
        BY DEF SMS_Send_UCS2
      <3>2. SMS_Send_UCS2(item) = ascii_to_ucs2_hex(text)
        BY <1>2, <2>2, <3>1 DEF Written
      <3> QED
        BY <1>3, <3>2, AllDigits
    <2>4. item.phone = Phone
      OBVIOUS
    <2>5. textOut' = [i \in DOMAIN <<item>> |->
                         [to |-> <<item>>[i].phone, text |-> Units(SMS_Send_UCS2(<<item>>[i]))]]
      BY <1>1, <2>1
    <2> HIDE DEF item
    <2>6. textOut' = <<[to |-> item.phone, text |-> Units(SMS_Send_UCS2(item))]>>
      BY <2>5
    <2> QED
      BY <2>3, <2>4, <2>6
  <1>5. textIn'.from = "broker" /\ textIn'.text = text /\ textIn'.coded = coded
    BY <1>1
  <1>6. read <=> ReadWrong'
    BY <1>5 DEF ReadWrong
  <1>7. \/ ReadWrong' \/ Len(Written(textIn.text, textIn.coded))' > CommandLen
        \/ textOut' = <<[to |-> Phone, text |-> textIn.text']>>
    BY <1>4, <1>5, <1>6
  <1> QED
    BY <1>5, <1>7 DEF TextsExact

LEMMA NoCommandInExact ==
    ASSUME NEW text \in Texts, NoCommandIn(text)
    PROVE  TextsExact'
  <1>1. PICK p \in {Phone, Phone \o <<Colon>>, <<Colon>> \o text} :
            textOut' = Handle_ServerCmd_ToSMS(p)
    BY DEF NoCommandIn
  <1> DEFINE colons == {i \in DOMAIN p : p[i] = Colon}
             c == CHOOSE i \in colons : \A j \in colons : i <= j
  <1>2. colons = {} \/ c = 1 \/ c = Len(p) => Handle_ServerCmd_ToSMS(p) = <<>>
    BY DEF Handle_ServerCmd_ToSMS
  <1>3. ASSUME NEW k \in colons, colons \subseteq Int, \A j \in colons : k <= j
        PROVE  c = k
    <2>1. c \in colons /\ \A j \in colons : c <= j
      <3> HIDE DEF colons
      <3> QED
        BY <1>3, Zenon
    <2> HIDE DEF c, colons
    <2> QED
      BY <1>3, <2>1
  <1>4. textOut' = <<>>
    <2>4. CASE p = Phone
      <3>1. colons = {}
        BY <2>4 DEF Phone, Colon
      <3> QED
        BY <1>1, <1>2, <3>1
    <2>5. CASE p = Phone \o <<Colon>>
      <3>1. p = <<43, 57, Colon>>
        BY <2>5, PhoneColon
      <3>2. DOMAIN p = 1 .. 3 /\ Len(p) = 3 /\ p[1] = 43 /\ p[2] = 57 /\ p[3] = Colon
        BY <3>1
      <3>3. 3 \in colons /\ colons \subseteq Int /\ \A j \in colons : 3 <= j
        BY <3>2 DEF Colon
      <3>4. c = Len(p)
        BY <1>3, <3>2, <3>3
      <3> QED
        BY <1>1, <1>2, <3>4
    <2>6. CASE p = <<Colon>> \o text
      <3>1. text \in Seq(Char) /\ Len(text) \in Nat
        BY TextIs DEF Text
      <3>2. DOMAIN p = 1 .. 1 + Len(text) /\ p[1] = Colon
        <4>1. <<Colon>> \in Seq(Char) /\ Len(<<Colon>>) = 1 /\ <<Colon>>[1] = Colon
          BY PhoneColon
        <4>2. p \in Seq(Char) /\ Len(p) = 1 + Len(text)
          BY <2>6, <3>1, <4>1, ConcatProperties
        <4>3. p[1] = Colon
          BY <2>6, <3>1, <4>1, ConcatProperties
        <4> QED
          BY <4>2, <4>3
      <3>3. 1 \in colons /\ colons \subseteq Int /\ \A j \in colons : 1 <= j
        BY <3>1, <3>2
      <3>4. c = 1
        BY <1>3, <3>3
      <3> QED
        BY <1>1, <1>2, <3>4
    <2> QED
      BY <2>4, <2>5, <2>6
  <1>5. textIn'.from = "nobody"
    BY DEF NoCommandIn
  <1> QED
    BY <1>4, <1>5 DEF TextsExact

-----------------------------------------------------------------------------
(* The balance.                                                            *)

\* What is kept of the digits: as many characters as a short message holds.
LEMMA WholeIs ==
    ASSUME NEW t, Text(t), NEW n \in 0 .. 4 * Len(t), NEW s,
           Begins(s, ascii_to_ucs2_hex(t), n)
    PROVE  Begins(Whole(s), ascii_to_ucs2_hex(t),
                  4 * (IF n \div 4 > SmsLen THEN SmsLen ELSE n \div 4))
  <1> DEFINE h == ascii_to_ucs2_hex(t)
             q == n \div 4
             cut == Copied(s, 4 * q)
  <1>0. SmsLen \in Nat /\ 4 * SmsLen \in Nat
    BY TextAssumption
  <1>1. Text(h) /\ Len(h) = 4 * Len(t) /\ Len(t) \in Nat
    BY HexIs
  <1>2. q \in Nat /\ 4 * q \in Nat /\ 4 * q <= n /\ n \in Nat
    BY <1>1, SMT
  <1>3. Text(s) /\ Len(s) = n
    BY DEF Begins
  <1>4. Whole(s) = Copied(cut, 4 * SmsLen)
    BY <1>3 DEF Whole
  <1> HIDE DEF h, q
  <1>5. Begins(cut, s, 4 * q)
    <2>1. Begins(cut, s, IF Len(s) > 4 * q THEN 4 * q ELSE Len(s))
      BY <1>2, <1>3, CopiedBegins
    <2>2. (IF Len(s) > 4 * q THEN 4 * q ELSE Len(s)) = 4 * q
      BY <1>2, <1>3
    <2> QED
      BY <2>1, <2>2
  <1> HIDE DEF cut
  <1>6. Text(cut) /\ Len(cut) = 4 * q
    BY <1>5 DEF Begins
  <1> DEFINE m == IF q > SmsLen THEN SmsLen ELSE q
  <1>7. Begins(Whole(s), cut, 4 * m)
    <2>1. Begins(Whole(s), cut, IF Len(cut) > 4 * SmsLen THEN 4 * SmsLen ELSE Len(cut))
      BY <1>0, <1>4, <1>6, CopiedBegins
    <2>2. (IF Len(cut) > 4 * SmsLen THEN 4 * SmsLen ELSE Len(cut)) = 4 * m
      BY <1>0, <1>2, <1>6
    <2> QED
      BY <2>1, <2>2
  <1> HIDE DEF m
  <1>8. Begins(s, h, n)
    BY DEF h
  <1>9. Begins(cut, h, 4 * q)
    BY <1>1, <1>5, <1>8, BeginsAgain
  <1>10. Begins(Whole(s), h, 4 * m)
    BY <1>1, <1>7, <1>9, BeginsAgain
  <1> QED
    BY <1>10 DEF h, q, m

\* How many characters of a text a short message holds.
Held(t) == IF Len(t) > SmsLen THEN SmsLen ELSE Len(t)

\* What is prepared of the answer: the digits of what a short message holds.
LEMMA Prepared ==
    ASSUME NEW t, Text(t), Len(t) # 0, ~AllIn(t, Ascii), ~(4 * Len(t) > UssdRoom)
    PROVE  Begins(USSD_OnResultAndPrepareSMS(OnURCHandler_USSD_caches(ascii_to_ucs2_hex(t))),
                  ascii_to_ucs2_hex(t), 4 * Held(t))
  <1> DEFINE h == ascii_to_ucs2_hex(t)
             s == Copied(h, UssdLen)
             n == IF Len(h) > UssdLen THEN UssdLen ELSE Len(h)
             d == Whole(s)
  <1>0. /\ SmsLen \in Nat /\ SmsLen # 0 /\ UssdLen \in Nat /\ UssdRoom \in Nat
        /\ UssdLen % 4 = 3 /\ UssdLen >= 4 * SmsLen
    BY TextAssumption
  <1>1. Text(h) /\ Len(h) = 4 * Len(t) /\ Len(t) \in Nat /\ Units(h) = t
        /\ \A i \in 1 .. Len(h) : is_hex_char(h[i])
    BY HexIs, AllDigits
  <1>2. OnURCHandler_USSD_caches(h) = s
    <2> HIDE DEF h
    <2> QED
      BY <1>0, <1>1 DEF OnURCHandler_USSD_caches
  <1>3. Begins(s, h, n)
    <2> HIDE DEF h
    <2> QED
      BY <1>0, <1>1, CopiedBegins
  <1> HIDE DEF h
  <1>4. n \in 0 .. 4 * Len(t)
    BY <1>0, <1>1
  <1>5. ~(looks_like_ucs2_hex(s) /\ AllIn(Units(s), Ascii))
    <2>1. CASE Len(h) > UssdLen
      <3>1. Len(s) = UssdLen
        BY <1>3, <2>1 DEF Begins
      <3> QED
        BY <1>0, <3>1 DEF looks_like_ucs2_hex
    <2>2. CASE ~(Len(h) > UssdLen)
      BY <1>1, <2>2, WholeCopy
    <2> QED
      BY <2>1, <2>2
  <1>6. OnlyDigits(s) = s
    <2> HIDE DEF s, n
    <2>1. Text(s) /\ Len(s) = n /\ n \in 0 .. Len(h) /\ \A i \in 1 .. n : s[i] = h[i]
      BY <1>3 DEF Begins
    <2>2. \A i \in 1 .. Len(s) : is_hex_char(s[i])
      BY <1>1, <2>1
    <2> QED
      BY <2>1, <2>2, SameDigits
  <1>7. ucs2_hex_sanitize_and_trim(s) = d
    BY <1>6 DEF ucs2_hex_sanitize_and_trim
  <1>8. (IF n \div 4 > SmsLen THEN SmsLen ELSE n \div 4) = Held(t)
    <2>1. CASE Len(h) > UssdLen
      <3>1. n = UssdLen /\ Len(t) > SmsLen
        BY <1>0, <1>1, <2>1
      <3>2. UssdLen \div 4 \in Int /\ UssdLen \div 4 >= SmsLen
        BY <1>0, SMT
      <3>3. n \div 4 \in Int /\ n \div 4 >= SmsLen
        BY <3>1, <3>2
      <3> HIDE DEF n
      <3> QED
        BY <1>0, <3>1, <3>3 DEF Held
    <2>2. CASE ~(Len(h) > UssdLen)
      <3>1. n \div 4 = Len(t)
        BY <1>1, <2>2, SMT
      <3> QED
        BY <3>1 DEF Held
    <2> QED
      BY <2>1, <2>2
  <1>9. Begins(d, h, 4 * Held(t))
    <2>1. Begins(s, ascii_to_ucs2_hex(t), n)
      BY <1>3 DEF h
    <2> HIDE DEF s, n
    <2>2. Begins(d, ascii_to_ucs2_hex(t), 4 * (IF n \div 4 > SmsLen THEN SmsLen ELSE n \div 4))
      BY <1>4, <2>1, WholeIs
    <2> QED
      BY <1>8, <2>2 DEF h
  <1>10. Len(d) >= 4
    <2>1. Len(d) = 4 * Held(t)
      BY <1>9 DEF Begins
    <2>2. Held(t) \in Nat /\ Held(t) # 0
      BY <1>0, <1>1 DEF Held
    <2> QED
      BY <2>1, <2>2
  <1>11. USSD_OnResultAndPrepareSMS(s) = d
    <2> HIDE DEF s, d, n
    <2> QED
      BY <1>5, <1>7, <1>10 DEF USSD_OnResultAndPrepareSMS
  <1>12. Begins(USSD_OnResultAndPrepareSMS(OnURCHandler_USSD_caches(h)), h, 4 * Held(t))
    BY <1>2, <1>9, <1>11
  <1> QED
    BY <1>12 DEF h

\* 000A is written at the place of a character if that is the new line.
LEMMA NewLineAt ==
    ASSUME NEW t, Text(t), NEW s, Text(s), NEW k \in 0 .. Len(t),
           Begins(s, ascii_to_ucs2_hex(t), 4 * k), NEW j \in 1 .. k
    PROVE  4 * j - 3 \in LineEnds(s) <=> t[j] = NewLine
  <1> DEFINE h == ascii_to_ucs2_hex(t)
             i == 4 * j - 3
  <1>1. /\ Len(t) \in Nat
        /\ h[4 * j - 3] = Digit(Part(t[j], 1)) /\ h[4 * j - 2] = Digit(Part(t[j], 2))
        /\ h[4 * j - 1] = Digit(Part(t[j], 3)) /\ h[4 * j] = Digit(Part(t[j], 4))
    <2>1. Len(t) \in Nat
      BY HexIs
    <2>2. j \in 1 .. Len(t)
      BY <2>1
    <2> QED
      BY <2>1, <2>2, HexIs
  <1>2. Text(s) /\ Len(s) = 4 * k /\ \A m \in 1 .. 4 * k : s[m] = h[m]
    BY DEF Begins
  <1> HIDE DEF h
  <1>3. /\ j \in Nat /\ k \in Nat /\ i \in Nat /\ i \in 1 .. Len(s) - 3
        /\ i + 1 = 4 * j - 2 /\ i + 2 = 4 * j - 1 /\ i + 3 = 4 * j
    BY <1>1, <1>2
  <1> HIDE DEF i
  <1>4. /\ s[i] = h[4 * j - 3] /\ s[i + 1] = h[4 * j - 2]
        /\ s[i + 2] = h[4 * j - 1] /\ s[i + 3] = h[4 * j]
    <2>1. i = 4 * j - 3 /\ 4 * j - 3 \in 1 .. 4 * k /\ 4 * j - 2 \in 1 .. 4 * k
          /\ 4 * j - 1 \in 1 .. 4 * k /\ 4 * j \in 1 .. 4 * k
      BY <1>3 DEF i
    <2> QED
      BY <1>2, <1>3, <2>1
  <1>5. SubSeq(s, i, i + 3) = [m \in 1 .. 4 |-> s[i + m - 1]]
    <2>1. s \in Seq(Char) /\ Len(s) \in Nat
      BY <1>2 DEF Text
    <2> QED
      BY <1>3, <2>1
  <1>6. SubSeq(s, i, i + 3) = <<48, 48, 48, 65>>
            <=> s[i] = 48 /\ s[i + 1] = 48 /\ s[i + 2] = 48 /\ s[i + 3] = 65
    <2> DEFINE f == SubSeq(s, i, i + 3)
    <2>1. f[1] = s[i] /\ f[2] = s[i + 1] /\ f[3] = s[i + 2] /\ f[4] = s[i + 3]
      <3>1. i + 1 - 1 = i /\ i + 2 - 1 = i + 1 /\ i + 3 - 1 = i + 2 /\ i + 4 - 1 = i + 3
        BY <1>3
      <3>2. \A m \in 1 .. 4 : f[m] = s[i + m - 1]
        BY <1>5
      <3> HIDE DEF f
      <3>3. 1 \in 1 .. 4 /\ 2 \in 1 .. 4 /\ 3 \in 1 .. 4 /\ 4 \in 1 .. 4
        OBVIOUS
      <3> QED
        BY <3>1, <3>2, <3>3
    <2>2. f = [m \in 1 .. 4 |-> f[m]]
      BY <1>5
    <2> HIDE DEF f
    <2>3. <<48, 48, 48, 65>> =
              [m \in 1 .. 4 |-> IF m = 1 \/ m = 2 \/ m = 3 THEN 48 ELSE 65]
      OBVIOUS
    <2>4. f = <<48, 48, 48, 65>> => f[1] = 48 /\ f[2] = 48 /\ f[3] = 48 /\ f[4] = 65
      OBVIOUS
    <2>5. ASSUME f[1] = 48, f[2] = 48, f[3] = 48, f[4] = 65
          PROVE  f = <<48, 48, 48, 65>>
      <3>1. \A m \in 1 .. 4 : f[m] = IF m = 1 \/ m = 2 \/ m = 3 THEN 48 ELSE 65
        BY <2>5
      <3> QED
        BY <2>2, <2>3, <3>1
    <2> QED
      BY <2>1, <2>4, <2>5 DEF f
  <1>7. i \in LineEnds(s) <=> s[i] = 48 /\ s[i + 1] = 48 /\ s[i + 2] = 48 /\ s[i + 3] = 65
    BY <1>3, <1>6 DEF LineEnds
  <1> DEFINE x == t[j]
  <1>8. x \in Nat /\ x < 65536
    <2>1. j \in 1 .. Len(t)
      BY <1>1, <1>3
    <2> QED
      BY <2>1, LenIs, CharIs
  <1>9. /\ Part(x, 1) \in 0 .. 15 /\ Part(x, 2) \in 0 .. 15
        /\ Part(x, 3) \in 0 .. 15 /\ Part(x, 4) \in 0 .. 15
        /\ 4096 * Part(x, 1) + 256 * Part(x, 2) + 16 * Part(x, 3) + Part(x, 4) = x
    <2> HIDE DEF x
    <2> QED
      BY <1>8, FourParts
  <1>10. i \in LineEnds(s)
            <=> Part(x, 1) = 0 /\ Part(x, 2) = 0 /\ Part(x, 3) = 0 /\ Part(x, 4) = 10
    <2> HIDE DEF x
    <2>1. /\ s[i] = Digit(Part(x, 1)) /\ s[i + 1] = Digit(Part(x, 2))
          /\ s[i + 2] = Digit(Part(x, 3)) /\ s[i + 3] = Digit(Part(x, 4))
      BY <1>1, <1>4, Zenon DEF x
    <2>2. /\ (Digit(Part(x, 1)) = 48 <=> Part(x, 1) = 0)
          /\ (Digit(Part(x, 2)) = 48 <=> Part(x, 2) = 0)
          /\ (Digit(Part(x, 3)) = 48 <=> Part(x, 3) = 0)
          /\ (Digit(Part(x, 4)) = 65 <=> Part(x, 4) = 10)
      <3>1. \A v \in 0 .. 15 : (Digit(v) = 48 <=> v = 0) /\ (Digit(v) = 65 <=> v = 10)
        BY DigitTells
      <3>2. /\ Part(x, 1) \in 0 .. 15 /\ Part(x, 2) \in 0 .. 15
            /\ Part(x, 3) \in 0 .. 15 /\ Part(x, 4) \in 0 .. 15
        BY <1>9
      <3> QED
        BY <3>1, <3>2, Zenon
    <2> QED
      BY <1>7, <2>1, <2>2, Zenon
  <1> DEFINE x1 == Part(x, 1)
             x2 == Part(x, 2)
             x3 == Part(x, 3)
             x4 == Part(x, 4)
  <1>11. (x1 = 0 /\ x2 = 0 /\ x3 = 0 /\ x4 = 10) <=> x = 10
    <2>1. /\ x1 \in 0 .. 15 /\ x2 \in 0 .. 15 /\ x3 \in 0 .. 15 /\ x4 \in 0 .. 15
          /\ 4096 * x1 + 256 * x2 + 16 * x3 + x4 = x
      BY <1>9
    <2> HIDE DEF x, x1, x2, x3, x4
    <2>2. ASSUME x1 = 0, x2 = 0, x3 = 0, x4 = 10 PROVE x = 10
      BY <2>1, <2>2
    <2>3. ASSUME x = 10 PROVE x1 = 0 /\ x2 = 0 /\ x3 = 0 /\ x4 = 10
      <3>1. x1 < 1
        BY <2>1, <2>3
      <3>2. x1 = 0
        BY <2>1, <3>1
      <3>3. x2 < 1
        BY <2>1, <2>3, <3>2
      <3>4. x2 = 0
        BY <2>1, <3>3
      <3>5. x3 < 1
        BY <2>1, <2>3, <3>2, <3>4
      <3>6. x3 = 0
        BY <2>1, <3>5
      <3> QED
        BY <2>1, <2>3, <3>2, <3>4, <3>6
    <2> QED
      BY <2>2, <2>3
  <1> QED
    BY <1>10, <1>11 DEF NewLine, i

\* The least of a set, as the model takes it.
LEMMA LeastIs ==
    ASSUME NEW S, S \subseteq Nat, S # {}
    PROVE  LET m == CHOOSE i \in S : \A j \in S : i <= j
           IN  m \in S /\ \A j \in S : m <= j
  <1>1. \E i \in S : \A j \in S : i <= j
    BY NatMin
  <1> QED
    BY <1>1, Zenon

\* Of the digits of k characters, in which 000A is only written for a new line,
\* those before the first new line are sent.
LEMMA LineSent ==
    ASSUME NEW t, Text(t), ~Crosses(t), NEW k \in 0 .. Len(t), k <= SmsLen, NEW s,
           Begins(s, ascii_to_ucs2_hex(t), 4 * k)
    PROVE  \/ /\ \A j \in 1 .. k : t[j] # NewLine
              /\ Send_Persian_SMS_Fixed(s) = SubSeq(t, 1, k)
           \/ \E j \in 1 .. k :
                 /\ t[j] = NewLine /\ \A m \in 1 .. k : t[m] = NewLine => j <= m
                 /\ Send_Persian_SMS_Fixed(s) = SubSeq(t, 1, j - 1)
  <1> DEFINE h == ascii_to_ucs2_hex(t)
             ends == LineEnds(s)
             e == CHOOSE i \in ends : \A j \in ends : i <= j
  <1>1. Text(h) /\ Len(h) = 4 * Len(t) /\ Len(t) \in Nat /\ k \in Nat /\ k <= Len(t)
    <2>1. Text(h) /\ Len(h) = 4 * Len(t) /\ Len(t) \in Nat
      BY HexIs
    <2> HIDE DEF h
    <2> QED
      BY <2>1
  <1>2. Text(s) /\ Len(s) = 4 * k /\ OnlyDigits(s) = s /\ \A i \in 1 .. 4 * k : s[i] = h[i]
    BY FirstDigits DEF Begins
  <1>3. SmsLen \in Nat
    BY TextAssumption
  <1>4. \A j \in 1 .. k : 4 * j - 3 \in ends <=> t[j] = NewLine
    BY <1>2, NewLineAt
  <1>5. ucs2_hex_trim_for_sms(s) = Whole(IF ends = {} THEN s ELSE SubSeq(s, 1, e - 1))
    BY <1>2 DEF ucs2_hex_trim_for_sms
  \* What is kept of a number of whole characters.
  <1>6. ASSUME NEW m \in 0 .. k, NEW u, Begins(u, h, 4 * m)
        PROVE  Units(Whole(u)) = SubSeq(t, 1, m)
    <2>1. m \in Nat /\ 4 * m \in 0 .. 4 * Len(t) /\ (4 * m) \div 4 = m /\ m \in 0 .. Len(t)
      BY <1>1, SMT
    <2>2. Begins(Whole(u), h, 4 * (IF (4 * m) \div 4 > SmsLen THEN SmsLen ELSE (4 * m) \div 4))
      BY <1>6, <2>1, WholeIs
    <2>3. (IF (4 * m) \div 4 > SmsLen THEN SmsLen ELSE (4 * m) \div 4) = m
      BY <1>1, <1>3, <2>1
    <2>4. Begins(Whole(u), h, 4 * m)
      BY <2>2, <2>3
    <2> QED
      BY <2>1, <2>4, FirstDigits
  <1>7. CASE ends = {}
    <2>1. \A j \in 1 .. k : t[j] # NewLine
      BY <1>4, <1>7
    <2>2. Send_Persian_SMS_Fixed(s) = Units(Whole(s))
      BY <1>5, <1>7 DEF Send_Persian_SMS_Fixed
    <2>3. k \in 0 .. k
      BY <1>1
    <2>4. Units(Whole(s)) = SubSeq(t, 1, k)
      BY <1>6, <2>3
    <2> QED
      BY <2>1, <2>2, <2>4
  <1>8. CASE ends # {}
    <2>1. ends \subseteq 1 .. 4 * k - 3
      BY <1>2 DEF LineEnds
    <2>2. ends \subseteq Nat
      <3> HIDE DEF ends
      <3> QED
        BY <1>1, <2>1
    <2>3. e \in ends /\ \A i \in ends : e <= i
      BY <1>8, <2>2, LeastIs
    <2> HIDE DEF e
    <2>4. e \in Nat /\ 1 <= e /\ e <= 4 * k - 3
      <3> HIDE DEF ends
      <3> QED
        BY <1>1, <2>1, <2>3
    <2>5. e \in LineEnds(h)
      <3>1. s \in Seq(Char) /\ h \in Seq(Char) /\ Len(s) \in Nat /\ Len(h) \in Nat
        BY <1>1, <1>2 DEF Text
      <3>2. SubSeq(s, e, e + 3) = <<48, 48, 48, 65>>
        BY <2>3 DEF LineEnds
      <3> HIDE DEF h, ends
      <3>3. SubSeq(s, e, e + 3) = [i \in 1 .. 4 |-> s[e + i - 1]]
        BY <1>1, <1>2, <2>4, <3>1
      <3>4. SubSeq(h, e, e + 3) = [i \in 1 .. 4 |-> h[e + i - 1]]
        BY <1>1, <1>2, <2>4, <3>1
      <3>5. \A i \in 1 .. 4 : s[e + i - 1] = h[e + i - 1]
        BY <1>1, <1>2, <2>4
      <3>6. e \in 1 .. Len(h) - 3
        BY <1>1, <2>4
      <3> QED
        BY <3>2, <3>3, <3>4, <3>5, <3>6 DEF LineEnds
    <2>6. e % 4 = 1
      BY <2>5 DEF Crosses
    <2> DEFINE j == (e + 3) \div 4
    <2>7. e = 4 * j - 3 /\ j \in 1 .. k
      <3>1. j \in Int /\ 4 * j <= e + 3 /\ e + 3 < 4 * j + 4
        BY <2>4, SMT
      <3>2. e - 4 * (e \div 4) = e % 4 /\ e \div 4 \in Int
        BY <2>4, SMT
      <3> DEFINE top == e \div 4
      <3>3. e - 4 * top = 1 /\ top \in Int
        BY <2>6, <3>2
      <3> HIDE DEF j, top
      <3>4. e = 4 * j - 3
        BY <2>4, <3>1, <3>3
      <3> QED
        BY <1>1, <2>4, <3>1, <3>4
    <2> HIDE DEF j
    <2>8. t[j] = NewLine
      BY <1>4, <2>3, <2>7
    <2>9. ASSUME NEW m \in 1 .. k, t[m] = NewLine PROVE j <= m
      <3>1. 4 * m - 3 \in ends
        BY <1>4, <2>9
      <3>2. e <= 4 * m - 3
        BY <2>3, <3>1
      <3> QED
        BY <1>1, <2>7, <3>2
    <2>10. Send_Persian_SMS_Fixed(s) = Units(Whole(SubSeq(s, 1, 4 * (j - 1))))
      <3>1. e - 1 = 4 * (j - 1)
        BY <1>1, <2>7
      <3> HIDE DEF ends
      <3> QED
        BY <1>5, <1>8, <3>1 DEF Send_Persian_SMS_Fixed, e
    <2>11. Begins(SubSeq(s, 1, 4 * (j - 1)), h, 4 * (j - 1))
      <3>1. 4 * (j - 1) \in 0 .. Len(s)
        BY <1>1, <1>2, <2>7
      <3>2. Begins(SubSeq(s, 1, 4 * (j - 1)), s, 4 * (j - 1))
        BY <1>2, <3>1, CutBegins
      <3>3. Begins(s, h, 4 * k)
        OBVIOUS
      <3> HIDE DEF h
      <3> QED
        BY <1>1, <3>2, <3>3, BeginsAgain
    <2>12. j - 1 \in 0 .. k
      BY <1>1, <2>7
    <2>13. Units(Whole(SubSeq(s, 1, 4 * (j - 1)))) = SubSeq(t, 1, j - 1)
      <3> HIDE DEF h
      <3> QED
        BY <1>6, <2>11, <2>12
    <2> QED
      BY <2>7, <2>8, <2>9, <2>10, <2>13
  <1> QED
    BY <1>7, <1>8

\* The first line of a text, or as much of it as a short message holds.
LEMMA FirstLineIs ==
    ASSUME NEW t, Text(t)
    PROVE  /\ (\A j \in 1 .. Held(t) : t[j] # NewLine) => FirstLine(t) = SubSeq(t, 1, Held(t))
           /\ \A j \in 1 .. Held(t) :
                 (t[j] = NewLine /\ \A m \in 1 .. Held(t) : t[m] = NewLine => j <= m)
                    => FirstLine(t) = SubSeq(t, 1, j - 1)
  <1> DEFINE ends == {i \in DOMAIN t : t[i] = NewLine}
             c == CHOOSE i \in ends : \A j \in ends : i <= j
             n == c - 1
             k == Held(t)
  <1>1. DOMAIN t = 1 .. Len(t) /\ Len(t) \in Nat /\ SmsLen \in Nat
    BY TextAssumption DEF Text
  <1>2. k \in Nat /\ k <= Len(t) /\ k <= SmsLen /\ (k < Len(t) => SmsLen <= k)
    BY <1>1 DEF Held
  <1>3. FirstLine(t) = Copied(t, IF ends = {} THEN SmsLen ELSE IF n < SmsLen THEN n ELSE SmsLen)
    BY DEF FirstLine
  <1>4. ends \subseteq Nat
    BY <1>1
  <1>5. ends # {} => c \in ends /\ \A j \in ends : c <= j
    <2> HIDE DEF ends
    <2> QED
      BY <1>4, LeastIs
  <1> HIDE DEF c
  <1>6. Copied(t, SmsLen) = SubSeq(t, 1, k)
    <2>1. CASE Len(t) > SmsLen
      BY <2>1 DEF Copied, Held
    <2>2. CASE ~(Len(t) > SmsLen)
      <3>1. k = Len(t) /\ Copied(t, SmsLen) = t
        BY <2>2 DEF Copied, Held
      <3>2. Begins(t, t, Len(t)) /\ Begins(SubSeq(t, 1, Len(t)), t, Len(t))
        BY <1>1, CutBegins, WholeBegins
      <3>3. SubSeq(t, 1, Len(t)) = t
        BY <3>2, OneBeginning
      <3> QED
        BY <3>1, <3>3
    <2> QED
      BY <2>1, <2>2
  <1>7. ASSUME \A j \in 1 .. k : t[j] # NewLine
        PROVE  FirstLine(t) = SubSeq(t, 1, k)
    <2>1. CASE ends = {}
      <3> HIDE DEF ends
      <3> QED
        BY <1>3, <1>6, <2>1
    <2>2. CASE ends # {}
      <3>1. c \in 1 .. Len(t) /\ t[c] = NewLine
        BY <1>1, <1>5, <2>2
      <3>2. c > k /\ c \in Nat
        <4> HIDE DEF k
        <4> QED
          BY <1>1, <1>2, <1>7, <3>1
      <3>3. ~(n < SmsLen)
        <4> HIDE DEF k
        <4> QED
          BY <1>1, <1>2, <3>1, <3>2
      <3> HIDE DEF ends, n
      <3> QED
        BY <1>3, <1>6, <2>2, <3>3
    <2> QED
      BY <2>1, <2>2
  <1>8. ASSUME NEW j \in 1 .. k, t[j] = NewLine, \A m \in 1 .. k : t[m] = NewLine => j <= m
        PROVE  FirstLine(t) = SubSeq(t, 1, j - 1)
    <2> HIDE DEF k
    <2>1. j \in 1 .. Len(t) /\ j \in Nat
      BY <1>1, <1>2
    <2>2. j \in ends
      BY <1>1, <1>8, <2>1
    <2>3. c \in Nat /\ c \in 1 .. Len(t) /\ t[c] = NewLine /\ c <= j
      BY <1>1, <1>5, <2>2
    <2>4. c = j
      <3>1. c \in 1 .. k
        BY <1>2, <2>1, <2>3
      <3> QED
        BY <1>8, <2>1, <2>3, <3>1
    <2>5. n < SmsLen /\ Len(t) > n /\ n = j - 1
      BY <1>1, <1>2, <2>1, <2>4
    <2>6. ends # {}
      BY <2>2
    <2> HIDE DEF n, ends
    <2>7. FirstLine(t) = Copied(t, n)
      BY <1>3, <2>5, <2>6
    <2> QED
      BY <2>5, <2>7 DEF Copied
  <1> QED
    BY <1>7, <1>8

LEMMA UssdInExact ==
    ASSUME NEW text \in Texts, UssdIn(text)
    PROVE  TextsExact'
  <1>1. PICK coded \in FormsOfModem(text) :
            /\ textIn' = [from |-> "network", text |-> text, coded |-> coded]
            /\ textOut' = Send_Persian_SMS_Fixed(USSD_OnResultAndPrepareSMS(
                              OnURCHandler_USSD_caches(Written(text, coded))))
    BY DEF UssdIn
  <1>2. Text(text) /\ Len(text) # 0 /\ Len(text) \in Nat /\ DOMAIN text = 1 .. Len(text)
    BY TextIs
  <1> DEFINE short == ~(4 * Len(text) > UssdRoom)
  <1>3. ASSUME ~AllIn(text, Ascii), ~Crosses(text), short
        PROVE  textOut' = FirstLine(text)
    <2>1. coded
      <3>1. coded \/ AllIn(text, Ascii \ {NewLine})
        BY DEF FormsOfModem
      <3>2. AllIn(text, Ascii \ {NewLine}) => AllIn(text, Ascii)
        BY DEF AllIn
      <3> QED
        BY <1>3, <3>1, <3>2
    <2> DEFINE s == USSD_OnResultAndPrepareSMS(OnURCHandler_USSD_caches(ascii_to_ucs2_hex(text)))
    <2>2. textOut' = Send_Persian_SMS_Fixed(s)
      BY <1>1, <2>1 DEF Written
    <2>3. Begins(s, ascii_to_ucs2_hex(text), 4 * Held(text))
      BY <1>2, <1>3, Prepared
    <2>4. Held(text) \in 0 .. Len(text) /\ Held(text) <= SmsLen
      <3>1. SmsLen \in Nat
        BY TextAssumption
      <3> QED
        BY <1>2, <3>1 DEF Held
    <2> HIDE DEF s, short
    <2> DEFINE k == Held(text)
    <2> HIDE DEF k
    <2>5. \/ /\ \A j \in 1 .. Held(text) : text[j] # NewLine
             /\ Send_Persian_SMS_Fixed(s) = SubSeq(text, 1, Held(text))
          \/ \E j \in 1 .. Held(text) :
                /\ text[j] = NewLine
                /\ \A m \in 1 .. Held(text) : text[m] = NewLine => j <= m
                /\ Send_Persian_SMS_Fixed(s) = SubSeq(text, 1, j - 1)
      <3>1. Text(text) /\ ~Crosses(text)
        BY <1>2, <1>3
      <3>2. k \in 0 .. Len(text) /\ k <= SmsLen /\ Begins(s, ascii_to_ucs2_hex(text), 4 * k)
        BY <2>3, <2>4 DEF k
      <3>3. \/ /\ \A j \in 1 .. k : text[j] # NewLine
               /\ Send_Persian_SMS_Fixed(s) = SubSeq(text, 1, k)
            \/ \E j \in 1 .. k :
                  /\ text[j] = NewLine /\ \A m \in 1 .. k : text[m] = NewLine => j <= m
                  /\ Send_Persian_SMS_Fixed(s) = SubSeq(text, 1, j - 1)
        BY <3>1, <3>2, LineSent
      <3> QED
        BY <3>3 DEF k
    <2> QED
      BY <1>2, <2>2, <2>5, FirstLineIs
  <1>4. textIn'.from = "network" /\ textIn'.text = text
    BY <1>1
  <1>5. \/ AllIn(textIn.text, Ascii)' \/ Crosses(textIn.text)' \/ 4 * Len(textIn.text') > UssdRoom
        \/ textOut' = FirstLine(textIn.text)'
    BY <1>3, <1>4
  <1> QED
    BY <1>4, <1>5 DEF TextsExact

LEMMA TextInitially == TextInit => TextsExact
  BY DEF TextInit, TextsExact

LEMMA TextStep ==
    ASSUME TextsExact, [TextNext]_textVars
    PROVE  TextsExact'
  <1>1. CASE TextNext
    BY <1>1, SmsInExact, CommandInExact, NoCommandInExact, UssdInExact DEF TextNext
  <1>2. CASE UNCHANGED textVars
    BY <1>2 DEF textVars, TextsExact, ReadWrong
  <1> QED
    BY <1>1, <1>2

\* The broker gets the sender and the whole text of a short message, the recipient
\* of a command its text, nobody anything for a malformed command, and the balance
\* is the first line of the network's answer, but for the texts TextsExact excepts.
THEOREM TextsCorrect == TextSpec => []TextsExact
  BY TextInitially, TextStep, PTL DEF TextSpec

-----------------------------------------------------------------------------
(* The parts together.                                                     *)

ServInv == TypeOK /\ RilInv /\ UrcInv /\ TextsExact

LEMMA ServInitially == ServInit => ServInv
  BY RingTypeInit, RilInitially, UrcInitially, TextInitially DEF ServInit, ServInv

LEMMA ServStep ==
    ASSUME ServInv, [ServNext]_<<vars, rilVars, urcVars, textVars>>
    PROVE  ServInv'
  <1>1. [Next]_vars
    BY DEF ServNext
  <1>2. [RilNext]_rilVars
    BY DEF ServNext
  <1>3. [UrcNext]_urcVars
    BY DEF ServNext
  <1>4. TypeOK'
    BY <1>1, RingTypeStep DEF ServInv
  <1>5. RilInv'
    BY <1>2, RilInvStep DEF ServInv
  <1>6. UrcInv'
    BY <1>3, UrcStep DEF ServInv
  <1>7. TextsExact'
    <2>1. [TextNext]_textVars
      BY DEF ServNext
    <2> QED
      BY <2>1, TextStep DEF ServInv
  <1> QED
    BY <1>4, <1>5, <1>6, <1>7 DEF ServInv

LEMMA ServAlways == ServSpec => []ServInv
  BY ServInitially, ServStep, PTL DEF ServSpec

\* The indexes of the ring stay inside it, the calls keep to their types, and the
\* messages to the application to the room of its queue.
THEOREM ServTypeCorrect == ServSpec => []ServTypeOK
  <1>1. ServInv => ServTypeOK
    BY RilTypesMean DEF ServInv, RilInv, UrcInv, ServTypeOK
  <1> QED
    BY <1>1, ServAlways, PTL

\* A call that met no line of an earlier command tells its caller the truth.
THEOREM ServAnswersAreTrue == ServSpec => []AnswersAreTrue
  <1>1. ServInv => AnswersAreTrue
    BY DEF ServInv, RilInv
  <1> QED
    BY <1>1, ServAlways, PTL

\* A message to the application says what the modem reported.
THEOREM ServUrcsAreTrue == ServSpec => []UrcsAreTrue
  <1>1. ServInv => UrcsAreTrue
    BY DEF ServInv, UrcInv
  <1> QED
    BY <1>1, ServAlways, PTL

\* What is passed on of a text is what was written, but for the texts TextsExact
\* excepts.
THEOREM ServTextsExact == ServSpec => []TextsExact
  <1>1. ServInv => TextsExact
    BY DEF ServInv
  <1> QED
    BY <1>1, ServAlways, PTL
=============================================================================
