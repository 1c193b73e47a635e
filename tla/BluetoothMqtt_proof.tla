------------------------- MODULE BluetoothMqtt_proof -------------------------
(***************************************************************************)
(* Proofs about the Bluetooth library, and the part of those about the     *)
(* MQTT library that is on its packets and answers; its reception is in    *)
(* Libraries_proof.                                                        *)
(*                                                                         *)
(* BtTrue compares the table with the modem only when nothing is on its    *)
(* way.  BtInv says what holds in between: as long as nothing was missed,  *)
(* a device whose entry differs from the modem has something coming that   *)
(* makes up for it, be it its row in the answer to a query, a line that    *)
(* announces the change, one that starts a new query, or the answer to the *)
(* call under way (DeviceOK, of PairOK and ConnOK), and nothing behind     *)
(* that takes it back (Settled).                                           *)
(*                                                                         *)
(* Every packet the MQTT library writes is the one that was meant          *)
(* (OutEntry), and the packets it has seen call for exactly the answers    *)
(* it has made (AllAnswered).                                              *)
(***************************************************************************)
EXTENDS RilBluetooth, MqttLib, SequenceTheorems, FiniteSetTheorems,
        WellFoundedInduction, TLAPS

-----------------------------------------------------------------------------
(* The Bluetooth library.                                                  *)

(* Types.                                                                  *)

Kinds == Answers \cup {"late", "QBTSCAN", "QBTPAIR", "QBTPAIRCNF", "QBTCONN", "QBTACPT",
                       "QBTDISC", "QBTDISCONN", "pair", "conn", "disc", "recv"}

Profiles == Names \cup {<<"SPP">>, Nothing}
ModemProfiles == Profiles \ {Nothing}

AnyLine == [is : Kinds, dev : Devices \cup {Nobody}, id : Nat, more : Profiles]

AnyModem ==
    [paired : [Devices -> Nat], conn : [Devices -> Nat],
     profile : [Devices -> ModemProfiles],
     pairing : SUBSET Devices, connecting : SUBSET Devices, asking : SUBSET Devices,
     found : Seq(Devices), scanning : BOOLEAN]

Entry == [dev : Devices \cup {Nobody}, devId : Int, pairId : Int, connId : Int,
          profileId : Int]

NoDeviceTwice(t) == \A i, j \in DOMAIN t : t[i].dev = t[j].dev => i = j

TableOK(t) == t \in Seq(Entry) /\ Len(t) <= BtSize /\ NoDeviceTwice(t)

\* The commands of the application's calls.
Queried == {"Initialize", "StartScan"}
Ops == Queried \cup {"Set", "Get", "StopScan", "Scan", "PairReq", "Unpair",
                     "GetSupportedProfile", "ConnReq", "Disconnect", "SPP_Send",
                     "SPP_Read", "PairConfirm", "ConnAccept", "DirectConn"}
CommandOf(op) ==
    CASE op \in Queried -> "QBTSTATE"
      [] op = "Get" -> "QBTGET"
      [] op = "GetSupportedProfile" -> "QBTGPROF"
      [] op = "SPP_Send" -> "QBTSPPSEND"
      [] op = "SPP_Read" -> "QSPPREAD"
      [] op = "DirectConn" -> "QBTCONND"
      [] OTHER -> "plain"

Finals == {"OK", "ERROR"}

AnswersOf(cmd) ==
    CASE cmd = "none" -> {}
      [] cmd = "QBTSTATE" -> {"state", "paired", "connected"} \cup Finals
      [] cmd = "QBTGET" -> {"value"} \cup Finals
      [] cmd = "QBTGPROF" -> {"profile"} \cup Finals
      [] cmd = "QBTSPPSEND" -> {"prompt"} \cup Finals
      [] cmd = "QSPPREAD" -> {"read", "data"} \cup Finals
      [] OTHER -> Finals

BtTyped ==
    /\ btLines \in Seq(AnyLine) /\ btModem \in AnyModem /\ TableOK(btTable)
    /\ btCallback \in BOOLEAN /\ btFirst \in BOOLEAN /\ btReadMode \in BOOLEAN
    /\ btMissed \in BOOLEAN /\ btFault \in BOOLEAN
    /\ btApp \in {NoApp} \cup [op : Ops, dev : Devices \cup {Nobody}, had : Nat]

-----------------------------------------------------------------------------
(* The command in the core, its call and its answer.                       *)

BtCommandOK ==
    \/ btCmd = NoCmd /\ btRc # "waiting"
    \/ btCmd = [cmd |-> "QBTSTATE", by |-> "handler"] /\ btRc # "waiting"
    \/ /\ btApp # NoApp /\ btRc = "waiting"
       /\ btCmd = [cmd |-> CommandOf(btApp.op), by |-> "app"]

\* The lines of an answer are for the command cmd in the core, the final one
\* last, and the state of the modem first.
AnswerOK(ls, cmd) ==
    /\ \A i \in DOMAIN ls : ls[i].is \in Answers => ls[i].is \in AnswersOf(cmd)
    /\ \A i, j \in DOMAIN ls : i < j =>
          /\ ls[i].is \in Finals => ls[j].is \notin Answers
          /\ ls[j].is = "state" => ls[i].is \notin Answers

\* The first line of a query's answer is told from the others.
PromptOK(ls, cmd, first) ==
    IF cmd = "QBTSTATE"
    THEN \/ /\ first
            /\ \A j \in DOMAIN ls : ls[j].is \in {"paired", "connected"} =>
                  \E i \in DOMAIN ls : i < j /\ ls[i].is = "state"
         \/ ~first /\ \A i \in DOMAIN ls : ls[i].is # "state"
    ELSE first

-----------------------------------------------------------------------------
(* The modem, and what the table says of it.                               *)

ModemOK(m) ==
    /\ \A d, e \in Devices : m.paired[d] = m.paired[e] /\ m.paired[d] # 0 => d = e
    /\ \A d \in m.pairing : m.paired[d] = 0
    /\ \A d \in m.asking : m.conn[d] = 0 /\ m.paired[d] # 0

\* The rows of a query's answer, and the codes upon which the table forgets.
PairRow(d) == {l \in AnyLine : l.is = "paired" /\ l.dev = d}
PairForget(d) == {l \in AnyLine : l.is = "QBTPAIRCNF" /\ l.id = 0 /\ l.dev = d}
ConnRow(d) == {l \in AnyLine : l.is = "connected" /\ l.dev = d}
ConnForget(d) ==
    {l \in AnyLine : /\ l.dev = d
                     /\ \/ l.is \in {"disc", "QBTDISC", "QBTDISCONN"}
                        \/ l.is = "QBTCONN" /\ l.id = 0}

\* Lines upon which the table is right, or has missed something: those that
\* make the handler query the state, an ERROR that makes a query fail, and a
\* row of a query.
Requery == {l \in AnyLine : l.is \in {"QBTPAIRCNF", "QBTCONN", "QBTACPT"} /\ l.id # 0}
Doom(cmd) == {l \in AnyLine : cmd = "QBTSTATE" /\ l.is = "ERROR"}
PairFix(d, cmd) == Requery \cup Doom(cmd) \cup PairRow(d)
ConnFix(d, conn, profile, cmd) ==
    Requery \cup Doom(cmd)
    \cup {l \in AnyLine : l.is = "connected" /\ l.dev = d /\ l.id = conn /\ l.more = profile}

\* A line of F comes with no line of G behind it; no line of G comes at all.
Settled(s, F, G) ==
    \E i \in DOMAIN s : s[i] \in F /\ \A j \in DOMAIN s : i < j => s[j] \notin G
Free(s, G) == \A i \in DOMAIN s : s[i] \notin G

\* The pairing of d: the modem has it under the id paired, the table under
\* known.  A row of a query holds while it is under way.  A device is in gone
\* when the modem has unpaired it and the call has still to report that.
PairOK(d, ls, known, paired, cmd, gone) ==
    /\ d \in gone => paired = 0
    /\ d \in gone \/ known = -1 \/ (paired # 0 /\ known = paired)
    /\ paired # 0 =>
          \/ Settled(ls, PairFix(d, cmd), PairForget(d))
          \/ known = paired /\ Free(ls, PairForget(d))
    /\ \A i \in DOMAIN ls : ls[i] \in PairRow(d) => paired # 0 /\ ls[i].id = paired

\* Its connection and profile.  A row holds, or the end of the connection is
\* reported behind it.
ProfileRight(profile, known) ==
    profile # <<"OBEX_PBA_PROFILE">> => pf_name[known + 1] = profile

ConnOK(d, ls, known, as, conn, profile, cmd, gone) ==
    /\ d \in gone => conn = 0 /\ Free(ls, ConnRow(d))
    /\ conn = 0 =>
          \/ d \in gone
          \/ Settled(ls, ConnForget(d), ConnRow(d))
          \/ known = -1 /\ Free(ls, ConnRow(d))
    /\ conn # 0 =>
          \/ Settled(ls, ConnFix(d, conn, profile, cmd), ConnForget(d))
          \/ known = conn /\ ProfileRight(profile, as) /\ Free(ls, ConnForget(d))
    /\ \A i \in DOMAIN ls : ls[i] \in ConnRow(d) =>
          \/ conn # 0 /\ ls[i].id = conn /\ ls[i].more = profile
          \/ \E j \in DOMAIN ls : i < j /\ ls[j] \in ConnForget(d)

KnownIn(t, d, field) ==
    IF Where(t, d) = {} THEN -1 ELSE t[Min(Where(t, d))][field]

DeviceOK(d, ls, t, m, cmd, gone) ==
    /\ d \in gone => d \notin m.connecting \cup m.asking
    /\ PairOK(d, ls, KnownIn(t, d, "pairId"), m.paired[d], cmd, gone)
    /\ ConnOK(d, ls, KnownIn(t, d, "connId"), KnownIn(t, d, "profileId"),
              m.conn[d], m.profile[d], cmd, gone)

Gone ==
    {d \in Devices :
        /\ btApp # NoApp /\ btApp.op = "Unpair" /\ btApp.dev = d
        /\ \/ btRc = "OK"
           \/ btRc = "waiting" /\ \E i \in DOMAIN btLines : btLines[i].is = "OK"}

-----------------------------------------------------------------------------
(* A read of data.                                                         *)

ReadTrue(had, out) == out \in IF had = 0 THEN {Nothing, <<0>>} ELSE {<<had>>}

ReadOK(ls, had, got) ==
    /\ \A i, j \in DOMAIN ls : i < j /\ ls[i].is = "data" => ls[j].is \notin {"read", "data"}
    /\ \A i \in DOMAIN ls : ls[i].is = "read" => ls[i].id = had
    /\ had = 0 => ReadTrue(0, got) /\ \A i \in DOMAIN ls : ls[i].is # "data"
    /\ had # 0 => \A i \in DOMAIN ls : ls[i].is = "OK" =>
          \/ got = <<had>> /\ \A j \in DOMAIN ls : ls[j].is \notin {"read", "data"}
          \/ \E j \in DOMAIN ls : j < i /\ ls[j].is = "data"

BtReadOK ==
    /\ btCmd.cmd = "QSPPREAD" => ReadOK(btLines, btApp.had, btGot)
    /\ btApp # NoApp /\ btApp.op = "SPP_Read" /\ btRc = "OK" => ReadTrue(btApp.had, btGot)
    /\ btResult.op = "SPP_Read" /\ btResult.rc = "OK" => ReadTrue(btResult.had, btResult.out)

-----------------------------------------------------------------------------
(* The invariant.                                                          *)

BtTableOK ==
    /\ btCallback /\ PromptOK(btLines, btCmd.cmd, btFirst)
    /\ \A d \in Devices : DeviceOK(d, btLines, btTable, btModem, btCmd.cmd, Gone)

BtInv ==
    /\ BtTyped /\ BtCommandOK /\ AnswerOK(btLines, btCmd.cmd) /\ ModemOK(btModem)
    /\ btApp = NoApp <=> btRc = "none"
    /\ BtReadOK
    /\ ~btMissed => BtTableOK

-----------------------------------------------------------------------------
(* Numbers.                                                                *)

LEMMA NatMin ==
    ASSUME NEW T, T \subseteq Nat, T # {}
    PROVE  \E n \in T : \A m \in T : n <= m
  <1> DEFINE R == {p \in Nat \X Nat : p[1] < p[2]}
  <1>1. OpToRel(<, Nat) = R
    BY DEF OpToRel
  <1>2. \E x \in T : \A y \in T : ~(<<y, x>> \in R)
    BY <1>1, NatLessThanWellFounded, WFMin
  <1>3. PICK n \in T : \A m \in T : ~(<<m, n>> \in R)
    BY <1>2
  <1>4. ASSUME NEW m \in T PROVE n <= m
    <2>1. m \in Nat /\ n \in Nat /\ ~(<<m, n>> \in R)
      BY <1>3
    <2>2. m < n => <<m, n>> \in R
      BY <2>1
    <2> QED
      BY <2>1, <2>2
  <1> QED
    BY <1>4

LEMMA MinIsLeast ==
    ASSUME NEW T, T \subseteq Nat, T # {}
    PROVE  Min(T) \in T /\ \A m \in T : Min(T) <= m
  BY NatMin DEF Min

LEMMA MinOfOne == \A i \in Int : Min({i}) = i
  BY DEF Min

\* There is an id for a device that has none.
LEMMA FreeIdIsNew ==
    ASSUME NEW ids \in [Devices -> Nat], NEW d \in Devices, ids[d] = 0
    PROVE  /\ FreeId(ids) \in Nat \ {0}
           /\ \A e \in Devices : ids[e] # FreeId(ids)
  <1> DEFINE n == Cardinality(Devices)
             T == (1 .. n) \ Range(ids)
             R == {ids[e] : e \in Devices \ {d}}
  <1>1. IsFiniteSet(Devices) /\ n \in Nat
    BY BtAssumption, FS_CardinalityType
  <1>2. /\ IsFiniteSet(Devices \ {d}) /\ Cardinality(Devices \ {d}) = n - 1
    BY <1>1, FS_RemoveElement
  <1>3. IsFiniteSet(R) /\ Cardinality(R) <= n - 1
    <2> DEFINE f == [e \in Devices \ {d} |-> ids[e]]
    <2>1. f \in Surjection(Devices \ {d}, R)
      BY DEF Surjection
    <2> HIDE DEF f, R
    <2> QED
      BY <1>2, <2>1, FS_Surjection
  <1>4. IsFiniteSet(1 .. n) /\ Cardinality(1 .. n) = n
    BY <1>1, FS_Interval
  <1>5. T # {}
    <2> SUFFICES ASSUME T = {} PROVE FALSE
      OBVIOUS
    <2>1. 1 .. n \subseteq R
      BY DEF Range
    <2>2. n <= Cardinality(R)
      BY <1>3, <1>4, <2>1, FS_Subset
    <2> QED
      BY <1>1, <1>3, <2>2, FS_CardinalityType
  <1>6. T \subseteq Nat \ {0}
    BY <1>1
  <1>7. Min(T) \in T
    BY <1>5, <1>6, MinIsLeast
  <1>8. FreeId(ids) = Min(T)
    BY DEF FreeId
  <1> QED
    BY <1>6, <1>7, <1>8 DEF Range

-----------------------------------------------------------------------------
(* Sequences of lines.                                                     *)

LEMMA TailLines ==
    ASSUME NEW S, NEW s \in Seq(S), s # <<>>
    PROVE  /\ Tail(s) \in Seq(S) /\ 1 \in DOMAIN s /\ Head(s) = s[1] /\ Head(s) \in S
           /\ \A i \in DOMAIN Tail(s) : i + 1 \in DOMAIN s /\ Tail(s)[i] = s[i + 1]
           /\ \A i \in DOMAIN s : i = 1 \/ (i - 1 \in DOMAIN Tail(s) /\ Tail(s)[i - 1] = s[i])
           /\ DOMAIN s \subseteq Nat /\ DOMAIN Tail(s) \subseteq Nat
           /\ \A i \in DOMAIN s : i >= 1
  OBVIOUS

LEMMA CatLines ==
    ASSUME NEW S, NEW s \in Seq(S), NEW t \in Seq(S)
    PROVE  /\ s \o t \in Seq(S) /\ Len(s) \in Nat
           /\ \A i \in DOMAIN s : i \in Nat /\ i <= Len(s)
           /\ \A i \in DOMAIN t : i \in Nat /\ i >= 1
           /\ \A i \in DOMAIN (s \o t) :
                 /\ i \in Nat
                 /\ \/ i \in DOMAIN s /\ (s \o t)[i] = s[i]
                    \/ /\ i > Len(s) /\ i - Len(s) \in DOMAIN t
                       /\ (s \o t)[i] = t[i - Len(s)]
           /\ \A i \in DOMAIN s : i \in DOMAIN (s \o t) /\ (s \o t)[i] = s[i]
           /\ \A i \in DOMAIN t :
                 i + Len(s) \in DOMAIN (s \o t) /\ (s \o t)[i + Len(s)] = t[i]
  OBVIOUS

Parts(r, s, t) ==
    /\ \A i \in DOMAIN r : \/ \E j \in DOMAIN s : r[i] = s[j]
                         \/ \E j \in DOMAIN t : r[i] = t[j]
    /\ \A j \in DOMAIN s : j \in DOMAIN r /\ r[j] = s[j]
    /\ \A j \in DOMAIN t : \E i \in DOMAIN r : r[i] = t[j]

LEMMA CatHas ==
    ASSUME NEW S, NEW s \in Seq(S), NEW t \in Seq(S)
    PROVE  Parts(s \o t, s, t)
  <1> DEFINE r == s \o t
  <1>1. \A i \in DOMAIN r : \/ \E j \in DOMAIN s : r[i] = s[j]
                         \/ \E j \in DOMAIN t : r[i] = t[j]
    BY CatLines
  <1>2. \A j \in DOMAIN s : j \in DOMAIN r /\ r[j] = s[j]
    BY CatLines
  <1>3. ASSUME NEW j \in DOMAIN t PROVE \E i \in DOMAIN r : r[i] = t[j]
    <2>1. j + Len(s) \in DOMAIN r /\ r[j + Len(s)] = t[j]
      BY CatLines
    <2> QED
      BY <2>1
  <1> QED
    BY <1>1, <1>2, <1>3 DEF Parts

LEMMA FreeTail ==
    ASSUME NEW S, NEW s \in Seq(S), s # <<>>, NEW G
    PROVE  /\ Free(s, G) => Free(Tail(s), G)
           /\ Head(s) \notin G /\ Free(Tail(s), G) => Free(s, G)
           /\ Free(s, G) => Head(s) \notin G
  <1> DEFINE t == Tail(s)
  <1>0. Head(s) = s[1] /\ 1 \in DOMAIN s
    BY TailLines
  <1>1. ASSUME Free(s, G), NEW i \in DOMAIN t PROVE t[i] \notin G
    <2>1. i + 1 \in DOMAIN s /\ t[i] = s[i + 1]
      BY TailLines
    <2> QED
      BY <1>1, <2>1 DEF Free
  <1>2. ASSUME Head(s) \notin G, Free(t, G), NEW i \in DOMAIN s PROVE s[i] \notin G
    <2>1. i = 1 \/ (i - 1 \in DOMAIN t /\ t[i - 1] = s[i])
      BY TailLines
    <2> HIDE DEF t
    <2> QED
      BY <1>0, <1>2, <2>1 DEF Free
  <1> HIDE DEF t
  <1> QED
    BY <1>0, <1>1, <1>2 DEF Free, t

LEMMA SettledTail ==
    ASSUME NEW S, NEW s \in Seq(S), s # <<>>, NEW F, NEW G, Settled(s, F, G)
    PROVE  Settled(Tail(s), F, G) \/ (Head(s) \in F /\ Free(Tail(s), G))
  <1> DEFINE t == Tail(s)
  <1>1. PICK i \in DOMAIN s : s[i] \in F /\ \A j \in DOMAIN s : i < j => s[j] \notin G
    BY DEF Settled
  <1>2. CASE i = 1
    <2>1. ASSUME NEW j \in DOMAIN t PROVE t[j] \notin G
      <3>1. j + 1 \in DOMAIN s /\ t[j] = s[j + 1] /\ j \in Nat /\ j >= 1
        BY TailLines
      <3> QED
        BY <1>1, <1>2, <3>1
    <2> QED
      BY <1>1, <1>2, <2>1, TailLines DEF Free
  <1>3. CASE i # 1
    <2>1. i - 1 \in DOMAIN t /\ t[i - 1] = s[i] /\ i \in Nat
      BY <1>3, TailLines
    <2>2. ASSUME NEW j \in DOMAIN t, i - 1 < j PROVE t[j] \notin G
      <3>1. j + 1 \in DOMAIN s /\ t[j] = s[j + 1] /\ j \in Nat
        BY TailLines
      <3>2. i < j + 1
        BY <2>1, <2>2, <3>1
      <3> QED
        BY <1>1, <3>1, <3>2
    <2> QED
      BY <1>1, <2>1, <2>2 DEF Settled
  <1> QED
    BY <1>2, <1>3

LEMMA FreeCat ==
    ASSUME NEW S, NEW s \in Seq(S), NEW t \in Seq(S), NEW G
    PROVE  Free(s \o t, G) <=> Free(s, G) /\ Free(t, G)
  <1>1. ASSUME Free(s, G), Free(t, G) PROVE Free(s \o t, G)
    BY <1>1, CatLines DEF Free
  <1>2. ASSUME Free(s \o t, G) PROVE Free(s, G) /\ Free(t, G)
    <2>1. ASSUME NEW i \in DOMAIN s PROVE s[i] \notin G
      BY <1>2, CatLines DEF Free
    <2>2. ASSUME NEW i \in DOMAIN t PROVE t[i] \notin G
      <3>1. i + Len(s) \in DOMAIN (s \o t) /\ (s \o t)[i + Len(s)] = t[i]
        BY CatLines
      <3> QED
        BY <1>2, <3>1 DEF Free
    <2> QED
      BY <2>1, <2>2 DEF Free
  <1> QED
    BY <1>1, <1>2

LEMMA SettledCat ==
    ASSUME NEW S, NEW s \in Seq(S), NEW t \in Seq(S), NEW F, NEW G
    PROVE  /\ Settled(s, F, G) /\ Free(t, G) => Settled(s \o t, F, G)
           /\ Settled(t, F, G) => Settled(s \o t, F, G)
  <1> DEFINE st == s \o t
  <1>1. ASSUME Settled(s, F, G), Free(t, G) PROVE Settled(st, F, G)
    <2>1. PICK i \in DOMAIN s : s[i] \in F /\ \A j \in DOMAIN s : i < j => s[j] \notin G
      BY <1>1 DEF Settled
    <2>2. i \in DOMAIN st /\ st[i] = s[i]
      BY CatLines
    <2>3. ASSUME NEW j \in DOMAIN st, i < j PROVE st[j] \notin G
      BY <1>1, <2>1, <2>3, CatLines DEF Free
    <2> HIDE DEF st
    <2> QED
      BY <2>1, <2>2, <2>3 DEF Settled
  <1>2. ASSUME Settled(t, F, G) PROVE Settled(st, F, G)
    <2>1. PICK i \in DOMAIN t : t[i] \in F /\ \A j \in DOMAIN t : i < j => t[j] \notin G
      BY <1>2 DEF Settled
    <2>2. i + Len(s) \in DOMAIN st /\ st[i + Len(s)] = t[i] /\ i \in Nat /\ i >= 1
          /\ Len(s) \in Nat
      BY CatLines
    <2>3. ASSUME NEW j \in DOMAIN st, i + Len(s) < j PROVE st[j] \notin G
      <3>1. j \in Nat /\ (j \in DOMAIN s => j <= Len(s))
        BY CatLines
      <3>2. j - Len(s) \in DOMAIN t /\ st[j] = t[j - Len(s)]
        BY <2>2, <2>3, <3>1, CatLines
      <3>3. i < j - Len(s)
        BY <2>2, <2>3, <3>1
      <3> QED
        BY <2>1, <3>2, <3>3
    <2> HIDE DEF st
    <2> QED
      BY <2>1, <2>2, <2>3 DEF Settled
  <1> QED
    BY <1>1, <1>2

LEMMA SettledGrows ==
    ASSUME NEW s, NEW F, NEW G, NEW E, F \subseteq E, Settled(s, F, G)
    PROVE  Settled(s, E, G)
  BY DEF Settled

LEMMA EmptySettled == \A F, G : ~Settled(<<>>, F, G)
  BY DEF Settled

-----------------------------------------------------------------------------
(* The table.                                                              *)

Fields == {"devId", "pairId", "connId", "profileId"}

Change(c) == DOMAIN c \subseteq Fields /\ \A f \in DOMAIN c : c[f] \in Int

LEMMA EntryChanged ==
    ASSUME NEW e \in Entry, NEW c, Change(c)
    PROVE  /\ Changed(e, c) \in Entry /\ Changed(e, c).dev = e.dev
           /\ \A f \in Fields : Changed(e, c)[f] = IF f \in DOMAIN c THEN c[f] ELSE e[f]
  <1> DEFINE r == Changed(e, c)
  <1>1. DOMAIN e = {"dev", "devId", "pairId", "connId", "profileId"}
    BY DEF Entry
  <1>2. r = [x \in {"dev", "devId", "pairId", "connId", "profileId"} |->
                IF x \in DOMAIN c THEN c[x] ELSE e[x]]
    BY <1>1 DEF Changed
  <1> HIDE DEF r
  <1>3. "dev" \notin DOMAIN c
    BY DEF Change, Fields
  <1>4. r.dev = e.dev
    BY <1>2, <1>3
  <1>5. \A f \in Fields : r[f] = IF f \in DOMAIN c THEN c[f] ELSE e[f]
    BY <1>2 DEF Fields
  <1>6. \A f \in Fields : r[f] \in Int
    BY <1>5 DEF Change, Fields, Entry
  <1>7. r \in Entry
    BY <1>2, <1>4, <1>6 DEF Entry, Fields
  <1> QED
    BY <1>4, <1>5, <1>7 DEF r

LEMMA NewEntryOK ==
    ASSUME NEW dev \in Devices \cup {Nobody}
    PROVE  /\ NewEntry(dev) \in Entry /\ NewEntry(dev).dev = dev
           /\ \A f \in {"pairId", "connId", "profileId"} : NewEntry(dev)[f] = -1
  BY DEF NewEntry, Entry

\* In a table without doubles a device has one place.
LEMMA WhereIs ==
    ASSUME NEW t, TableOK(t), NEW dev, NEW i \in Where(t, dev)
    PROVE  /\ Where(t, dev) = {i} /\ Min(Where(t, dev)) = i
           /\ \A f : KnownIn(t, dev, f) = t[i][f]
  <1>1. DOMAIN t \subseteq Int
    BY DEF TableOK
  <1>2. Where(t, dev) = {i}
    BY DEF Where, TableOK, NoDeviceTwice
  <1>3. Min({i}) = i
    BY <1>1, MinOfOne DEF Where
  <1> QED
    BY <1>2, <1>3 DEF KnownIn

LEMMA WhereNot ==
    ASSUME NEW t, NEW dev, Where(t, dev) = {}
    PROVE  \A f : KnownIn(t, dev, f) = -1
  BY DEF KnownIn

\* A change of one device's entry.
LEMMA UpdateKeeps ==
    ASSUME NEW t, TableOK(t), NEW dev, NEW c, Change(c)
    PROVE  /\ TableOK(Updated(t, dev, c))
           /\ Len(Updated(t, dev, c)) = Len(t)
           /\ \A e : Where(Updated(t, dev, c), e) = Where(t, e)
           /\ \A e, f : e # dev => KnownIn(Updated(t, dev, c), e, f) = KnownIn(t, e, f)
           /\ \A f \in Fields : KnownIn(Updated(t, dev, c), dev, f) =
                 IF Where(t, dev) # {} /\ f \in DOMAIN c THEN c[f] ELSE KnownIn(t, dev, f)
  <1> DEFINE u == Updated(t, dev, c)
  <1>1. CASE Where(t, dev) = {}
    BY <1>1 DEF Updated
  <1>2. CASE Where(t, dev) # {}
    <2>1. PICK i \in DOMAIN t : t[i].dev = dev
      BY <1>2 DEF Where
    <2>2. Min(Where(t, dev)) = i /\ \A f : KnownIn(t, dev, f) = t[i][f]
      BY <2>1, WhereIs DEF Where
    <2>3. u = [t EXCEPT ![i] = Changed(t[i], c)]
      BY <1>2, <2>2 DEF Updated
    <2>4. t[i] \in Entry /\ t \in Seq(Entry)
      BY <2>1 DEF TableOK
    <2>5. Changed(t[i], c) \in Entry /\ Changed(t[i], c).dev = dev
      BY <2>1, <2>4, EntryChanged
    <2> HIDE DEF u
    <2>6. /\ u \in Seq(Entry) /\ Len(u) = Len(t) /\ DOMAIN u = DOMAIN t
          /\ u[i] = Changed(t[i], c) /\ \A j \in DOMAIN t : j # i => u[j] = t[j]
      BY <2>1, <2>3, <2>4, <2>5
    <2>7. \A j \in DOMAIN t : u[j].dev = t[j].dev
      BY <2>1, <2>5, <2>6
    <2>8. TableOK(u)
      BY <2>6, <2>7 DEF TableOK, NoDeviceTwice
    <2>9. \A e : Where(u, e) = Where(t, e)
      BY <2>6, <2>7 DEF Where
    <2>10. ASSUME NEW e, NEW f, e # dev PROVE KnownIn(u, e, f) = KnownIn(t, e, f)
      <3>1. CASE Where(t, e) = {}
        BY <2>9, <3>1 DEF KnownIn
      <3>2. CASE Where(t, e) # {}
        <4>1. PICK j \in DOMAIN t : t[j].dev = e
          BY <3>2 DEF Where
        <4>2. j \in Where(t, e) /\ j \in Where(u, e) /\ u[j] = t[j]
          BY <2>1, <2>6, <2>9, <2>10, <4>1 DEF Where
        <4>3. KnownIn(t, e, f) = t[j][f] /\ KnownIn(u, e, f) = u[j][f]
          BY <2>8, <4>2, WhereIs
        <4> QED
          BY <4>2, <4>3
      <3> QED
        BY <3>1, <3>2
    <2>11. ASSUME NEW f \in Fields
           PROVE  KnownIn(u, dev, f) = IF f \in DOMAIN c THEN c[f] ELSE KnownIn(t, dev, f)
      <3>1. i \in Where(u, dev)
        BY <2>1, <2>9 DEF Where
      <3>2. KnownIn(u, dev, f) = u[i][f]
        BY <2>8, <3>1, WhereIs
      <3> QED
        BY <2>2, <2>4, <2>6, <3>2, EntryChanged
    <2> QED
      BY <1>2, <2>6, <2>8, <2>9, <2>10, <2>11 DEF u
  <1> QED
    BY <1>1, <1>2

\* The same, with a new entry where there is room.
LEMMA UpdateOrNewKeeps ==
    ASSUME NEW t, TableOK(t), NEW dev \in Devices \cup {Nobody}, NEW c, Change(c)
    PROVE  LET u == UpdatedOrNew(t, dev, c) IN
           /\ TableOK(u)
           /\ \A e, f : e # dev => KnownIn(u, e, f) = KnownIn(t, e, f)
           /\ Where(u, dev) # {} => \A f \in DOMAIN c : KnownIn(u, dev, f) = c[f]
           /\ \A f \in {"pairId", "connId", "profileId"} :
                 f \notin DOMAIN c => KnownIn(u, dev, f) = KnownIn(t, dev, f)
  <1> DEFINE u == UpdatedOrNew(t, dev, c)
             three == {"pairId", "connId", "profileId"}
  <1>1. CASE Where(t, dev) # {}
    <2>1. u = Updated(t, dev, c)
      BY <1>1 DEF UpdatedOrNew
    <2>2. DOMAIN c \subseteq Fields /\ three \subseteq Fields
      BY DEF Change, Fields
    <2> HIDE DEF u
    <2> QED
      BY <1>1, <2>1, <2>2, UpdateKeeps DEF u
  <1>2. CASE Where(t, dev) = {} /\ ~(Len(t) < BtSize)
    <2>1. u = t
      BY <1>2 DEF UpdatedOrNew
    <2> QED
      BY <1>2, <2>1
  <1>3. CASE Where(t, dev) = {} /\ Len(t) < BtSize
    <2> DEFINE e0 == Changed(NewEntry(dev), c)
               n == Len(t) + 1
    <2>1. u = Append(t, e0)
      BY <1>3 DEF UpdatedOrNew
    <2>2. /\ e0 \in Entry /\ e0.dev = dev
          /\ \A f \in Fields : e0[f] = IF f \in DOMAIN c THEN c[f] ELSE NewEntry(dev)[f]
      BY EntryChanged, NewEntryOK
    <2> HIDE DEF u, e0
    <2>3. t \in Seq(Entry) /\ Len(t) \in Nat /\ DOMAIN t = 1 .. Len(t) /\ BtSize \in Nat
      BY BtAssumption DEF TableOK
    <2>4. /\ u \in Seq(Entry) /\ Len(u) = n /\ DOMAIN u = 1 .. n /\ u[n] = e0
          /\ \A j \in DOMAIN t : u[j] = t[j]
      BY <2>1, <2>2, <2>3
    <2>5. \A j \in DOMAIN t : t[j].dev # dev
      BY <1>3 DEF Where
    <2>6. TableOK(u)
      <3>1. Len(u) <= BtSize
        BY <1>3, <2>3, <2>4
      <3>2. NoDeviceTwice(u)
        <4>1. \A j \in DOMAIN u : j = n \/ j \in DOMAIN t
          BY <2>3, <2>4
        <4>2. \A i, j \in DOMAIN t : t[i].dev = t[j].dev => i = j
          BY DEF TableOK, NoDeviceTwice
        <4> QED
          BY <2>2, <2>4, <2>5, <4>1, <4>2 DEF NoDeviceTwice
      <3> QED
        BY <2>4, <3>1, <3>2 DEF TableOK
    <2>7. n \in Where(u, dev)
      BY <2>2, <2>3, <2>4 DEF Where
    <2>8. \A f : KnownIn(u, dev, f) = e0[f]
      BY <2>4, <2>6, <2>7, WhereIs
    <2>9. ASSUME NEW e, NEW f, e # dev PROVE KnownIn(u, e, f) = KnownIn(t, e, f)
      <3>1. \A j \in DOMAIN u : u[j].dev = e => j \in DOMAIN t
        BY <2>2, <2>3, <2>4, <2>9
      <3>2. Where(u, e) = Where(t, e)
        BY <2>3, <2>4, <3>1 DEF Where
      <3>3. CASE Where(t, e) = {}
        BY <3>2, <3>3 DEF KnownIn
      <3>4. CASE Where(t, e) # {}
        <4>1. PICK j \in DOMAIN t : t[j].dev = e
          BY <3>4 DEF Where
        <4>2. j \in Where(t, e) /\ j \in Where(u, e) /\ u[j] = t[j]
          BY <2>4, <3>2, <4>1 DEF Where
        <4>3. KnownIn(t, e, f) = t[j][f] /\ KnownIn(u, e, f) = u[j][f]
          BY <2>6, <4>2, WhereIs
        <4> QED
          BY <4>2, <4>3
      <3> QED
        BY <3>3, <3>4
    <2>10. \A f \in three : KnownIn(t, dev, f) = -1 /\ NewEntry(dev)[f] = -1
      BY <1>3, NewEntryOK, WhereNot
    <2>11. \A f \in DOMAIN c : KnownIn(u, dev, f) = c[f]
      BY <2>2, <2>8 DEF Change
    <2>12. \A f \in three : f \notin DOMAIN c => KnownIn(u, dev, f) = KnownIn(t, dev, f)
      BY <2>2, <2>8, <2>10 DEF Fields
    <2> QED
      BY <2>6, <2>9, <2>11, <2>12 DEF u
  <1> QED
    BY <1>1, <1>2, <1>3

LEMMA EmptyTable ==
    TableOK(<<>>) /\ \A d, f : KnownIn(<<>>, d, f) = -1
  <1>1. \A d : Where(<<>>, d) = {}
    BY DEF Where
  <1>2. TableOK(<<>>)
    BY BtAssumption DEF TableOK, NoDeviceTwice
  <1> QED
    BY <1>1, <1>2 DEF KnownIn

-----------------------------------------------------------------------------
(* A line is taken, or lines are added: what the table says stays true.    *)

LEMMA PairTake ==
    ASSUME NEW d, NEW ls \in Seq(AnyLine), ls # <<>>, NEW known, NEW known2, NEW paired,
           NEW cmd, NEW gone, PairOK(d, ls, known, paired, cmd, gone),
           Head(ls) \notin Requery \cup Doom(cmd),
           Head(ls) \in PairRow(d) => known2 = Head(ls).id,
           Head(ls) \in PairForget(d) => known2 = -1,
           Head(ls) \notin PairRow(d) \cup PairForget(d) => known2 = known
    PROVE  PairOK(d, Tail(ls), known2, paired, cmd, gone)
  <1> DEFINE h == Head(ls)
             t == Tail(ls)
             Fix == PairFix(d, cmd)
             Row == PairRow(d)
             Forget == PairForget(d)
  <1>1. /\ h = ls[1] /\ 1 \in DOMAIN ls
        /\ \A i \in DOMAIN t : i + 1 \in DOMAIN ls /\ t[i] = ls[i + 1]
    BY TailLines
  <1>2. /\ d \in gone => paired = 0
        /\ d \in gone \/ known = -1 \/ (paired # 0 /\ known = paired)
        /\ paired # 0 => Settled(ls, Fix, Forget) \/ (known = paired /\ Free(ls, Forget))
        /\ \A i \in DOMAIN ls : ls[i] \in Row => paired # 0 /\ ls[i].id = paired
    BY DEF PairOK
  <1>3. h \notin Row => h \notin Fix
    BY DEF PairFix
  <1>4. Settled(ls, Fix, Forget) => Settled(t, Fix, Forget) \/ (h \in Fix /\ Free(t, Forget))
    BY SettledTail
  <1>5. Free(ls, Forget) => Free(t, Forget) /\ h \notin Forget
    BY FreeTail
  <1>6. h \in Row => paired # 0 /\ h.id = paired
    BY <1>1, <1>2
  <1>7. h \in Row => h \notin Forget
    BY DEF PairRow, PairForget
  <1> HIDE DEF h, t, Fix, Row, Forget
  <1>8. d \in gone \/ known2 = -1 \/ (paired # 0 /\ known2 = paired)
    BY <1>2, <1>6 DEF h, Row, Forget
  <1>9. paired # 0 => Settled(t, Fix, Forget) \/ (known2 = paired /\ Free(t, Forget))
    BY <1>2, <1>3, <1>4, <1>5, <1>6 DEF h, Row, Forget
  <1>10. \A i \in DOMAIN t : t[i] \in Row => paired # 0 /\ t[i].id = paired
    BY <1>1, <1>2
  <1> QED
    BY <1>2, <1>8, <1>9, <1>10 DEF PairOK, t, Fix, Row, Forget

LEMMA Tuples ==
    /\ \A x : Len(<<x>>) = 1 /\ <<x>>[1] = x
    /\ \A x, y : Len(<<x, y>>) = 2 /\ <<x, y>>[1] = x /\ <<x, y>>[2] = y
  OBVIOUS

LEMMA PfName ==
    /\ DOMAIN pf_name = 1 .. 7
    /\ pf_name[1] = <<"SPP">> /\ pf_name[2] = <<"OBEX_PBA_PROFILE", "CLIENT">>
    /\ pf_name[3] = <<"OBEX_PBA_PROFILE">>
    /\ pf_name[4] = <<"OBEX_OBJECT_PUSH", "SERVICE">>
    /\ pf_name[5] = <<"OBEX_OBJECT_PUSH", "CLIENT">>
    /\ pf_name[6] = <<"HF_PROFILE">> /\ pf_name[7] = <<"HFG_PROFILE">>
  BY DEF pf_name

LEMMA NamesAre == Nothing \notin Names /\ <<"SPP">> # Nothing
  <1>1. \A i \in 1 .. 7 : Len(pf_name[i]) # 0
    BY PfName, Tuples
  <1>2. Len(Nothing) = 0 /\ Len(<<"SPP">>) = 1
    BY DEF Nothing
  <1>3. Names \subseteq {pf_name[i] : i \in 1 .. 7}
    BY PfName, BtAssumption DEF Range
  <1> QED
    BY <1>1, <1>2, <1>3

LEMMA PrefixIs ==
    /\ \A s : IsPrefix(s, s)
    /\ \A x, y : IsPrefix(<<x>>, <<y>>) => x = y
    /\ \A x, y, z : IsPrefix(<<x>>, <<y, z>>) => x = y
    /\ \A x, y, z, w : IsPrefix(<<x, y>>, <<z, w>>) => x = z /\ y = w
    /\ \A x, y, z : ~IsPrefix(<<x, y>>, <<z>>)
  <1>1. \A s : IsPrefix(s, s)
    BY DEF IsPrefix
  <1>2. \A x, y : IsPrefix(<<x>>, <<y>>) => x = y
    BY DEF IsPrefix
  <1>3. \A x, y, z : IsPrefix(<<x>>, <<y, z>>) => x = y
    BY DEF IsPrefix
  <1>4. \A x, y, z, w : IsPrefix(<<x, y>>, <<z, w>>) => x = z /\ y = w
    BY DEF IsPrefix
  <1>5. \A x, y, z : ~IsPrefix(<<x, y>>, <<z>>)
    BY DEF IsPrefix
  <1> QED
    BY <1>1, <1>2, <1>3, <1>4, <1>5

\* Every profile but OBEX_PBA_PROFILE is found at its place.
LEMMA ProfileKnown ==
    \A name \in Profiles :
       /\ ProfileNameToId(name) \in Int
       /\ name # Nothing /\ name # <<"OBEX_PBA_PROFILE">> =>
             pf_name[ProfileNameToId(name) + 1] = name
  <1> SUFFICES ASSUME NEW name \in Profiles
               PROVE  /\ ProfileNameToId(name) \in Int
                      /\ name # Nothing /\ name # <<"OBEX_PBA_PROFILE">> =>
                            pf_name[ProfileNameToId(name) + 1] = name
    OBVIOUS
  <1> DEFINE fits == {i \in DOMAIN pf_name : IsPrefix(name, pf_name[i])}
  <1>1. ProfileNameToId(name) = IF fits = {} THEN -1 ELSE Min(fits) - 1
    BY DEF ProfileNameToId
  <1>2. fits \subseteq 1 .. 7
    BY PfName
  <1>3. ProfileNameToId(name) \in Int
    <2> HIDE DEF fits
    <2>1. fits \subseteq Nat
      BY <1>2
    <2>2. fits # {} => Min(fits) \in fits
      BY <2>1, MinIsLeast
    <2>3. CASE fits = {}
      BY <1>1, <2>3
    <2>4. CASE fits # {}
      <3>1. ProfileNameToId(name) = Min(fits) - 1
        BY <1>1, <2>4
      <3>2. Min(fits) \in 1 .. 7
        BY <1>2, <2>2, <2>4
      <3> QED
        BY <3>1, <3>2
    <2> QED
      BY <2>3, <2>4
  <1>4. ASSUME name # Nothing, name # <<"OBEX_PBA_PROFILE">>
        PROVE  pf_name[ProfileNameToId(name) + 1] = name
    <2>1. <<"SPP">> \in Range(pf_name)
      BY PfName DEF Range
    <2>2. name \in Range(pf_name)
      BY <1>4, <2>1, BtAssumption DEF Profiles
    <2>3. PICK k \in 1 .. 7 : name = pf_name[k]
      BY <2>2, PfName DEF Range
    <2>4. k # 3
      BY <1>4, <2>3, PfName
    <2>5. k \in fits
      BY <2>3, PfName, PrefixIs
    <2>6. ASSUME NEW i \in fits PROVE i = k
      <3>1. i \in 1 .. 7 /\ IsPrefix(name, pf_name[i])
        BY <1>2
      <3> HIDE DEF fits
      <3>2. CASE k = 1
        BY <2>3, <3>1, <3>2, PfName, PrefixIs
      <3>3. CASE k = 2
        BY <2>3, <3>1, <3>3, PfName, PrefixIs
      <3>4. CASE k = 4
        BY <2>3, <3>1, <3>4, PfName, PrefixIs
      <3>5. CASE k = 5
        BY <2>3, <3>1, <3>5, PfName, PrefixIs
      <3>6. CASE k = 6
        BY <2>3, <3>1, <3>6, PfName, PrefixIs
      <3>7. CASE k = 7
        BY <2>3, <3>1, <3>7, PfName, PrefixIs
      <3> QED
        BY <2>4, <3>2, <3>3, <3>4, <3>5, <3>6, <3>7
    <2> HIDE DEF fits
    <2>7. fits = {k}
      BY <2>5, <2>6
    <2>8. Min(fits) = k
      BY <2>7, MinOfOne
    <2>9. ProfileNameToId(name) = k - 1
      BY <1>1, <2>5, <2>8
    <2> QED
      BY <2>3, <2>9
  <1> QED
    BY <1>3, <1>4

LEMMA ConnTake ==
    ASSUME NEW d, NEW ls \in Seq(AnyLine), ls # <<>>, NEW known, NEW known2, NEW as, NEW as2,
           NEW conn, NEW profile \in Profiles \ {Nothing},
           NEW cmd, NEW gone, ConnOK(d, ls, known, as, conn, profile, cmd, gone),
           Head(ls) \notin Requery \cup Doom(cmd),
           Head(ls) \in ConnRow(d) => known2 = Head(ls).id /\ as2 = ProfileNameToId(Head(ls).more),
           Head(ls) \in ConnForget(d) => known2 = -1,
           Head(ls) \notin ConnRow(d) \cup ConnForget(d) => known2 = known /\ as2 = as
    PROVE  ConnOK(d, Tail(ls), known2, as2, conn, profile, cmd, gone)
  <1> DEFINE h == Head(ls)
             t == Tail(ls)
             Fix == ConnFix(d, conn, profile, cmd)
             Row == ConnRow(d)
             Forget == ConnForget(d)
             Right(id, more) == conn # 0 /\ id = conn /\ more = profile
  <1>1. /\ h = ls[1] /\ 1 \in DOMAIN ls
        /\ \A i \in DOMAIN t : i + 1 \in DOMAIN ls /\ t[i] = ls[i + 1] /\ i \in Nat
        /\ \A i \in DOMAIN ls : i = 1 \/ (i - 1 \in DOMAIN t /\ t[i - 1] = ls[i])
        /\ DOMAIN ls \subseteq Nat
    BY TailLines
  <1>2. /\ d \in gone => conn = 0 /\ Free(ls, Row)
        /\ conn = 0 => \/ d \in gone
                       \/ Settled(ls, Forget, Row)
                       \/ known = -1 /\ Free(ls, Row)
        /\ conn # 0 => \/ Settled(ls, Fix, Forget)
                       \/ known = conn /\ ProfileRight(profile, as) /\ Free(ls, Forget)
        /\ \A i \in DOMAIN ls : ls[i] \in Row =>
              \/ conn # 0 /\ ls[i].id = conn /\ ls[i].more = profile
              \/ \E j \in DOMAIN ls : i < j /\ ls[j] \in Forget
    BY DEF ConnOK
  <1>3. /\ h \notin Row => h \notin Fix
        /\ h \in Row /\ h \in Fix => h.id = conn /\ h.more = profile
    BY DEF ConnFix, ConnRow
  <1>4. /\ Settled(ls, Fix, Forget) => Settled(t, Fix, Forget) \/ (h \in Fix /\ Free(t, Forget))
        /\ Settled(ls, Forget, Row) => Settled(t, Forget, Row) \/ (h \in Forget /\ Free(t, Row))
    BY SettledTail
  <1>5. /\ Free(ls, Forget) => Free(t, Forget) /\ h \notin Forget
        /\ Free(ls, Row) => Free(t, Row) /\ h \notin Row
    BY FreeTail
  <1>6. h \in Row => h \notin Forget
    BY DEF ConnRow, ConnForget
  <1>7. h \in Row => \/ conn # 0 /\ h.id = conn /\ h.more = profile
                     \/ \E j \in DOMAIN ls : 1 < j /\ ls[j] \in Forget
    BY <1>1, <1>2
  <1>8. ProfileRight(profile, ProfileNameToId(profile))
    BY ProfileKnown DEF ProfileRight
  <1>9. Free(ls, Forget) /\ h \in Row => conn # 0 /\ h.id = conn /\ h.more = profile
    BY <1>7 DEF Free
  <1> HIDE DEF h, t, Fix, Row, Forget
  <1>10. conn = 0 => \/ d \in gone
                     \/ Settled(t, Forget, Row)
                     \/ known2 = -1 /\ Free(t, Row)
    BY <1>2, <1>4, <1>5, <1>6 DEF h, Row, Forget
  <1>11. conn # 0 => \/ Settled(t, Fix, Forget)
                     \/ known2 = conn /\ ProfileRight(profile, as2) /\ Free(t, Forget)
    <2>1. h \in Row => known2 = h.id /\ as2 = ProfileNameToId(h.more)
      BY DEF h, Row
    <2>2. h \notin Row /\ h \notin Forget => known2 = known /\ as2 = as
      BY DEF h, Row, Forget
    <2>3. h \in Row /\ h.id = conn /\ h.more = profile
             => known2 = conn /\ ProfileRight(profile, as2)
      BY <1>8, <2>1
    <2>4. CASE conn # 0 /\ Settled(ls, Fix, Forget)
      BY <1>3, <1>4, <2>3, <2>4
    <2>5. CASE conn # 0 /\ known = conn /\ ProfileRight(profile, as) /\ Free(ls, Forget)
      <3>1. CASE h \in Row
        BY <1>5, <1>9, <2>3, <2>5, <3>1
      <3>2. CASE h \notin Row
        <4>1. known2 = known /\ as2 = as /\ Free(t, Forget)
          BY <1>5, <2>2, <2>5, <3>2
        <4> QED
          BY <2>5, <4>1
      <3> QED
        BY <3>1, <3>2
    <2> QED
      BY <1>2, <2>4, <2>5
  <1>12. ASSUME NEW i \in DOMAIN t, t[i] \in Row
         PROVE  \/ conn # 0 /\ t[i].id = conn /\ t[i].more = profile
                \/ \E j \in DOMAIN t : i < j /\ t[j] \in Forget
    <2>1. /\ i + 1 \in DOMAIN ls /\ t[i] = ls[i + 1] /\ i \in Nat
      BY <1>1
    <2>2. CASE \E j \in DOMAIN ls : i + 1 < j /\ ls[j] \in Forget
      <3>1. PICK j \in DOMAIN ls : i + 1 < j /\ ls[j] \in Forget
        BY <2>2
      <3>2. j \in Nat /\ j # 1
        BY <1>1, <2>1, <3>1
      <3>3. j - 1 \in DOMAIN t /\ t[j - 1] = ls[j] /\ i < j - 1
        BY <1>1, <2>1, <3>1, <3>2
      <3> QED
        BY <3>1, <3>3
    <2> QED
      BY <1>2, <1>12, <2>1, <2>2
  <1>13. d \in gone => conn = 0 /\ Free(t, Row)
    BY <1>2, <1>5
  <1> QED
    BY <1>10, <1>11, <1>12, <1>13 DEF ConnOK, t, Fix, Row, Forget

LEMMA PairGrow ==
    ASSUME NEW d, NEW ls \in Seq(AnyLine), NEW t \in Seq(AnyLine), NEW known, NEW paired,
           NEW paired2, NEW cmd, NEW cmd2, NEW gone, NEW gone2,
           PairOK(d, ls, known, paired, cmd, gone),
           cmd2 = cmd \/ cmd # "QBTSTATE",
           d \in gone => d \in gone2, d \in gone2 => paired2 = 0,
           Free(t, PairRow(d)),
           \/ paired2 = paired /\ (paired = 0 \/ Free(t, PairForget(d)))
           \/ paired = 0 /\ Settled(t, Requery, PairForget(d))
           \/ d \in gone2 /\ Free(ls, PairRow(d))
    PROVE  PairOK(d, ls \o t, known, paired2, cmd2, gone2)
  <1> DEFINE st == ls \o t
             Fix == PairFix(d, cmd)
             Fix2 == PairFix(d, cmd2)
             Row == PairRow(d)
             Forget == PairForget(d)
  <1>1. /\ d \in gone => paired = 0
        /\ d \in gone \/ known = -1 \/ (paired # 0 /\ known = paired)
        /\ paired # 0 => Settled(ls, Fix, Forget) \/ (known = paired /\ Free(ls, Forget))
        /\ \A i \in DOMAIN ls : ls[i] \in Row => paired # 0 /\ ls[i].id = paired
    BY DEF PairOK
  <1>2. Fix \subseteq Fix2 /\ Requery \subseteq Fix2
    BY DEF PairFix, Doom
  <1>3. /\ Settled(ls, Fix, Forget) => Settled(ls, Fix2, Forget)
        /\ Settled(t, Requery, Forget) => Settled(t, Fix2, Forget)
    BY <1>2 DEF Settled
  <1>4. /\ Settled(ls, Fix2, Forget) /\ Free(t, Forget) => Settled(st, Fix2, Forget)
        /\ Settled(t, Fix2, Forget) => Settled(st, Fix2, Forget)
        /\ Free(ls, Forget) /\ Free(t, Forget) => Free(st, Forget)
    <2> HIDE DEF Fix, Fix2, Forget
    <2> QED
      BY SettledCat, FreeCat
  <1>5. \A i \in DOMAIN st : st[i] \in Row => \E j \in DOMAIN ls : ls[j] = st[i]
    BY CatLines DEF Free
  <1>6. Free(ls, Row) => \A i \in DOMAIN ls : ls[i] \notin Row
    BY DEF Free
  <1> HIDE DEF st, Fix, Fix2, Row, Forget
  <1>7. \A i \in DOMAIN st : st[i] \in Row => paired2 # 0 /\ st[i].id = paired2
    BY <1>1, <1>5, <1>6 DEF Row
  <1>8. paired2 # 0 => Settled(st, Fix2, Forget) \/ (known = paired2 /\ Free(st, Forget))
    BY <1>1, <1>3, <1>4 DEF Forget
  <1>9. d \in gone2 \/ known = -1 \/ (paired2 # 0 /\ known = paired2)
    BY <1>1
  <1> QED
    BY <1>7, <1>8, <1>9 DEF PairOK, st, Fix2, Row, Forget

LEMMA ConnGrow ==
    ASSUME NEW d, NEW ls \in Seq(AnyLine), NEW t \in Seq(AnyLine), NEW known, NEW as,
           NEW conn, NEW conn2, NEW profile, NEW profile2, NEW cmd, NEW cmd2, NEW gone,
           NEW gone2, ConnOK(d, ls, known, as, conn, profile, cmd, gone),
           cmd2 = cmd \/ cmd # "QBTSTATE",
           d \in gone => d \in gone2, d \in gone2 => conn2 = 0 /\ Free(ls, ConnRow(d)),
           Free(t, ConnRow(d)),
           \/ conn2 = conn /\ conn = 0
           \/ conn2 = conn /\ profile2 = profile /\ Free(t, ConnForget(d))
           \/ conn = 0 /\ conn2 # 0 /\ Settled(t, Requery, ConnForget(d))
           \/ conn2 = 0 /\ \E i \in DOMAIN t : t[i] \in ConnForget(d)
           \/ d \in gone2
    PROVE  ConnOK(d, ls \o t, known, as, conn2, profile2, cmd2, gone2)
  <1> DEFINE st == ls \o t
             Fix == ConnFix(d, conn, profile, cmd)
             Fix2 == ConnFix(d, conn2, profile2, cmd2)
             Row == ConnRow(d)
             Forget == ConnForget(d)
  <1>1. /\ d \in gone => conn = 0 /\ Free(ls, Row)
        /\ conn = 0 => \/ d \in gone
                       \/ Settled(ls, Forget, Row)
                       \/ known = -1 /\ Free(ls, Row)
        /\ conn # 0 => \/ Settled(ls, Fix, Forget)
                       \/ known = conn /\ ProfileRight(profile, as) /\ Free(ls, Forget)
        /\ \A i \in DOMAIN ls : ls[i] \in Row =>
              \/ conn # 0 /\ ls[i].id = conn /\ ls[i].more = profile
              \/ \E j \in DOMAIN ls : i < j /\ ls[j] \in Forget
    BY DEF ConnOK
  <1>2. /\ conn2 = conn /\ profile2 = profile => Fix \subseteq Fix2
        /\ Requery \subseteq Fix2
    BY DEF ConnFix, Doom
  <1>3. /\ conn2 = conn /\ profile2 = profile /\ Settled(ls, Fix, Forget) => Settled(ls, Fix2, Forget)
        /\ Settled(t, Requery, Forget) => Settled(t, Fix2, Forget)
        /\ (\E i \in DOMAIN t : t[i] \in Forget) => Settled(t, Forget, Row)
    BY <1>2 DEF Settled, Free
  <1>4. /\ Settled(ls, Fix2, Forget) /\ Free(t, Forget) => Settled(st, Fix2, Forget)
        /\ Settled(t, Fix2, Forget) => Settled(st, Fix2, Forget)
        /\ Free(ls, Forget) /\ Free(t, Forget) => Free(st, Forget)
        /\ Settled(ls, Forget, Row) => Settled(st, Forget, Row)
        /\ Settled(t, Forget, Row) => Settled(st, Forget, Row)
        /\ Free(ls, Row) => Free(st, Row)
    <2>1. Free(t, Row)
      OBVIOUS
    <2> HIDE DEF Fix, Fix2, Forget, Row
    <2> QED
      BY <2>1, SettledCat, FreeCat
  <1>5. /\ \A i \in DOMAIN st : st[i] \in Row => i \in DOMAIN ls /\ ls[i] = st[i]
        /\ \A i \in DOMAIN ls : i \in DOMAIN st /\ st[i] = ls[i]
        /\ \A i \in DOMAIN ls : \A j \in DOMAIN t :
              j + Len(ls) \in DOMAIN st /\ i < j + Len(ls) /\ st[j + Len(ls)] = t[j]
    BY CatLines DEF Free
  <1>6. Free(ls, Row) => \A i \in DOMAIN ls : ls[i] \notin Row
    BY DEF Free
  <1> HIDE DEF st, Fix, Fix2, Row, Forget
  <1>7. ASSUME NEW i \in DOMAIN st, st[i] \in Row
        PROVE  \/ conn2 # 0 /\ st[i].id = conn2 /\ st[i].more = profile2
               \/ \E j \in DOMAIN st : i < j /\ st[j] \in Forget
    <2>1. i \in DOMAIN ls /\ ls[i] = st[i]
      BY <1>5, <1>7
    <2>2. \/ conn # 0 /\ st[i].id = conn /\ st[i].more = profile
          \/ \E j \in DOMAIN st : i < j /\ st[j] \in Forget
      BY <1>1, <1>5, <1>7, <2>1
    <2>3. (\E j \in DOMAIN t : t[j] \in Forget) => \E j \in DOMAIN st : i < j /\ st[j] \in Forget
      BY <1>5, <2>1
    <2>4. d \in gone2 => FALSE
      BY <1>6, <1>7, <2>1 DEF Row
    <2> QED
      BY <2>2, <2>3, <2>4 DEF Forget
  <1>8. conn2 = 0 => \/ d \in gone2
                     \/ Settled(st, Forget, Row)
                     \/ known = -1 /\ Free(st, Row)
    BY <1>1, <1>3, <1>4 DEF Forget
  <1>9. conn2 # 0 => \/ Settled(st, Fix2, Forget)
                     \/ known = conn2 /\ ProfileRight(profile2, as) /\ Free(st, Forget)
    BY <1>1, <1>3, <1>4 DEF Forget
  <1>10. d \in gone2 => conn2 = 0 /\ Free(st, Row)
    BY <1>4 DEF Row
  <1> QED
    BY <1>7, <1>8, <1>9, <1>10 DEF ConnOK, st, Fix2, Row, Forget

-----------------------------------------------------------------------------
(* The kinds of the lines.                                                 *)

HasNo(s, K) == \A i \in DOMAIN s : s[i].is \notin K

LEMMA HasNoCat ==
    ASSUME NEW S, NEW s \in Seq(S), NEW t \in Seq(S), NEW K
    PROVE  HasNo(s \o t, K) <=> HasNo(s, K) /\ HasNo(t, K)
  <1>1. ASSUME HasNo(s, K), HasNo(t, K) PROVE HasNo(s \o t, K)
    BY <1>1, CatLines DEF HasNo
  <1>2. ASSUME HasNo(s \o t, K) PROVE HasNo(s, K) /\ HasNo(t, K)
    <2>1. ASSUME NEW i \in DOMAIN s PROVE s[i].is \notin K
      BY <1>2, CatLines DEF HasNo
    <2>2. ASSUME NEW i \in DOMAIN t PROVE t[i].is \notin K
      <3>1. i + Len(s) \in DOMAIN (s \o t) /\ (s \o t)[i + Len(s)] = t[i]
        BY CatLines
      <3> QED
        BY <1>2, <3>1 DEF HasNo
    <2> QED
      BY <2>1, <2>2 DEF HasNo
  <1> QED
    BY <1>1, <1>2

LEMMA HasNoTail ==
    ASSUME NEW S, NEW s \in Seq(S), s # <<>>, NEW K, HasNo(s, K)
    PROVE  HasNo(Tail(s), K) /\ Head(s).is \notin K
  BY TailLines DEF HasNo

LEMMA OneLine ==
    ASSUME NEW l \in AnyLine
    PROVE  /\ <<l>> \in Seq(AnyLine)
           /\ DOMAIN <<l>> = {1} /\ <<l>>[1] = l
           /\ \A K : HasNo(<<l>>, K) <=> l.is \notin K
           /\ \A G : Free(<<l>>, G) <=> l \notin G
           /\ \A F, G : Settled(<<l>>, F, G) <=> l \in F
           /\ \A cmd : l.is \in AnswersOf(cmd) \/ l.is \notin Answers => AnswerOK(<<l>>, cmd)
  <1>1. /\ <<l>> \in Seq(AnyLine) /\ DOMAIN <<l>> = {1} /\ <<l>>[1] = l
    OBVIOUS
  <1> DEFINE s == <<l>>
  <1>2. s \in Seq(AnyLine) /\ DOMAIN s = {1} /\ s[1] = l
    BY <1>1
  <1> HIDE DEF s
  <1>3. \A i, j \in DOMAIN s : ~(i < j)
    BY <1>2
  <1>4. \A K : HasNo(s, K) <=> l.is \notin K
    BY <1>2 DEF HasNo
  <1>5. \A G : Free(s, G) <=> l \notin G
    BY <1>2 DEF Free
  <1>6. \A F, G : Settled(s, F, G) <=> l \in F
    BY <1>2, <1>3 DEF Settled
  <1>7. \A cmd : l.is \in AnswersOf(cmd) \/ l.is \notin Answers => AnswerOK(s, cmd)
    BY <1>2, <1>3 DEF AnswerOK
  <1> QED
    BY <1>1, <1>4, <1>5, <1>6, <1>7 DEF s

LEMMA AnswerTail ==
    ASSUME NEW ls \in Seq(AnyLine), ls # <<>>, NEW cmd, AnswerOK(ls, cmd)
    PROVE  /\ AnswerOK(Tail(ls), cmd)
           /\ Head(ls).is \in Answers => Head(ls).is \in AnswersOf(cmd)
           /\ Head(ls).is \in Finals => HasNo(Tail(ls), Answers)
           /\ Head(ls).is \in Answers => HasNo(Tail(ls), {"state"})
  <1> DEFINE t == Tail(ls)
  <1>1. /\ Head(ls) = ls[1] /\ 1 \in DOMAIN ls
        /\ \A i \in DOMAIN t : i + 1 \in DOMAIN ls /\ t[i] = ls[i + 1] /\ i \in Nat
        /\ \A i \in DOMAIN t : i >= 1
    BY TailLines
  <1> HIDE DEF t
  <1>2. \A i \in DOMAIN t : t[i].is \in Answers => t[i].is \in AnswersOf(cmd)
    BY <1>1 DEF AnswerOK
  <1>3. ASSUME NEW i \in DOMAIN t, NEW j \in DOMAIN t, i < j
        PROVE  /\ t[i].is \in Finals => t[j].is \notin Answers
               /\ t[j].is = "state" => t[i].is \notin Answers
    <2>1. /\ i + 1 \in DOMAIN ls /\ j + 1 \in DOMAIN ls /\ i + 1 < j + 1
          /\ t[i] = ls[i + 1] /\ t[j] = ls[j + 1]
      BY <1>1, <1>3
    <2> QED
      BY <2>1 DEF AnswerOK
  <1>4. ASSUME NEW i \in DOMAIN t
        PROVE  /\ Head(ls).is \in Finals => t[i].is \notin Answers
               /\ Head(ls).is \in Answers => t[i].is \notin {"state"}
    <2>1. i + 1 \in DOMAIN ls /\ t[i] = ls[i + 1] /\ 1 < i + 1
      BY <1>1
    <2> QED
      BY <1>1, <2>1 DEF AnswerOK
  <1> QED
    BY <1>1, <1>2, <1>3, <1>4 DEF AnswerOK, HasNo, t

LEMMA NoAnswers ==
    ASSUME NEW ls
    PROVE  /\ HasNo(ls, Answers) => \A cmd : AnswerOK(ls, cmd)
           /\ AnswerOK(ls, "none") => HasNo(ls, Answers)
  <1>1. "state" \in Answers /\ Finals \subseteq Answers /\ AnswersOf("none") = {}
    BY DEF Answers, Finals, AnswersOf
  <1> QED
    BY <1>1 DEF AnswerOK, HasNo

LEMMA AnswersCat ==
    ASSUME NEW s \in Seq(AnyLine), NEW t \in Seq(AnyLine), NEW cmd,
           AnswerOK(s, cmd), AnswerOK(t, cmd),
           HasNo(s, Finals) \/ HasNo(t, Answers),
           HasNo(t, {"state"}) \/ HasNo(s, Answers)
    PROVE  AnswerOK(s \o t, cmd)
  <1> DEFINE st == s \o t
  <1>1. /\ \A i \in DOMAIN st :
              /\ i \in Nat
              /\ \/ i \in DOMAIN s /\ st[i] = s[i]
                 \/ i > Len(s) /\ i - Len(s) \in DOMAIN t /\ st[i] = t[i - Len(s)]
        /\ Len(s) \in Nat
        /\ \A i \in DOMAIN s : i \in Nat /\ i <= Len(s)
    BY CatLines
  <1> HIDE DEF st
  <1>2. \A i \in DOMAIN st : st[i].is \in Answers => st[i].is \in AnswersOf(cmd)
    BY <1>1 DEF AnswerOK
  <1>3. ASSUME NEW i \in DOMAIN st, NEW j \in DOMAIN st, i < j
        PROVE  /\ st[i].is \in Finals => st[j].is \notin Answers
               /\ st[j].is = "state" => st[i].is \notin Answers
    <2>1. CASE i \in DOMAIN s /\ st[i] = s[i] /\ j \in DOMAIN s /\ st[j] = s[j]
      BY <1>3, <2>1 DEF AnswerOK
    <2>2. CASE /\ i \in DOMAIN s /\ st[i] = s[i]
               /\ j - Len(s) \in DOMAIN t /\ st[j] = t[j - Len(s)]
      <3>1. /\ HasNo(s, Finals) => s[i].is \notin Finals
            /\ HasNo(t, Answers) => t[j - Len(s)].is \notin Answers
            /\ HasNo(t, {"state"}) => t[j - Len(s)].is # "state"
            /\ HasNo(s, Answers) => s[i].is \notin Answers
        BY <2>2 DEF HasNo
      <3> QED
        BY <2>2, <3>1
    <2>3. CASE /\ i - Len(s) \in DOMAIN t /\ st[i] = t[i - Len(s)]
               /\ j - Len(s) \in DOMAIN t /\ st[j] = t[j - Len(s)]
      <3>1. i - Len(s) < j - Len(s)
        BY <1>1, <1>3
      <3> QED
        BY <2>3, <3>1 DEF AnswerOK
    <2>4. i > Len(s) => ~(j \in DOMAIN s)
      BY <1>1, <1>3
    <2> QED
      BY <1>1, <2>1, <2>2, <2>3, <2>4
  <1> QED
    BY <1>2, <1>3 DEF AnswerOK, st

\* The answer to a query has a row for each device, with what the modem knows.
LEMMA ListingIs ==
    ASSUME NEW ids \in [Devices -> Nat], NEW f \in Listings(ids)
    PROVE  \E n \in Nat :
              /\ DOMAIN f = 1 .. n
              /\ \A i \in 1 .. n : f[i] \in Devices /\ ids[f[i]] # 0
              /\ \A d \in Devices : ids[d] # 0 => \E i \in 1 .. n : f[i] = d
  <1> DEFINE known == {d \in Devices : ids[d] # 0}
             n == Cardinality(known)
  <1>1. n \in Nat
    BY BtAssumption, FS_Subset, FS_CardinalityType
  <1>2. f \in [1 .. n -> known] /\ Range(f) = known
    BY DEF Listings
  <1> HIDE DEF n
  <1>3. \A d \in known : \E i \in 1 .. n : f[i] = d
    BY <1>2 DEF Range
  <1> QED
    BY <1>1, <1>2, <1>3

RowsTrue(t, m) ==
    /\ \A i \in DOMAIN t : t[i].is = "paired" =>
          t[i].dev \in Devices /\ m.paired[t[i].dev] # 0 /\ t[i].id = m.paired[t[i].dev]
    /\ \A i \in DOMAIN t : t[i].is = "connected" =>
          /\ t[i].dev \in Devices /\ m.conn[t[i].dev] # 0
          /\ t[i].id = m.conn[t[i].dev] /\ t[i].more = m.profile[t[i].dev]

RowsAll(t, m) ==
    \A d \in Devices :
       /\ m.paired[d] # 0 => \E i \in DOMAIN t : t[i].is = "paired" /\ t[i].dev = d
       /\ m.conn[d] # 0 => \E i \in DOMAIN t : t[i].is = "connected" /\ t[i].dev = d

RowKinds == {"state", "paired", "connected"} \cup Finals

LEMMA StateAnswerIs ==
    ASSUME NEW m \in AnyModem, NEW s \in {0, 1, 5},
           NEW paired \in Listings(m.paired), NEW connected \in Listings(m.conn)
    PROVE  LET t == StateAnswer(m, s, paired, connected)
           IN  /\ t \in Seq(AnyLine) /\ AnswerOK(t, "QBTSTATE")
               /\ \A i \in DOMAIN t : t[i].is \in RowKinds
               /\ RowsTrue(t, m) /\ RowsAll(t, m)
               /\ 1 \in DOMAIN t /\ t[1].is = "state"
  <1> DEFINE a == BtLine("state", Nobody, s, Nothing)
             A == <<a>>
             B == [i \in DOMAIN paired |->
                      BtLine("paired", paired[i], m.paired[paired[i]], m.profile[paired[i]])]
             C == [i \in DOMAIN connected |->
                      BtLine("connected", connected[i], m.conn[connected[i]],
                             m.profile[connected[i]])]
             o == BtFinal("OK")
             D == <<o>>
             t == StateAnswer(m, s, paired, connected)
  <1>1. t = ((A \o B) \o C) \o D
    BY DEF StateAnswer
  <1>2. /\ m.paired \in [Devices -> Nat] /\ m.conn \in [Devices -> Nat]
        /\ m.profile \in [Devices -> ModemProfiles]
    BY DEF AnyModem
  <1>3. PICK np \in Nat : /\ DOMAIN paired = 1 .. np
                          /\ \A i \in 1 .. np : paired[i] \in Devices /\ m.paired[paired[i]] # 0
                          /\ \A d \in Devices : m.paired[d] # 0 => \E i \in 1 .. np : paired[i] = d
    BY <1>2, ListingIs
  <1>4. PICK nc \in Nat : /\ DOMAIN connected = 1 .. nc
                          /\ \A i \in 1 .. nc : connected[i] \in Devices /\ m.conn[connected[i]] # 0
                          /\ \A d \in Devices : m.conn[d] # 0 => \E i \in 1 .. nc : connected[i] = d
    BY <1>2, ListingIs
  <1>5. a \in AnyLine /\ a.is = "state" /\ o \in AnyLine /\ o.is = "OK"
    BY DEF BtLine, BtFinal, AnyLine, Kinds, Answers, Profiles
  <1>6. /\ B \in Seq(AnyLine) /\ DOMAIN B = 1 .. np
        /\ \A i \in 1 .. np : /\ B[i].is = "paired" /\ B[i].dev = paired[i]
                              /\ B[i].id = m.paired[paired[i]]
    <2>1. \A i \in 1 .. np :
             BtLine("paired", paired[i], m.paired[paired[i]], m.profile[paired[i]]) \in AnyLine
      BY <1>2, <1>3 DEF BtLine, AnyLine, Kinds, Answers, ModemProfiles
    <2> QED
      BY <1>3, <2>1 DEF BtLine
  <1>7. /\ C \in Seq(AnyLine) /\ DOMAIN C = 1 .. nc
        /\ \A i \in 1 .. nc : /\ C[i].is = "connected" /\ C[i].dev = connected[i]
                              /\ C[i].id = m.conn[connected[i]]
                              /\ C[i].more = m.profile[connected[i]]
    <2>1. \A i \in 1 .. nc :
             BtLine("connected", connected[i], m.conn[connected[i]], m.profile[connected[i]])
               \in AnyLine
      BY <1>2, <1>4 DEF BtLine, AnyLine, Kinds, Answers, ModemProfiles
    <2> QED
      BY <1>4, <2>1 DEF BtLine
  <1>8. /\ A \in Seq(AnyLine) /\ DOMAIN A = {1} /\ A[1].is = "state"
        /\ D \in Seq(AnyLine) /\ DOMAIN D = {1} /\ D[1].is = "OK"
    BY <1>5, OneLine
  <1>9. AnswersOf("QBTSTATE") = RowKinds /\ RowKinds \subseteq Answers
    BY DEF AnswersOf, RowKinds, Finals, Answers
  <1>10. AnswerOK(A, "QBTSTATE") /\ AnswerOK(D, "QBTSTATE")
    BY <1>5, <1>9, OneLine DEF RowKinds, Finals
  <1>11. /\ AnswerOK(B, "QBTSTATE") /\ HasNo(B, {"state"}) /\ HasNo(B, Finals)
         /\ AnswerOK(C, "QBTSTATE") /\ HasNo(C, {"state"}) /\ HasNo(C, Finals)
    <2> HIDE DEF B, C
    <2> QED
      BY <1>6, <1>7, <1>9 DEF AnswerOK, HasNo, RowKinds, Finals
  <1>12. HasNo(A, Finals) /\ HasNo(D, {"state"})
    BY <1>5, OneLine DEF Finals
  <1> HIDE DEF A, B, C, D, t
  <1> DEFINE AB == A \o B
             ABC == AB \o C
  <1>22. AB = A \o B /\ ABC = AB \o C /\ t = ABC \o D
    BY <1>1
  <1>13. AB \in Seq(AnyLine) /\ AnswerOK(AB, "QBTSTATE") /\ HasNo(AB, Finals)
    BY <1>6, <1>8, <1>10, <1>11, <1>12, AnswersCat, HasNoCat, CatLines
  <1> HIDE DEF AB
  <1>14. ABC \in Seq(AnyLine) /\ AnswerOK(ABC, "QBTSTATE") /\ HasNo(ABC, Finals)
    BY <1>7, <1>11, <1>13, AnswersCat, HasNoCat, CatLines
  <1> HIDE DEF ABC
  <1>15. t \in Seq(AnyLine) /\ AnswerOK(t, "QBTSTATE")
    BY <1>1, <1>8, <1>10, <1>12, <1>14, AnswersCat, CatLines DEF AB, ABC
  <1>23. /\ A \in Seq(AnyLine) /\ B \in Seq(AnyLine) /\ AB \in Seq(AnyLine)
         /\ C \in Seq(AnyLine) /\ ABC \in Seq(AnyLine) /\ D \in Seq(AnyLine)
    BY <1>6, <1>7, <1>8, <1>13, <1>14
  <1>24. Parts(AB, A, B) /\ Parts(ABC, AB, C) /\ Parts(t, ABC, D)
    BY <1>22, <1>23, CatHas
  <1>16. \A i \in DOMAIN t : \/ \E j \in DOMAIN A : t[i] = A[j]
                             \/ \E j \in DOMAIN B : t[i] = B[j]
                             \/ \E j \in DOMAIN C : t[i] = C[j]
                             \/ \E j \in DOMAIN D : t[i] = D[j]
    <2>1. \A i \in DOMAIN t : \/ \E j \in DOMAIN ABC : t[i] = ABC[j]
                              \/ \E j \in DOMAIN D : t[i] = D[j]
      BY <1>24 DEF Parts
    <2>2. \A i \in DOMAIN ABC : \/ \E j \in DOMAIN AB : ABC[i] = AB[j]
                                \/ \E j \in DOMAIN C : ABC[i] = C[j]
      BY <1>24 DEF Parts
    <2>3. \A i \in DOMAIN AB : \/ \E j \in DOMAIN A : AB[i] = A[j]
                               \/ \E j \in DOMAIN B : AB[i] = B[j]
      BY <1>24 DEF Parts
    <2> QED
      BY <2>1, <2>2, <2>3
  <1>17. /\ \A j \in DOMAIN A : j \in DOMAIN t /\ t[j] = A[j]
         /\ \A j \in DOMAIN B : \E i \in DOMAIN t : t[i] = B[j]
         /\ \A j \in DOMAIN C : \E i \in DOMAIN t : t[i] = C[j]
    <2>1. \A j \in DOMAIN ABC : j \in DOMAIN t /\ t[j] = ABC[j]
      BY <1>24 DEF Parts
    <2>2. /\ \A j \in DOMAIN AB : j \in DOMAIN ABC /\ ABC[j] = AB[j]
          /\ \A j \in DOMAIN C : \E i \in DOMAIN ABC : ABC[i] = C[j]
      BY <1>24 DEF Parts
    <2>3. /\ \A j \in DOMAIN A : j \in DOMAIN AB /\ AB[j] = A[j]
          /\ \A j \in DOMAIN B : \E i \in DOMAIN AB : AB[i] = B[j]
      BY <1>24 DEF Parts
    <2> QED
      BY <2>1, <2>2, <2>3
  <1>18. \A i \in DOMAIN t : t[i].is \in RowKinds
    BY <1>6, <1>7, <1>8, <1>16 DEF RowKinds, Finals
  <1>19. RowsTrue(t, m)
    <2>1. ASSUME NEW i \in DOMAIN t, t[i].is = "paired"
          PROVE  t[i].dev \in Devices /\ m.paired[t[i].dev] # 0 /\ t[i].id = m.paired[t[i].dev]
      <3>1. PICK j \in 1 .. np : t[i] = B[j]
        BY <1>6, <1>7, <1>8, <1>16, <2>1
      <3> QED
        BY <1>3, <1>6, <3>1
    <2>2. ASSUME NEW i \in DOMAIN t, t[i].is = "connected"
          PROVE  /\ t[i].dev \in Devices /\ m.conn[t[i].dev] # 0
                 /\ t[i].id = m.conn[t[i].dev] /\ t[i].more = m.profile[t[i].dev]
      <3>1. PICK j \in 1 .. nc : t[i] = C[j]
        BY <1>6, <1>7, <1>8, <1>16, <2>2
      <3> QED
        BY <1>4, <1>7, <3>1
    <2> QED
      BY <2>1, <2>2 DEF RowsTrue
  <1>20. RowsAll(t, m)
    <2>1. ASSUME NEW d \in Devices, m.paired[d] # 0
          PROVE  \E i \in DOMAIN t : t[i].is = "paired" /\ t[i].dev = d
      <3>1. PICK j \in 1 .. np : paired[j] = d
        BY <1>3, <2>1
      <3> QED
        BY <1>6, <1>17, <3>1
    <2>2. ASSUME NEW d \in Devices, m.conn[d] # 0
          PROVE  \E i \in DOMAIN t : t[i].is = "connected" /\ t[i].dev = d
      <3>1. PICK j \in 1 .. nc : connected[j] = d
        BY <1>4, <2>2
      <3> QED
        BY <1>7, <1>17, <3>1
    <2> QED
      BY <2>1, <2>2 DEF RowsAll
  <1>21. 1 \in DOMAIN t /\ t[1].is = "state"
    BY <1>8, <1>17
  <1> QED
    BY <1>15, <1>18, <1>19, <1>20, <1>21 DEF t

-----------------------------------------------------------------------------
(* A query is answered, an answer is over, or passed over.                 *)

\* What a query needs of the table, and of the lines before its answer.
Queryable(d, ls, t, m, gone) ==
    /\ d \in gone => m.paired[d] = 0 /\ m.conn[d] = 0 /\ d \notin m.connecting \cup m.asking
    /\ \/ d \in gone
       \/ KnownIn(t, d, "pairId") = -1
       \/ m.paired[d] # 0 /\ KnownIn(t, d, "pairId") = m.paired[d]
    /\ m.conn[d] = 0 => \/ d \in gone
                        \/ Settled(ls, ConnForget(d), ConnRow(d))
                        \/ KnownIn(t, d, "connId") = -1

\* It is answered with a row for each device, or with ERROR.
QueryAnswer(t, m) ==
    /\ t \in Seq(AnyLine) /\ \A i \in DOMAIN t : t[i].is \in RowKinds
    /\ RowsTrue(t, m)
    /\ RowsAll(t, m) \/ \E i \in DOMAIN t : t[i].is = "ERROR"

LEMMA AnsweredPair ==
    ASSUME NEW d, NEW ls \in Seq(AnyLine), NEW t \in Seq(AnyLine), NEW known, NEW paired, NEW gone,
           Free(ls, PairRow(d)), d \in gone => paired = 0,
           d \in gone \/ known = -1 \/ (paired # 0 /\ known = paired),
           Free(t, PairForget(d)),
           paired # 0 => \E i \in DOMAIN t : t[i] \in PairFix(d, "QBTSTATE"),
           \A i \in DOMAIN t : t[i] \in PairRow(d) => paired # 0 /\ t[i].id = paired
    PROVE  PairOK(d, ls \o t, known, paired, "QBTSTATE", gone)
  <1> DEFINE st == ls \o t
             Fix == PairFix(d, "QBTSTATE")
             Row == PairRow(d)
             Forget == PairForget(d)
  <1>1. paired # 0 => Settled(t, Fix, Forget)
    <2> HIDE DEF Fix, Forget
    <2> QED
      BY DEF Settled, Free, Fix, Forget
  <1>2. Settled(t, Fix, Forget) => Settled(st, Fix, Forget)
    <2> HIDE DEF Fix, Forget
    <2> QED
      BY SettledCat
  <1>3. Parts(st, ls, t)
    BY CatHas
  <1> HIDE DEF st, Fix, Forget, Row
  <1>4. \A i \in DOMAIN st : st[i] \in Row => paired # 0 /\ st[i].id = paired
    BY <1>3 DEF Parts, Free, Row
  <1> QED
    BY <1>1, <1>2, <1>4 DEF PairOK, st, Fix, Forget, Row

LEMMA AnsweredConn ==
    ASSUME NEW d, NEW ls \in Seq(AnyLine), NEW t \in Seq(AnyLine), NEW known, NEW as, NEW conn,
           NEW profile, NEW gone, Free(ls, ConnRow(d)), d \in gone => conn = 0,
           conn = 0 => \/ d \in gone
                       \/ Settled(ls, ConnForget(d), ConnRow(d))
                       \/ known = -1,
           Free(t, ConnForget(d)),
           conn # 0 => \E i \in DOMAIN t : t[i] \in ConnFix(d, conn, profile, "QBTSTATE"),
           \A i \in DOMAIN t : t[i] \in ConnRow(d) =>
              conn # 0 /\ t[i].id = conn /\ t[i].more = profile
    PROVE  ConnOK(d, ls \o t, known, as, conn, profile, "QBTSTATE", gone)
  <1> DEFINE st == ls \o t
             Fix == ConnFix(d, conn, profile, "QBTSTATE")
             Row == ConnRow(d)
             Forget == ConnForget(d)
  <1>1. conn # 0 => Settled(t, Fix, Forget)
    <2> HIDE DEF Fix, Forget
    <2> QED
      BY DEF Settled, Free, Fix, Forget
  <1>2. conn = 0 => Free(t, Row)
    BY DEF Free
  <1>3. /\ Settled(t, Fix, Forget) => Settled(st, Fix, Forget)
        /\ Settled(ls, Forget, Row) /\ Free(t, Row) => Settled(st, Forget, Row)
        /\ Free(t, Row) => Free(st, Row)
    <2>1. Free(ls, Row)
      OBVIOUS
    <2> HIDE DEF Fix, Forget, Row
    <2> QED
      BY <2>1, SettledCat, FreeCat
  <1>4. Parts(st, ls, t)
    BY CatHas
  <1> HIDE DEF st, Fix, Forget, Row
  <1>5. \A i \in DOMAIN st : st[i] \in Row => conn # 0 /\ st[i].id = conn /\ st[i].more = profile
    BY <1>4 DEF Parts, Free, Row
  <1>6. conn = 0 => d \in gone \/ Settled(st, Forget, Row) \/ (known = -1 /\ Free(st, Row))
    BY <1>2, <1>3 DEF Forget, Row
  <1> QED
    BY <1>1, <1>2, <1>3, <1>5, <1>6 DEF ConnOK, st, Fix, Forget, Row

LEMMA Answered ==
    ASSUME NEW d \in Devices, NEW ls \in Seq(AnyLine), NEW t, NEW m \in AnyModem, NEW table, NEW gone,
           HasNo(ls, Answers), QueryAnswer(t, m), Queryable(d, ls, table, m, gone)
    PROVE  DeviceOK(d, ls \o t, table, m, "QBTSTATE", gone)
  <1>1. /\ t \in Seq(AnyLine) /\ \A i \in DOMAIN t : t[i].is \in RowKinds
        /\ RowsTrue(t, m) /\ (RowsAll(t, m) \/ \E i \in DOMAIN t : t[i].is = "ERROR")
    BY DEF QueryAnswer
  <1>2. Free(ls, PairRow(d)) /\ Free(ls, ConnRow(d))
    BY DEF HasNo, Free, PairRow, ConnRow, Answers
  <1>3. Free(t, PairForget(d)) /\ Free(t, ConnForget(d))
    BY <1>1 DEF Free, PairForget, ConnForget, RowKinds, Finals
  <1>4. \A i \in DOMAIN t : t[i] \in AnyLine
    BY <1>1
  <1>5. m.paired[d] # 0 => \E i \in DOMAIN t : t[i] \in PairFix(d, "QBTSTATE")
    BY <1>1, <1>4 DEF RowsAll, PairFix, PairRow, Doom
  <1>6. m.conn[d] # 0 => \E i \in DOMAIN t :
                            t[i] \in ConnFix(d, m.conn[d], m.profile[d], "QBTSTATE")
    BY <1>1, <1>4 DEF RowsAll, RowsTrue, ConnFix, Doom
  <1>7. \A i \in DOMAIN t : t[i] \in PairRow(d) => m.paired[d] # 0 /\ t[i].id = m.paired[d]
    BY <1>1 DEF RowsTrue, PairRow
  <1>8. \A i \in DOMAIN t : t[i] \in ConnRow(d) =>
           m.conn[d] # 0 /\ t[i].id = m.conn[d] /\ t[i].more = m.profile[d]
    BY <1>1 DEF RowsTrue, ConnRow
  <1>9. PairOK(d, ls \o t, KnownIn(table, d, "pairId"), m.paired[d], "QBTSTATE", gone)
    BY <1>1, <1>2, <1>3, <1>5, <1>7, AnsweredPair DEF Queryable
  <1>10. ConnOK(d, ls \o t, KnownIn(table, d, "connId"), KnownIn(table, d, "profileId"),
                m.conn[d], m.profile[d], "QBTSTATE", gone)
    BY <1>1, <1>2, <1>3, <1>6, <1>8, AnsweredConn DEF Queryable
  <1> QED
    BY <1>9, <1>10 DEF DeviceOK, Queryable

\* Without answers left, the command does not matter.
LEMMA AnswerOver ==
    ASSUME NEW d, NEW ls \in Seq(AnyLine), NEW t, NEW m, NEW cmd, NEW cmd2, NEW gone,
           HasNo(ls, {"ERROR"}) \/ cmd # "QBTSTATE", DeviceOK(d, ls, t, m, cmd, gone)
    PROVE  DeviceOK(d, ls, t, m, cmd2, gone)
  <1>1. \A i \in DOMAIN ls : ls[i] \notin Doom(cmd)
    BY DEF Doom, HasNo
  <1>2. ASSUME NEW G, Settled(ls, PairFix(d, cmd), G) PROVE Settled(ls, PairFix(d, cmd2), G)
    BY <1>1, <1>2 DEF Settled, PairFix
  <1>3. ASSUME NEW c, NEW p, NEW G, Settled(ls, ConnFix(d, c, p, cmd), G)
        PROVE  Settled(ls, ConnFix(d, c, p, cmd2), G)
    BY <1>1, <1>3 DEF Settled, ConnFix
  <1> QED
    BY <1>2, <1>3 DEF DeviceOK, PairOK, ConnOK

\* What is left of an answer is passed over.
LEMMA LateIs ==
    ASSUME NEW ls \in Seq(AnyLine)
    PROVE  /\ Late(ls) \in Seq(AnyLine) /\ HasNo(Late(ls), Answers)
           /\ DOMAIN Late(ls) = DOMAIN ls
           /\ \A i \in DOMAIN ls :
                 /\ ls[i].is \notin Answers => Late(ls)[i] = ls[i]
                 /\ ls[i].is \in Answers => Late(ls)[i].is = "late"
  <1>1. ASSUME NEW i \in DOMAIN ls
        PROVE  /\ [ls[i] EXCEPT !.is = "late"] \in AnyLine
               /\ [ls[i] EXCEPT !.is = "late"].is = "late"
    <2>1. ls[i] \in AnyLine
      OBVIOUS
    <2> QED
      BY <2>1 DEF AnyLine, Kinds
  <1> DEFINE r == Late(ls)
  <1>2. /\ DOMAIN r = DOMAIN ls
        /\ \A i \in DOMAIN ls : r[i] = IF ls[i].is \in Answers THEN [ls[i] EXCEPT !.is = "late"]
                                       ELSE ls[i]
    BY DEF Late
  <1>3. r \in Seq(AnyLine)
    <2>1. DOMAIN ls = 1 .. Len(ls) /\ Len(ls) \in Nat /\ \A i \in DOMAIN ls : ls[i] \in AnyLine
      OBVIOUS
    <2>2. \A i \in 1 .. Len(ls) : r[i] \in AnyLine
      BY <1>1, <1>2, <2>1
    <2>3. r = [i \in 1 .. Len(ls) |-> r[i]]
      BY <2>1 DEF Late
    <2> HIDE DEF r
    <2> QED
      BY <2>1, <2>2, <2>3
  <1>4. "late" \notin Answers
    BY DEF Answers
  <1> HIDE DEF r
  <1>5. HasNo(r, Answers)
    BY <1>1, <1>2, <1>4 DEF HasNo
  <1> QED
    BY <1>1, <1>2, <1>3, <1>5 DEF r

LEMMA LateKeeps ==
    ASSUME NEW d, NEW ls \in Seq(AnyLine), NEW t, NEW m, NEW cmd, NEW cmd2, NEW gone,
           cmd # "QBTSTATE", HasNo(ls, {"paired", "connected"}),
           DeviceOK(d, ls, t, m, cmd, gone)
    PROVE  DeviceOK(d, Late(ls), t, m, cmd2, gone)
  <1> DEFINE r == Late(ls)
  <1>1. /\ DOMAIN r = DOMAIN ls
        /\ \A i \in DOMAIN ls : /\ ls[i].is \notin Answers => r[i] = ls[i]
                                /\ ls[i].is \in Answers => r[i].is = "late"
        /\ \A i \in DOMAIN ls : ls[i] \in AnyLine
    BY LateIs
  <1> HIDE DEF r
  <1>2. \A i \in DOMAIN ls : /\ ls[i] \in Requery => r[i] = ls[i]
                             /\ ls[i] \in ConnForget(d) => r[i] = ls[i]
                             /\ r[i] \in ConnForget(d) => r[i] = ls[i]
                             /\ r[i] \in PairForget(d) => r[i] = ls[i]
    BY <1>1 DEF Requery, ConnForget, PairForget, Answers
  <1>3. \A i \in DOMAIN ls : /\ ls[i] \notin PairRow(d) /\ r[i] \notin PairRow(d)
                             /\ ls[i] \notin ConnRow(d) /\ r[i] \notin ConnRow(d)
    BY <1>1 DEF HasNo, PairRow, ConnRow, Answers
  <1>4. \A i \in DOMAIN ls : /\ ls[i] \in PairFix(d, cmd) => r[i] = ls[i] /\ ls[i] \in Requery
                             /\ \A c, p : ls[i] \in ConnFix(d, c, p, cmd) =>
                                   r[i] = ls[i] /\ ls[i] \in Requery
    BY <1>2, <1>3 DEF PairFix, ConnFix, ConnRow, Doom
  <1>5. Settled(ls, PairFix(d, cmd), PairForget(d)) => Settled(r, PairFix(d, cmd2), PairForget(d))
    <2>1. Requery \subseteq PairFix(d, cmd2)
      BY DEF PairFix
    <2> QED
      BY <1>1, <1>2, <1>4, <2>1 DEF Settled
  <1>6. ASSUME NEW c, NEW p, Settled(ls, ConnFix(d, c, p, cmd), ConnForget(d))
        PROVE  Settled(r, ConnFix(d, c, p, cmd2), ConnForget(d))
    <2>1. Requery \subseteq ConnFix(d, c, p, cmd2)
      BY DEF ConnFix
    <2> QED
      BY <1>1, <1>2, <1>4, <1>6, <2>1 DEF Settled
  <1>7. Settled(ls, ConnForget(d), ConnRow(d)) => Settled(r, ConnForget(d), ConnRow(d))
    BY <1>1, <1>2, <1>3 DEF Settled
  <1>8. /\ Free(ls, PairForget(d)) => Free(r, PairForget(d))
        /\ Free(ls, ConnForget(d)) => Free(r, ConnForget(d))
        /\ Free(r, ConnRow(d)) /\ Free(r, PairRow(d))
    BY <1>1, <1>2, <1>3 DEF Free
  <1>9. ASSUME NEW p, NEW g, PairOK(d, ls, p, g, cmd, gone) PROVE PairOK(d, r, p, g, cmd2, gone)
    BY <1>1, <1>3, <1>5, <1>8, <1>9 DEF PairOK
  <1>10. ASSUME NEW k, NEW a, NEW c, NEW p, ConnOK(d, ls, k, a, c, p, cmd, gone)
         PROVE  ConnOK(d, r, k, a, c, p, cmd2, gone)
    BY <1>1, <1>3, <1>6, <1>7, <1>8, <1>10 DEF ConnOK
  <1> QED
    BY <1>9, <1>10 DEF DeviceOK, r

-----------------------------------------------------------------------------
(* The first line of a query's answer, and the lines of a read.            *)

LEMMA PromptGrows ==
    ASSUME NEW ls \in Seq(AnyLine), NEW t \in Seq(AnyLine), NEW cmd, NEW first,
           HasNo(t, Answers), PromptOK(ls, cmd, first)
    PROVE  PromptOK(ls \o t, cmd, first)
  <1> DEFINE st == ls \o t
  <1>1. \A i \in DOMAIN st : (i \in DOMAIN ls /\ st[i] = ls[i]) \/ st[i].is \notin Answers
    BY CatLines DEF HasNo
  <1>2. \A i \in DOMAIN ls : i \in DOMAIN st /\ st[i] = ls[i]
    BY CatLines
  <1>3. {"state", "paired", "connected"} \subseteq Answers
    BY DEF Answers
  <1> HIDE DEF st
  <1> QED
    BY <1>1, <1>2, <1>3 DEF PromptOK, st

LEMMA PromptTail ==
    ASSUME NEW ls \in Seq(AnyLine), ls # <<>>, NEW cmd, NEW first,
           Head(ls).is # "state", PromptOK(ls, cmd, first)
    PROVE  PromptOK(Tail(ls), cmd, first)
  <1> DEFINE t == Tail(ls)
  <1>1. /\ Head(ls) = ls[1] /\ 1 \in DOMAIN ls
        /\ \A i \in DOMAIN t : i + 1 \in DOMAIN ls /\ t[i] = ls[i + 1] /\ i \in Nat
        /\ \A i \in DOMAIN ls : i = 1 \/ (i - 1 \in DOMAIN t /\ t[i - 1] = ls[i])
        /\ DOMAIN ls \subseteq Nat
    BY TailLines
  <1> HIDE DEF t
  <1>2. ASSUME NEW j \in DOMAIN t, \E i \in DOMAIN ls : i < j + 1 /\ ls[i].is = "state"
        PROVE  \E i \in DOMAIN t : i < j /\ t[i].is = "state"
    <2>1. PICK i \in DOMAIN ls : i < j + 1 /\ ls[i].is = "state"
      BY <1>2
    <2>2. i # 1 /\ i \in Nat /\ j \in Nat
      BY <1>1, <2>1
    <2>3. i - 1 \in DOMAIN t /\ t[i - 1] = ls[i]
      BY <1>1, <2>1, <2>2
    <2>4. i - 1 < j
      BY <2>1, <2>2
    <2> QED
      BY <2>1, <2>3, <2>4
  <1> QED
    BY <1>1, <1>2 DEF PromptOK, t

LEMMA ReadGrows ==
    ASSUME NEW ls \in Seq(AnyLine), NEW t \in Seq(AnyLine), NEW had, NEW got,
           HasNo(t, Answers), ReadOK(ls, had, got)
    PROVE  ReadOK(ls \o t, had, got)
  <1> DEFINE st == ls \o t
  <1>1. \A i \in DOMAIN st : (i \in DOMAIN ls /\ st[i] = ls[i]) \/ st[i].is \notin Answers
    BY CatLines DEF HasNo
  <1>2. \A i \in DOMAIN ls : i \in DOMAIN st /\ st[i] = ls[i]
    BY CatLines
  <1>3. {"read", "data", "OK"} \subseteq Answers
    BY DEF Answers
  <1> HIDE DEF st
  <1>4. /\ \A i, j \in DOMAIN st : i < j /\ st[i].is = "data" => st[j].is \notin {"read", "data"}
        /\ \A i \in DOMAIN st : st[i].is = "read" => st[i].id = had
    BY <1>1, <1>2, <1>3 DEF ReadOK
  <1>5. had = 0 => ReadTrue(0, got) /\ \A i \in DOMAIN st : st[i].is # "data"
    BY <1>1, <1>2, <1>3 DEF ReadOK
  <1>6. had # 0 => \A i \in DOMAIN st : st[i].is = "OK" =>
           \/ got = <<had>> /\ \A j \in DOMAIN st : st[j].is \notin {"read", "data"}
           \/ \E j \in DOMAIN st : j < i /\ st[j].is = "data"
    BY <1>1, <1>2, <1>3 DEF ReadOK
  <1> QED
    BY <1>4, <1>5, <1>6 DEF ReadOK, st

LEMMA ReadTail ==
    ASSUME NEW ls \in Seq(AnyLine), ls # <<>>, NEW had, NEW got, ReadOK(ls, had, got)
    PROVE  /\ Head(ls).is # "data" => ReadOK(Tail(ls), had, got)
           /\ Head(ls).is = "read" => Head(ls).id = had /\ ReadOK(Tail(ls), had, <<0>>)
           /\ Head(ls).is = "data" => had # 0 /\ ReadOK(Tail(ls), had, <<had>>)
           /\ Head(ls).is = "OK" => ReadTrue(had, got)
  <1> DEFINE t == Tail(ls)
             h == Head(ls)
             Seen(g, j) == \/ g = <<had>> /\ \A k \in DOMAIN t : t[k].is \notin {"read", "data"}
                           \/ \E n \in DOMAIN t : n < j /\ t[n].is = "data"
  <1>1. /\ h = ls[1] /\ 1 \in DOMAIN ls
        /\ \A i \in DOMAIN t : i + 1 \in DOMAIN ls /\ t[i] = ls[i + 1] /\ i \in Nat /\ 1 < i + 1
        /\ \A i \in DOMAIN ls : i = 1 \/ (i - 1 \in DOMAIN t /\ t[i - 1] = ls[i])
        /\ DOMAIN ls \subseteq Nat /\ \A i \in DOMAIN ls : ~(i < 1)
    BY TailLines
  <1> HIDE DEF t, h
  <1>2. /\ \A i, j \in DOMAIN t : i < j /\ t[i].is = "data" => t[j].is \notin {"read", "data"}
        /\ \A i \in DOMAIN t : t[i].is = "read" => t[i].id = had
        /\ had = 0 => ReadTrue(0, got) /\ \A i \in DOMAIN t : t[i].is # "data"
    <2>1. \A i, j \in DOMAIN t : i < j => i + 1 < j + 1
      BY <1>1
    <2> QED
      BY <1>1, <2>1 DEF ReadOK
  <1>3. ASSUME had # 0, h.is # "data", NEW j \in DOMAIN t, t[j].is = "OK"
        PROVE  Seen(got, j) /\ (h.is = "read" => Seen(<<0>>, j))
    <2>1. /\ j + 1 \in DOMAIN ls /\ t[j] = ls[j + 1] /\ j \in Nat
      BY <1>1
    <2>2. CASE got = <<had>> /\ \A k \in DOMAIN ls : ls[k].is \notin {"read", "data"}
      BY <1>1, <2>2
    <2>3. CASE \E k \in DOMAIN ls : k < j + 1 /\ ls[k].is = "data"
      <3>1. PICK k \in DOMAIN ls : k < j + 1 /\ ls[k].is = "data"
        BY <2>3
      <3>2. k # 1 /\ k \in Nat
        BY <1>1, <1>3, <3>1
      <3>3. k - 1 \in DOMAIN t /\ t[k - 1] = ls[k]
        BY <1>1, <3>1, <3>2
      <3>4. k - 1 < j
        BY <2>1, <3>1, <3>2
      <3> QED
        BY <3>1, <3>3, <3>4
    <2> QED
      BY <1>3, <2>1, <2>2, <2>3 DEF ReadOK
  <1>4. ASSUME h.is # "data" PROVE ReadOK(t, had, got)
    BY <1>2, <1>3, <1>4 DEF ReadOK
  <1>5. ASSUME h.is = "read" PROVE h.id = had /\ ReadOK(t, had, <<0>>)
    <2>1. h.id = had
      BY <1>1, <1>5 DEF ReadOK
    <2>2. ReadTrue(0, <<0>>)
      BY DEF ReadTrue
    <2> QED
      BY <1>2, <1>3, <1>5, <2>1, <2>2 DEF ReadOK
  <1>6. ASSUME h.is = "data" PROVE had # 0 /\ ReadOK(t, had, <<had>>)
    <2>1. had # 0
      BY <1>1, <1>6 DEF ReadOK
    <2>2. \A k \in DOMAIN t : t[k].is \notin {"read", "data"}
      BY <1>1, <1>6 DEF ReadOK
    <2> QED
      BY <1>2, <2>1, <2>2 DEF ReadOK
  <1>7. ASSUME h.is = "OK" PROVE ReadTrue(had, got)
    <2>1. CASE had = 0
      BY <2>1 DEF ReadOK, ReadTrue
    <2>2. CASE had # 0
      <3>1. got = <<had>>
        BY <1>1, <1>7, <2>2 DEF ReadOK
      <3> QED
        BY <2>2, <3>1 DEF ReadTrue
    <2> QED
      BY <2>1, <2>2
  <1> QED
    BY <1>4, <1>5, <1>6, <1>7 DEF t, h

LEMMA ReadOver ==
    ASSUME NEW ls, NEW had, NEW got, HasNo(ls, Answers), had = 0 => ReadTrue(0, got)
    PROVE  ReadOK(ls, had, got)
  <1>1. {"read", "data", "OK"} \subseteq Answers
    BY DEF Answers
  <1> QED
    BY <1>1 DEF ReadOK, HasNo

-----------------------------------------------------------------------------
(* What the modem does of itself, and what it is told.                     *)

\* A step of the modem from m to m2 that reports t behind the lines ls.
Moves(d, ls, t, m, m2, gone2) ==
    /\ d \in gone2 => /\ m2.paired[d] = 0 /\ m2.conn[d] = 0 /\ Free(ls, ConnRow(d))
                      /\ d \notin m2.connecting \cup m2.asking
    /\ Free(t, PairRow(d)) /\ Free(t, ConnRow(d))
    /\ \/ m2.paired[d] = m.paired[d] /\ (m.paired[d] = 0 \/ Free(t, PairForget(d)))
       \/ m.paired[d] = 0 /\ Settled(t, Requery, PairForget(d))
       \/ d \in gone2 /\ Free(ls, PairRow(d))
    /\ \/ m2.conn[d] = m.conn[d] /\ m.conn[d] = 0
       \/ m2.conn[d] = m.conn[d] /\ m2.profile[d] = m.profile[d] /\ Free(t, ConnForget(d))
       \/ m.conn[d] = 0 /\ m2.conn[d] # 0 /\ Settled(t, Requery, ConnForget(d))
       \/ m2.conn[d] = 0 /\ \E i \in DOMAIN t : t[i] \in ConnForget(d)
       \/ d \in gone2

LEMMA DeviceGrows ==
    ASSUME NEW d, NEW ls \in Seq(AnyLine), NEW t \in Seq(AnyLine), NEW table, NEW m, NEW m2,
           NEW cmd, NEW cmd2, NEW gone, NEW gone2,
           DeviceOK(d, ls, table, m, cmd, gone), cmd2 = cmd \/ cmd # "QBTSTATE",
           d \in gone => d \in gone2, Moves(d, ls, t, m, m2, gone2)
    PROVE  DeviceOK(d, ls \o t, table, m2, cmd2, gone2)
  <1> DEFINE known == KnownIn(table, d, "pairId")
             paired == m.paired[d]
             paired2 == m2.paired[d]
             link == KnownIn(table, d, "connId")
             as == KnownIn(table, d, "profileId")
             conn == m.conn[d]
             conn2 == m2.conn[d]
             profile == m.profile[d]
             profile2 == m2.profile[d]
  <1>1. /\ PairOK(d, ls, known, paired, cmd, gone)
        /\ d \in gone2 => paired2 = 0
        /\ Free(t, PairRow(d))
        /\ \/ paired2 = paired /\ (paired = 0 \/ Free(t, PairForget(d)))
           \/ paired = 0 /\ Settled(t, Requery, PairForget(d))
           \/ d \in gone2 /\ Free(ls, PairRow(d))
    BY DEF DeviceOK, Moves
  <1>2. /\ ConnOK(d, ls, link, as, conn, profile, cmd, gone)
        /\ d \in gone2 => conn2 = 0 /\ Free(ls, ConnRow(d))
        /\ Free(t, ConnRow(d))
        /\ \/ conn2 = conn /\ conn = 0
           \/ conn2 = conn /\ profile2 = profile /\ Free(t, ConnForget(d))
           \/ conn = 0 /\ conn2 # 0 /\ Settled(t, Requery, ConnForget(d))
           \/ conn2 = 0 /\ \E i \in DOMAIN t : t[i] \in ConnForget(d)
           \/ d \in gone2
    BY DEF DeviceOK, Moves
  <1>3. d \in gone2 => d \notin m2.connecting \cup m2.asking
    BY DEF Moves
  <1> HIDE DEF known, paired, paired2, link, as, conn, conn2, profile, profile2
  <1>4. PairOK(d, ls \o t, known, paired2, cmd2, gone2)
    BY <1>1, PairGrow
  <1>5. ConnOK(d, ls \o t, link, as, conn2, profile2, cmd2, gone2)
    BY <1>2, ConnGrow
  <1> QED
    BY <1>3, <1>4, <1>5 DEF DeviceOK, known, paired2, link, as, conn2, profile2

LEMMA GoneIs ==
    ASSUME NEW d \in Devices, DeviceOK(d, btLines, btTable, btModem, btCmd.cmd, Gone), d \in Gone
    PROVE  /\ btModem.paired[d] = 0 /\ btModem.conn[d] = 0
           /\ d \notin btModem.connecting \cup btModem.asking
           /\ Free(btLines, ConnRow(d))
  BY DEF DeviceOK, PairOK, ConnOK

LEMMA Emitted ==
    ASSUME BtInv, NEW line \in AnyLine, NEW modem \in AnyModem, Emits(line, modem),
           line.is \notin Answers, ModemOK(modem),
           \A d \in Devices : DeviceOK(d, btLines, btTable, btModem, btCmd.cmd, Gone)
              => Moves(d, btLines, <<line>>, btModem, modem, Gone)
    PROVE  BtInv'
  <1> DEFINE t == <<line>>
  <1>1. /\ t \in Seq(AnyLine) /\ HasNo(t, Answers) /\ \A cmd : AnswerOK(t, cmd)
    BY OneLine
  <1>2. btLines \in Seq(AnyLine)
    BY DEF BtInv, BtTyped
  <1>3. btLines' = btLines \o t
    <2>1. btLines' = Append(btLines, line)
      BY DEF Emits
    <2> QED
      BY <1>2, <2>1
  <1>4. /\ btModem' = modem /\ btFault' = FALSE
        /\ UNCHANGED <<btTable, btCallback, btApp, btRc, btResult, btCmd, btFirst, btReadMode,
                       btGot, btMissed>>
    BY DEF Emits, btCallVars, btHandlerVars
  <1> HIDE DEF t
  <1>5. Finals \subseteq Answers /\ "state" \in Answers /\ "OK" \in Answers
    BY DEF Finals, Answers
  <1>6. HasNo(t, {"state"}) /\ HasNo(t, Finals) /\ HasNo(t, {"OK"})
    BY <1>1, <1>5 DEF HasNo
  <1>7. BtTyped'
    <2>1. btLines' \in Seq(AnyLine)
      BY <1>1, <1>2, <1>3, CatLines
    <2> QED
      BY <1>4, <2>1 DEF BtInv, BtTyped
  <1>8. AnswerOK(btLines, btCmd.cmd)'
    BY <1>1, <1>2, <1>3, <1>4, <1>6, AnswersCat DEF BtInv
  <1>9. Gone' = Gone
    <2>1. (\E i \in DOMAIN btLines' : btLines'[i].is = "OK")
             <=> \E i \in DOMAIN btLines : btLines[i].is = "OK"
      BY <1>1, <1>2, <1>3, <1>6, CatHas DEF Parts, HasNo
    <2> QED
      BY <1>4, <2>1 DEF Gone
  <1>10. BtReadOK'
    BY <1>1, <1>2, <1>3, <1>4, ReadGrows DEF BtInv, BtReadOK
  <1>11. ASSUME ~btMissed' PROVE BtTableOK'
    <2>1. BtTableOK
      BY <1>4, <1>11 DEF BtInv
    <2>2. PromptOK(btLines, btCmd.cmd, btFirst)'
      BY <1>1, <1>2, <1>3, <1>4, <2>1, PromptGrows DEF BtTableOK
    <2>3. ASSUME NEW d \in Devices
          PROVE  DeviceOK(d, btLines', btTable', btModem', btCmd'.cmd, Gone')
      <3>1. DeviceOK(d, btLines, btTable, btModem, btCmd.cmd, Gone)
        BY <2>1 DEF BtTableOK
      <3>2. Moves(d, btLines, t, btModem, modem, Gone)
        BY <3>1 DEF t
      <3> QED
        BY <1>1, <1>2, <1>3, <1>4, <1>9, <3>1, <3>2, DeviceGrows
    <2> QED
      BY <1>4, <2>1, <2>2, <2>3 DEF BtTableOK
  <1>12. BtCommandOK' /\ (btApp = NoApp <=> btRc = "none")' /\ ModemOK(btModem)'
    BY <1>4 DEF BtInv, BtCommandOK
  <1> QED
    BY <1>7, <1>8, <1>10, <1>11, <1>12 DEF BtInv

LEMMA LineOK ==
    ASSUME NEW is \in Kinds, NEW dev \in Devices \cup {Nobody}, NEW id \in Nat
    PROVE  LET l == BtLine(is, dev, id, Nothing)
           IN  l \in AnyLine /\ l.is = is /\ l.dev = dev /\ l.id = id
  BY DEF BtLine, AnyLine, Profiles

\* One code of the modem, and what it tells of d.
LEMMA MovesOne ==
    ASSUME NEW d \in Devices, NEW ls, NEW l \in AnyLine, NEW m, NEW m2, NEW gone,
           d \in gone => /\ m2.paired[d] = 0 /\ m2.conn[d] = 0 /\ Free(ls, ConnRow(d))
                         /\ d \notin m2.connecting \cup m2.asking,
           l.is \notin {"paired", "connected"},
           \/ m2.paired[d] = m.paired[d] /\ (m.paired[d] = 0 \/ l \notin PairForget(d))
           \/ m.paired[d] = 0 /\ l.is \in {"QBTPAIRCNF", "QBTCONN", "QBTACPT"} /\ l.id # 0,
           \/ m2.conn[d] = m.conn[d] /\ m.conn[d] = 0
           \/ /\ m2.conn[d] = m.conn[d] /\ m2.profile[d] = m.profile[d]
              /\ l \notin ConnForget(d)
           \/ m.conn[d] = 0 /\ m2.conn[d] # 0
              /\ l.is \in {"QBTPAIRCNF", "QBTCONN", "QBTACPT"} /\ l.id # 0
           \/ m2.conn[d] = 0 /\ l.is \in {"disc", "QBTDISC", "QBTDISCONN"} /\ l.dev = d
    PROVE  Moves(d, ls, <<l>>, m, m2, gone)
  <1>1. /\ \A G : Free(<<l>>, G) <=> l \notin G
        /\ \A F, G : Settled(<<l>>, F, G) <=> l \in F
        /\ DOMAIN <<l>> = {1} /\ <<l>>[1] = l
    BY OneLine
  <1>2. l \notin PairRow(d) /\ l \notin ConnRow(d)
    BY DEF PairRow, ConnRow
  <1>3. /\ l \in PairForget(d) => l.is = "QBTPAIRCNF"
        /\ l.is \in {"QBTPAIRCNF", "QBTCONN", "QBTACPT"} /\ l.id # 0 => l \in Requery
        /\ l.dev = d /\ l.is \in {"disc", "QBTDISC", "QBTDISCONN"} => l \in ConnForget(d)
        /\ l \in ConnForget(d) =>
              l.dev = d /\ l.is \in {"disc", "QBTDISC", "QBTDISCONN", "QBTCONN"}
    BY DEF PairForget, Requery, ConnForget
  <1> DEFINE t == <<l>>
  <1>4. /\ Free(t, PairRow(d)) /\ Free(t, ConnRow(d))
        /\ l \notin PairForget(d) => Free(t, PairForget(d))
        /\ l \notin ConnForget(d) => Free(t, ConnForget(d))
        /\ \A G : l \in Requery => Settled(t, Requery, G)
        /\ l \in ConnForget(d) => \E i \in DOMAIN t : t[i] \in ConnForget(d)
    BY <1>1, <1>2
  <1> HIDE DEF t
  <1>5. \/ m2.paired[d] = m.paired[d] /\ (m.paired[d] = 0 \/ Free(t, PairForget(d)))
        \/ m.paired[d] = 0 /\ Settled(t, Requery, PairForget(d))
    BY <1>3, <1>4
  <1>6. \/ m2.conn[d] = m.conn[d] /\ m.conn[d] = 0
        \/ m2.conn[d] = m.conn[d] /\ m2.profile[d] = m.profile[d] /\ Free(t, ConnForget(d))
        \/ m.conn[d] = 0 /\ m2.conn[d] # 0 /\ Settled(t, Requery, ConnForget(d))
        \/ m2.conn[d] = 0 /\ \E i \in DOMAIN t : t[i] \in ConnForget(d)
    BY <1>3, <1>4
  <1> QED
    BY <1>4, <1>5, <1>6 DEF Moves, t

\* The modem stays as it is, or changes what the table does not say.
LEMMA MovesStill ==
    ASSUME NEW d \in Devices, NEW l \in AnyLine, NEW m2,
           DeviceOK(d, btLines, btTable, btModem, btCmd.cmd, Gone),
           l.is \notin {"paired", "connected"},
           btModem.paired[d] = 0 \/ l \notin PairForget(d),
           l \notin ConnForget(d),
           m2.paired[d] = btModem.paired[d], m2.conn[d] = btModem.conn[d],
           m2.profile[d] = btModem.profile[d],
           d \in m2.connecting => d \in btModem.connecting,
           d \in m2.asking => d \in btModem.asking
    PROVE  Moves(d, btLines, <<l>>, btModem, m2, Gone)
  <1>1. d \in Gone => /\ m2.paired[d] = 0 /\ m2.conn[d] = 0 /\ Free(btLines, ConnRow(d))
                      /\ d \notin m2.connecting \cup m2.asking
    BY GoneIs
  <1> QED
    BY <1>1, MovesOne

LEMMA ModemKinds ==
    /\ {"QBTSCAN", "QBTPAIR", "QBTPAIRCNF", "QBTCONN", "QBTACPT", "QBTDISC", "QBTDISCONN",
        "pair", "conn", "disc", "recv"} \subseteq Kinds
    /\ \A is \in {"QBTSCAN", "QBTPAIR", "QBTPAIRCNF", "QBTCONN", "QBTACPT", "QBTDISC",
                  "QBTDISCONN", "pair", "conn", "disc", "recv"} :
          is \notin Answers /\ is \notin {"paired", "connected"}
  BY DEF Kinds, Answers

\* The modem's record.
LEMMA ModemTyped ==
    ASSUME NEW m \in AnyModem
    PROVE  /\ m.paired \in [Devices -> Nat] /\ m.conn \in [Devices -> Nat]
           /\ m.profile \in [Devices -> ModemProfiles]
           /\ m.pairing \subseteq Devices /\ m.connecting \subseteq Devices
           /\ m.asking \subseteq Devices /\ m.found \in Seq(Devices)
  BY DEF AnyModem

LEMMA ModemFindsKeeps ==
    ASSUME BtInv, NEW d \in Devices, ModemFinds(d) PROVE BtInv'
  <1> DEFINE l == BtLine("QBTSCAN", d, Len(btModem.found) + 1, Nothing)
             m2 == [btModem EXCEPT !.found = Append(@, d)]
  <1>1. btModem \in AnyModem /\ ModemOK(btModem)
    BY DEF BtInv, BtTyped
  <1>2. l \in AnyLine /\ l.is = "QBTSCAN"
    BY <1>1, ModemTyped, ModemKinds, LineOK
  <1>3. /\ m2 \in AnyModem /\ m2.paired = btModem.paired /\ m2.conn = btModem.conn
        /\ m2.profile = btModem.profile /\ m2.connecting = btModem.connecting
        /\ m2.asking = btModem.asking /\ m2.pairing = btModem.pairing
    <2> DEFINE f == Append(btModem.found, d)
    <2>1. f \in Seq(Devices)
      BY <1>1, ModemTyped
    <2>2. m2 = [btModem EXCEPT !.found = f]
      OBVIOUS
    <2> HIDE DEF f, m2
    <2> QED
      BY <1>1, <2>1, <2>2 DEF AnyModem
  <1>4. Emits(l, m2)
    BY DEF ModemFinds
  <1> HIDE DEF l, m2
  <1>5. ModemOK(m2)
    BY <1>1, <1>3 DEF ModemOK
  <1>6. ASSUME NEW e \in Devices, DeviceOK(e, btLines, btTable, btModem, btCmd.cmd, Gone)
        PROVE  Moves(e, btLines, <<l>>, btModem, m2, Gone)
    <2>1. l \notin PairForget(e) /\ l \notin ConnForget(e)
      BY <1>2 DEF PairForget, ConnForget
    <2> QED
      BY <1>2, <1>3, <1>6, <2>1, MovesStill
  <1> QED
    BY <1>2, <1>3, <1>4, <1>5, <1>6, ModemKinds, Emitted

LEMMA ScanEndsKeeps ==
    ASSUME BtInv, ScanEnds PROVE BtInv'
  <1> DEFINE l == BtLine("QBTSCAN", Nobody, 0, Nothing)
             m2 == [btModem EXCEPT !.scanning = FALSE]
  <1>1. btModem \in AnyModem /\ ModemOK(btModem)
    BY DEF BtInv, BtTyped
  <1>2. l \in AnyLine /\ l.is = "QBTSCAN"
    BY ModemKinds, LineOK
  <1>3. /\ m2 \in AnyModem /\ m2.paired = btModem.paired /\ m2.conn = btModem.conn
        /\ m2.profile = btModem.profile /\ m2.connecting = btModem.connecting
        /\ m2.asking = btModem.asking /\ m2.pairing = btModem.pairing
    BY <1>1 DEF AnyModem
  <1>4. Emits(l, m2)
    BY DEF ScanEnds
  <1> HIDE DEF l, m2
  <1>5. ModemOK(m2)
    BY <1>1, <1>3 DEF ModemOK
  <1>6. ASSUME NEW e \in Devices, DeviceOK(e, btLines, btTable, btModem, btCmd.cmd, Gone)
        PROVE  Moves(e, btLines, <<l>>, btModem, m2, Gone)
    <2>1. l \notin PairForget(e) /\ l \notin ConnForget(e)
      BY <1>2 DEF PairForget, ConnForget
    <2> QED
      BY <1>2, <1>3, <1>6, <2>1, MovesStill
  <1> QED
    BY <1>2, <1>3, <1>4, <1>5, <1>6, ModemKinds, Emitted

LEMMA PeerAsksToPairKeeps ==
    ASSUME BtInv, NEW d \in Devices, PeerAsksToPair(d) PROVE BtInv'
  <1> DEFINE l == BtLine("pair", d, 0, Nothing)
             m2 == [btModem EXCEPT !.pairing = @ \cup {d}]
  <1>1. btModem \in AnyModem /\ ModemOK(btModem) /\ btModem.paired[d] = 0
    BY DEF BtInv, BtTyped, PeerAsksToPair
  <1>2. l \in AnyLine /\ l.is = "pair"
    BY ModemKinds, LineOK
  <1>3. /\ m2 \in AnyModem /\ m2.paired = btModem.paired /\ m2.conn = btModem.conn
        /\ m2.profile = btModem.profile /\ m2.connecting = btModem.connecting
        /\ m2.asking = btModem.asking /\ m2.pairing = btModem.pairing \cup {d}
    BY <1>1 DEF AnyModem
  <1>4. Emits(l, m2)
    BY DEF PeerAsksToPair
  <1> HIDE DEF l, m2
  <1>5. ModemOK(m2)
    BY <1>1, <1>3 DEF ModemOK
  <1>6. ASSUME NEW e \in Devices, DeviceOK(e, btLines, btTable, btModem, btCmd.cmd, Gone)
        PROVE  Moves(e, btLines, <<l>>, btModem, m2, Gone)
    <2>1. l \notin PairForget(e) /\ l \notin ConnForget(e)
      BY <1>2 DEF PairForget, ConnForget
    <2> QED
      BY <1>2, <1>3, <1>6, <2>1, MovesStill
  <1> QED
    BY <1>2, <1>3, <1>4, <1>5, <1>6, ModemKinds, Emitted

LEMMA PairingFailsKeeps ==
    ASSUME BtInv, NEW d \in Devices, PairingFails(d) PROVE BtInv'
  <1> DEFINE l == BtLine("QBTPAIRCNF", d, 0, Nothing)
             m2 == [btModem EXCEPT !.pairing = @ \ {d}]
  <1>1. btModem \in AnyModem /\ ModemOK(btModem) /\ d \in btModem.pairing
    BY DEF BtInv, BtTyped, PairingFails
  <1>2. l \in AnyLine /\ l.is = "QBTPAIRCNF" /\ l.id = 0 /\ l.dev = d
    BY ModemKinds, LineOK
  <1>3. /\ m2 \in AnyModem /\ m2.paired = btModem.paired /\ m2.conn = btModem.conn
        /\ m2.profile = btModem.profile /\ m2.connecting = btModem.connecting
        /\ m2.asking = btModem.asking /\ m2.pairing = btModem.pairing \ {d}
    BY <1>1 DEF AnyModem
  <1>4. Emits(l, m2)
    BY DEF PairingFails
  <1> HIDE DEF l, m2
  <1>5. ModemOK(m2) /\ btModem.paired[d] = 0
    BY <1>1, <1>3 DEF ModemOK
  <1>6. ASSUME NEW e \in Devices, DeviceOK(e, btLines, btTable, btModem, btCmd.cmd, Gone)
        PROVE  Moves(e, btLines, <<l>>, btModem, m2, Gone)
    <2>3. l \notin ConnForget(e)
      BY <1>2 DEF ConnForget
    <2>1. CASE e = d
      BY <2>3, <1>2, <1>3, <1>5, <1>6, <2>1, MovesStill
    <2>2. CASE e # d
      <3>1. l \notin PairForget(e)
        BY <1>2, <2>2 DEF PairForget
      <3> QED
        BY <1>2, <1>3, <1>6, <2>3, <3>1, MovesStill
    <2> QED
      BY <2>1, <2>2
  <1> QED
    BY <1>2, <1>3, <1>4, <1>5, <1>6, ModemKinds, Emitted

LEMMA PeerAsksToConnectKeeps ==
    ASSUME BtInv, NEW d \in Devices, NEW name \in Names, PeerAsksToConnect(d, name)
    PROVE  BtInv'
  <1> DEFINE l == BtLine("conn", d, 0, Nothing)
             m2 == [btModem EXCEPT !.asking = @ \cup {d}, !.profile[d] = name]
  <1>1. /\ btModem \in AnyModem /\ ModemOK(btModem)
        /\ btModem.paired[d] # 0 /\ btModem.conn[d] = 0
    BY DEF BtInv, BtTyped, PeerAsksToConnect
  <1>2. l \in AnyLine /\ l.is = "conn"
    BY ModemKinds, LineOK
  <1>3. /\ m2 \in AnyModem /\ m2.paired = btModem.paired /\ m2.conn = btModem.conn
        /\ m2.connecting = btModem.connecting
        /\ m2.asking = btModem.asking \cup {d} /\ m2.pairing = btModem.pairing
        /\ \A e \in Devices : e # d => m2.profile[e] = btModem.profile[e]
    <2>1. name \in ModemProfiles
      BY NamesAre DEF ModemProfiles, Profiles
    <2> QED
      BY <1>1, <2>1 DEF AnyModem
  <1>4. Emits(l, m2)
    BY DEF PeerAsksToConnect
  <1> HIDE DEF l, m2
  <1>5. ModemOK(m2)
    BY <1>1, <1>3 DEF ModemOK
  <1>6. ASSUME NEW e \in Devices, DeviceOK(e, btLines, btTable, btModem, btCmd.cmd, Gone)
        PROVE  Moves(e, btLines, <<l>>, btModem, m2, Gone)
    <2>1. l \notin PairForget(e) /\ l \notin ConnForget(e)
      BY <1>2 DEF PairForget, ConnForget
    <2>2. CASE e = d
      <3>1. d \notin Gone
        BY <1>1, <1>6, <2>2, GoneIs
      <3> QED
        BY <1>1, <1>2, <1>3, <2>1, <2>2, <3>1, MovesOne
    <2>3. CASE e # d
      BY <1>2, <1>3, <1>6, <2>1, <2>3, MovesStill
    <2> QED
      BY <2>2, <2>3
  <1> QED
    BY <1>2, <1>3, <1>4, <1>5, <1>6, ModemKinds, Emitted

LEMMA ConnectionSucceedsKeeps ==
    ASSUME BtInv, NEW d \in Devices, ConnectionSucceeds(d) PROVE BtInv'
  <1> DEFINE l == BtLine("QBTCONN", d, 1, Nothing)
             c == FreeId(btModem.conn)
             p == IF btModem.paired[d] = 0 THEN FreeId(btModem.paired) ELSE btModem.paired[d]
             m2 == [btModem EXCEPT !.conn[d] = c, !.paired[d] = p, !.pairing = @ \ {d},
                                   !.connecting = @ \ {d}, !.asking = @ \ {d}]
  <1>1. /\ btModem \in AnyModem /\ ModemOK(btModem)
        /\ d \in btModem.connecting /\ btModem.conn[d] = 0
    BY DEF BtInv, BtTyped, ConnectionSucceeds
  <1>2. l \in AnyLine /\ l.is = "QBTCONN" /\ l.id = 1
    BY ModemKinds, LineOK
  <1>3. /\ c \in Nat \ {0} /\ p \in Nat \ {0}
        /\ \A e \in Devices : e # d => btModem.paired[e] # p
    <2>1. /\ c \in Nat \ {0}
          /\ btModem.paired[d] = 0 => /\ FreeId(btModem.paired) \in Nat \ {0}
                                      /\ \A e \in Devices : btModem.paired[e] # FreeId(btModem.paired)
      BY <1>1, ModemTyped, FreeIdIsNew
    <2>2. btModem.paired[d] \in Nat
      BY <1>1, ModemTyped
    <2>3. btModem.paired[d] # 0 =>
             \A e \in Devices : e # d => btModem.paired[e] # btModem.paired[d]
      BY <1>1 DEF ModemOK
    <2> QED
      BY <2>1, <2>2, <2>3
  <1> HIDE DEF c, p
  <1>4. /\ m2 \in AnyModem
        /\ m2.paired = [btModem.paired EXCEPT ![d] = p] /\ m2.conn = [btModem.conn EXCEPT ![d] = c]
        /\ m2.profile = btModem.profile /\ m2.connecting = btModem.connecting \ {d}
        /\ m2.asking = btModem.asking \ {d} /\ m2.pairing = btModem.pairing \ {d}
    BY <1>1, <1>3 DEF AnyModem
  <1>5. Emits(l, m2)
    BY DEF ConnectionSucceeds, Connects, c, p
  <1> HIDE DEF l, m2
  <1>6. /\ m2.paired[d] = p /\ m2.conn[d] = c
        /\ \A e \in Devices : e # d => /\ m2.paired[e] = btModem.paired[e]
                                       /\ m2.conn[e] = btModem.conn[e]
    BY <1>1, <1>4, ModemTyped
  <1>7. ModemOK(m2)
    <2>1. ASSUME NEW e \in Devices, NEW f \in Devices,
                 m2.paired[e] = m2.paired[f], m2.paired[e] # 0
          PROVE  e = f
      <3>1. CASE e = d \/ f = d
        BY <1>3, <1>6, <2>1, <3>1
      <3>2. CASE e # d /\ f # d
        BY <1>1, <1>6, <2>1, <3>2 DEF ModemOK
      <3> QED
        BY <3>1, <3>2
    <2>2. /\ \A e \in m2.pairing : m2.paired[e] = 0
          /\ \A e \in m2.asking : m2.conn[e] = 0 /\ m2.paired[e] # 0
      BY <1>1, <1>4, <1>6, ModemTyped DEF ModemOK
    <2> QED
      BY <2>1, <2>2 DEF ModemOK
  <1>8. ASSUME NEW e \in Devices, DeviceOK(e, btLines, btTable, btModem, btCmd.cmd, Gone)
        PROVE  Moves(e, btLines, <<l>>, btModem, m2, Gone)
    <2>1. l \notin PairForget(e)
      BY <1>2 DEF PairForget
    <2>2. CASE e = d
      <3>1. d \notin Gone
        BY <1>1, <1>8, <2>2, GoneIs
      <3>2. \/ m2.paired[d] = btModem.paired[d]
            \/ btModem.paired[d] = 0
        BY <1>6 DEF p
      <3>3. m2.conn[d] # 0
        BY <1>3, <1>6
      <3>4. /\ l.is \notin {"paired", "connected"} /\ l.id # 0
            /\ l.is \in {"QBTPAIRCNF", "QBTCONN", "QBTACPT"}
        BY <1>2
      <3> QED
        BY <1>1, <1>2, <2>1, <2>2, <3>1, <3>2, <3>3, <3>4, MovesOne
    <2>3. CASE e # d
      <3>1. l \notin ConnForget(e)
        BY <1>2 DEF ConnForget
      <3>2. e \in Gone => /\ m2.paired[e] = 0 /\ m2.conn[e] = 0 /\ Free(btLines, ConnRow(e))
                          /\ e \notin m2.connecting \cup m2.asking
        BY <1>4, <1>6, <1>8, <2>3, GoneIs
      <3>3. m2.paired[e] = btModem.paired[e] /\ m2.conn[e] = btModem.conn[e]
            /\ m2.profile[e] = btModem.profile[e]
        BY <1>4, <1>6, <2>3
      <3> QED
        BY <1>2, <2>1, <3>1, <3>2, <3>3, MovesOne
    <2> QED
      BY <2>2, <2>3
  <1> QED
    BY <1>2, <1>4, <1>5, <1>7, <1>8, ModemKinds, Emitted

LEMMA ConnectionFailsKeeps ==
    ASSUME BtInv, NEW d \in Devices, ConnectionFails(d) PROVE BtInv'
  <1> DEFINE l == BtLine("QBTCONN", Nobody, 0, Nothing)
             m2 == [btModem EXCEPT !.connecting = @ \ {d}]
  <1>1. btModem \in AnyModem /\ ModemOK(btModem)
    BY DEF BtInv, BtTyped
  <1>2. l \in AnyLine /\ l.is = "QBTCONN" /\ l.dev = Nobody
    BY ModemKinds, LineOK
  <1>3. /\ m2 \in AnyModem /\ m2.paired = btModem.paired /\ m2.conn = btModem.conn
        /\ m2.profile = btModem.profile /\ m2.connecting = btModem.connecting \ {d}
        /\ m2.asking = btModem.asking /\ m2.pairing = btModem.pairing
    BY <1>1 DEF AnyModem
  <1>4. Emits(l, m2)
    BY DEF ConnectionFails
  <1> HIDE DEF l, m2
  <1>5. ModemOK(m2)
    BY <1>1, <1>3 DEF ModemOK
  <1>6. ASSUME NEW e \in Devices, DeviceOK(e, btLines, btTable, btModem, btCmd.cmd, Gone)
        PROVE  Moves(e, btLines, <<l>>, btModem, m2, Gone)
    <2>1. l \notin PairForget(e) /\ e # Nobody
      BY <1>2, BtAssumption DEF PairForget
    <2>2. l \notin ConnForget(e)
      BY <1>2, <2>1 DEF ConnForget
    <2> QED
      BY <1>2, <1>3, <1>6, <2>1, <2>2, MovesStill
  <1> QED
    BY <1>2, <1>3, <1>4, <1>5, <1>6, ModemKinds, Emitted

LEMMA PeerDisconnectsKeeps ==
    ASSUME BtInv, NEW d \in Devices, PeerDisconnects(d) PROVE BtInv'
  <1> DEFINE l == BtLine("disc", d, btModem.conn[d], Nothing)
             m2 == [btModem EXCEPT !.conn[d] = 0]
  <1>1. btModem \in AnyModem /\ ModemOK(btModem) /\ btModem.conn[d] # 0
    BY DEF BtInv, BtTyped, PeerDisconnects
  <1>2. l \in AnyLine /\ l.is = "disc" /\ l.dev = d
    BY <1>1, ModemTyped, ModemKinds, LineOK
  <1>3. /\ m2 \in AnyModem /\ m2.paired = btModem.paired
        /\ m2.conn = [btModem.conn EXCEPT ![d] = 0]
        /\ m2.profile = btModem.profile /\ m2.connecting = btModem.connecting
        /\ m2.asking = btModem.asking /\ m2.pairing = btModem.pairing
    BY <1>1 DEF AnyModem
  <1>4. Emits(l, m2)
    BY DEF PeerDisconnects
  <1> HIDE DEF l, m2
  <1>5. /\ m2.conn[d] = 0
        /\ \A e \in Devices : e # d => m2.conn[e] = btModem.conn[e]
    BY <1>1, <1>3, ModemTyped
  <1>6. ModemOK(m2)
    BY <1>1, <1>3, <1>5, ModemTyped DEF ModemOK
  <1>7. ASSUME NEW e \in Devices, DeviceOK(e, btLines, btTable, btModem, btCmd.cmd, Gone)
        PROVE  Moves(e, btLines, <<l>>, btModem, m2, Gone)
    <2>1. l \notin PairForget(e)
      BY <1>2 DEF PairForget
    <2>2. CASE e = d
      <3>1. d \notin Gone
        BY <1>1, <1>7, <2>2, GoneIs
      <3> QED
        BY <1>2, <1>3, <1>5, <2>1, <2>2, <3>1, MovesOne
    <2>3. CASE e # d
      <3>1. m2.conn[e] = btModem.conn[e]
        BY <1>5, <2>3
      <3>2. l \notin ConnForget(e)
        BY <1>2, <2>3 DEF ConnForget
      <3> QED
        BY <1>2, <1>3, <1>7, <2>1, <2>3, <3>1, <3>2, MovesStill
    <2> QED
      BY <2>2, <2>3
  <1> QED
    BY <1>2, <1>3, <1>4, <1>6, <1>7, ModemKinds, Emitted

LEMMA PeerSendsKeeps ==
    ASSUME BtInv, NEW d \in Devices, PeerSends(d) PROVE BtInv'
  <1> DEFINE l == BtLine("recv", d, btModem.conn[d], Nothing)
  <1>1. btModem \in AnyModem /\ ModemOK(btModem)
    BY DEF BtInv, BtTyped
  <1>2. l \in AnyLine /\ l.is = "recv"
    BY <1>1, ModemTyped, ModemKinds, LineOK
  <1>3. Emits(l, btModem)
    BY DEF PeerSends
  <1> HIDE DEF l
  <1>4. ASSUME NEW e \in Devices, DeviceOK(e, btLines, btTable, btModem, btCmd.cmd, Gone)
        PROVE  Moves(e, btLines, <<l>>, btModem, btModem, Gone)
    <2>1. l \notin PairForget(e) /\ l \notin ConnForget(e)
      BY <1>2 DEF PairForget, ConnForget
    <2> QED
      BY <1>2, <1>4, <2>1, MovesStill
  <1> QED
    BY <1>1, <1>2, <1>3, <1>4, ModemKinds, Emitted

LEMMA ModemKeeps ==
    ASSUME BtInv, Modem PROVE BtInv'
  <1> USE DEF Modem
  <1>1. CASE ScanEnds
    BY <1>1, ScanEndsKeeps
  <1>2. CASE \E d \in Devices : ModemFinds(d)
    BY <1>2, ModemFindsKeeps
  <1>3. CASE \E d \in Devices : PeerAsksToPair(d)
    BY <1>3, PeerAsksToPairKeeps
  <1>4. CASE \E d \in Devices : PairingFails(d)
    BY <1>4, PairingFailsKeeps
  <1>5. CASE \E d \in Devices, name \in Names : PeerAsksToConnect(d, name)
    BY <1>5, PeerAsksToConnectKeeps
  <1>6. CASE \E d \in Devices : ConnectionSucceeds(d)
    BY <1>6, ConnectionSucceedsKeeps
  <1>7. CASE \E d \in Devices : ConnectionFails(d)
    BY <1>7, ConnectionFailsKeeps
  <1>8. CASE \E d \in Devices : PeerDisconnects(d)
    BY <1>8, PeerDisconnectsKeeps
  <1>9. CASE \E d \in Devices : PeerSends(d)
    BY <1>9, PeerSendsKeeps
  <1> QED
    BY <1>1, <1>2, <1>3, <1>4, <1>5, <1>6, <1>7, <1>8, <1>9

-----------------------------------------------------------------------------
(* Calls of the application.                                               *)

\* The invariant does not speak of the faults and the bounds, and of the last
\* result only as that of a read.
LEMMA StillKeeps ==
    ASSUME BtInv, btFault' \in BOOLEAN, BtReadOK',
           UNCHANGED <<btTable, btCallback, btApp, btRc, btCmd, btLines, btModem, btFirst,
                       btReadMode, btMissed>>
    PROVE  BtInv'
  <1>1. Gone' = Gone
    BY DEF Gone
  <1>2. BtTyped'
    BY DEF BtInv, BtTyped
  <1>3. BtTableOK => BtTableOK'
    BY <1>1 DEF BtTableOK
  <1>4. BtCommandOK' /\ (btApp = NoApp <=> btRc = "none")' /\ ModemOK(btModem)'
        /\ AnswerOK(btLines, btCmd.cmd)'
    BY DEF BtInv, BtCommandOK
  <1> QED
    BY <1>2, <1>3, <1>4 DEF BtInv

LEMMA RefusedKeeps ==
    ASSUME BtInv, NEW rc, Refuses(rc), btFault' \in BOOLEAN,
           UNCHANGED <<btTable, btCallback, btFirst, btReadMode, btMissed>>
    PROVE  BtInv'
  <1>1. UNCHANGED <<btApp, btRc, btCmd, btLines, btModem, btGot>> /\ btResult'.op = "none"
    BY DEF Refuses, NoResult
  <1>2. BtReadOK'
    BY <1>1 DEF BtInv, BtReadOK
  <1> QED
    BY <1>1, <1>2, StillKeeps

\* An answer behind lines that are none.
LEMMA ReadFollows ==
    ASSUME NEW ls \in Seq(AnyLine), NEW t \in Seq(AnyLine), NEW had, NEW got,
           HasNo(ls, Answers), ReadOK(t, had, got)
    PROVE  ReadOK(ls \o t, had, got)
  <1> DEFINE st == ls \o t
  <1>1. /\ Len(ls) \in Nat
        /\ \A i \in DOMAIN st : i \in Nat
        /\ \A i \in DOMAIN st : st[i].is \in Answers =>
              i - Len(ls) \in DOMAIN t /\ st[i] = t[i - Len(ls)]
        /\ \A i \in DOMAIN t : /\ i \in Nat /\ i + Len(ls) \in DOMAIN st
                               /\ st[i + Len(ls)] = t[i]
    BY CatLines DEF HasNo
  <1>2. {"read", "data", "OK"} \subseteq Answers
    BY DEF Answers
  <1> HIDE DEF st
  <1>3. \A i, j \in DOMAIN st : i < j => i - Len(ls) < j - Len(ls)
    BY <1>1
  <1>4. /\ \A i, j \in DOMAIN st : i < j /\ st[i].is = "data" => st[j].is \notin {"read", "data"}
        /\ \A i \in DOMAIN st : st[i].is = "read" => st[i].id = had
        /\ had = 0 => ReadTrue(0, got) /\ \A i \in DOMAIN st : st[i].is # "data"
    BY <1>1, <1>2, <1>3 DEF ReadOK
  <1>5. ASSUME had # 0, NEW i \in DOMAIN st, st[i].is = "OK"
        PROVE  \/ got = <<had>> /\ \A j \in DOMAIN st : st[j].is \notin {"read", "data"}
               \/ \E j \in DOMAIN st : j < i /\ st[j].is = "data"
    <2>1. i - Len(ls) \in DOMAIN t /\ t[i - Len(ls)].is = "OK"
      BY <1>1, <1>2, <1>5
    <2>2. CASE got = <<had>> /\ \A j \in DOMAIN t : t[j].is \notin {"read", "data"}
      BY <1>1, <1>2, <2>2
    <2>3. CASE \E j \in DOMAIN t : j < i - Len(ls) /\ t[j].is = "data"
      <3>1. PICK j \in DOMAIN t : j < i - Len(ls) /\ t[j].is = "data"
        BY <2>3
      <3>2. j + Len(ls) \in DOMAIN st /\ st[j + Len(ls)] = t[j]
        BY <1>1
      <3>3. j + Len(ls) < i
        BY <1>1, <3>1
      <3> QED
        BY <3>1, <3>2, <3>3
    <2> QED
      BY <1>5, <2>1, <2>2, <2>3 DEF ReadOK
  <1> QED
    BY <1>4, <1>5 DEF ReadOK, st

\* The device that an answer reports to be unpaired.
Leaves(op, dev, t) == {e \in Devices : op = "Unpair" /\ dev = e /\ ~HasNo(t, {"OK"})}

LEMMA Carried ==
    ASSUME BtInv, btCmd = NoCmd, Gone = {},
           NEW op \in Ops \ Queried, NEW dev \in Devices \cup {Nobody}, NEW had \in Nat,
           NEW t \in Seq(AnyLine), AnswerOK(t, CommandOf(op)),
           op = "SPP_Read" => ReadOK(t, had, btGot'),
           NEW m2 \in AnyModem, ModemOK(m2),
           btApp' = [op |-> op, dev |-> dev, had |-> had], btRc' = "waiting",
           btCmd' = [cmd |-> CommandOf(op), by |-> "app"],
           btLines' = btLines \o t, btModem' = m2, btFault' \in BOOLEAN,
           UNCHANGED <<btTable, btCallback, btFirst, btReadMode, btMissed, btResult>>,
           ~btMissed => \A d \in Devices :
              DeviceOK(d, btLines, btTable, btModem, "none", {})
                 => Moves(d, btLines, t, btModem, m2, Leaves(op, dev, t))
    PROVE  BtInv'
  <1>1. btLines \in Seq(AnyLine) /\ btCmd.cmd = "none" /\ AnswerOK(btLines, "none")
    BY DEF BtInv, BtTyped, NoCmd
  <1>2. HasNo(btLines, Answers) /\ AnswerOK(btLines, CommandOf(op))
    BY <1>1, NoAnswers
  <1>3. Finals \subseteq Answers /\ "OK" \in Answers /\ "state" \in Answers
    BY DEF Finals, Answers
  <1>4. HasNo(btLines, Finals) /\ HasNo(btLines, {"OK"})
    BY <1>2, <1>3 DEF HasNo
  <1>5. CommandOf(op) # "QBTSTATE" /\ (op # "SPP_Read" => CommandOf(op) # "QSPPREAD")
    BY DEF CommandOf, Queried
  <1>6. btApp' # NoApp /\ btApp' \in [op : Ops, dev : Devices \cup {Nobody}, had : Nat]
        /\ btApp'.op = op /\ btApp'.dev = dev /\ btApp'.had = had
    <2>1. "had" \in DOMAIN btApp' /\ "had" \notin DOMAIN NoApp
      BY DEF NoApp
    <2> QED
      BY <2>1
  <1>7. BtTyped'
    <2>1. btLines' \in Seq(AnyLine)
      BY <1>1, CatLines
    <2> QED
      BY <1>6, <2>1 DEF BtInv, BtTyped
  <1>8. BtCommandOK' /\ (btApp = NoApp <=> btRc = "none")'
    BY <1>6 DEF BtCommandOK
  <1>9. AnswerOK(btLines, btCmd.cmd)'
    BY <1>1, <1>2, <1>4, AnswersCat
  <1>10. BtReadOK'
    <2>1. op = "SPP_Read" => ReadOK(btLines', had, btGot')
      BY <1>1, <1>2, ReadFollows
    <2> QED
      BY <1>5, <1>6, <2>1 DEF BtInv, BtReadOK
  <1>11. Gone' = Leaves(op, dev, t)
    <2>1. (\E i \in DOMAIN btLines' : btLines'[i].is = "OK") <=> ~HasNo(t, {"OK"})
      <3>1. Parts(btLines', btLines, t)
        BY <1>1, CatHas
      <3>2. ASSUME NEW j \in DOMAIN t, t[j].is = "OK"
            PROVE  \E i \in DOMAIN btLines' : btLines'[i].is = "OK"
        <4>1. PICK i \in DOMAIN btLines' : btLines'[i] = t[j]
          BY <3>1 DEF Parts
        <4> QED
          BY <3>2, <4>1
      <3>3. ASSUME NEW i \in DOMAIN btLines', btLines'[i].is = "OK"
            PROVE  \E j \in DOMAIN t : t[j].is = "OK"
        <4>1. \/ \E j \in DOMAIN btLines : btLines'[i] = btLines[j]
              \/ \E j \in DOMAIN t : btLines'[i] = t[j]
          BY <3>1 DEF Parts
        <4> QED
          BY <1>4, <3>3, <4>1 DEF HasNo
      <3> QED
        BY <3>2, <3>3 DEF HasNo
    <2>2. Gone' = {d \in Devices : op = "Unpair" /\ dev = d
                                   /\ \E i \in DOMAIN btLines' : btLines'[i].is = "OK"}
      BY <1>6 DEF Gone
    <2> QED
      BY <2>1, <2>2 DEF Leaves
  <1>12. ASSUME ~btMissed' PROVE BtTableOK'
    <2>1. BtTableOK
      BY <1>12 DEF BtInv
    <2>2. PromptOK(btLines, btCmd.cmd, btFirst)'
      BY <1>1, <1>5, <2>1 DEF BtTableOK, PromptOK
    <2>3. ASSUME NEW d \in Devices
          PROVE  DeviceOK(d, btLines', btTable', btModem', btCmd'.cmd, Gone')
      <3>1. DeviceOK(d, btLines, btTable, btModem, "none", {})
        BY <1>1, <2>1 DEF BtTableOK
      <3>2. Moves(d, btLines, t, btModem, m2, Leaves(op, dev, t))
        BY <1>12, <3>1
      <3>3. DeviceOK(d, btLines \o t, btTable, m2, CommandOf(op), Leaves(op, dev, t))
        BY <1>1, <3>1, <3>2, DeviceGrows
      <3> QED
        BY <1>11, <3>3
    <2> QED
      BY <2>1, <2>2, <2>3 DEF BtTableOK
  <1> QED
    BY <1>7, <1>8, <1>9, <1>10, <1>12 DEF BtInv, ModemOK

LEMMA FinalOK ==
    /\ \A is \in Finals : /\ BtFinal(is) \in AnyLine /\ BtFinal(is).is = is
                          /\ BtFinal(is).id = 0 /\ BtFinal(is).dev = Nobody
    /\ \A cmd : cmd # "none" => Finals \subseteq AnswersOf(cmd)
    /\ \A is \in Finals : is \in Answers /\ is \notin {"paired", "connected", "state"}
    /\ OK = <<BtFinal("OK")>> /\ "OK" \in Finals /\ "ERROR" \in Finals
  <1>1. \A is \in Finals : /\ BtFinal(is) \in AnyLine /\ BtFinal(is).is = is
                           /\ BtFinal(is).id = 0 /\ BtFinal(is).dev = Nobody
    BY DEF Finals, BtFinal, BtLine, AnyLine, Kinds, Answers, Profiles
  <1>2. \A cmd : cmd # "none" => Finals \subseteq AnswersOf(cmd)
    BY DEF AnswersOf
  <1> QED
    BY <1>1, <1>2 DEF Finals, Answers, OK

\* A final line alone says nothing of the devices.
LEMMA MovesFinal ==
    ASSUME NEW d \in Devices, NEW is \in Finals, NEW m, NEW m2, NEW gone, NEW ls, d \notin gone,
           m2.paired[d] = m.paired[d], m2.conn[d] = m.conn[d], m2.profile[d] = m.profile[d]
    PROVE  Moves(d, ls, <<BtFinal(is)>>, m, m2, gone)
  <1> DEFINE l == BtFinal(is)
  <1>1. l \in AnyLine /\ l.is \in Finals
    BY FinalOK
  <1>2. l \notin PairForget(d) /\ l \notin ConnForget(d) /\ l.is \notin {"paired", "connected"}
    BY <1>1 DEF PairForget, ConnForget, Finals
  <1> HIDE DEF l
  <1>3. Moves(d, ls, <<l>>, m, m2, gone)
    BY <1>1, <1>2, MovesOne
  <1> QED
    BY <1>3 DEF l

LEMMA ReadFails ==
    \A had : ReadOK(<<BtFinal("ERROR")>>, had, Nothing)
  <1> DEFINE l == BtFinal("ERROR")
             t == <<l>>
  <1>1. l \in AnyLine /\ l.is = "ERROR"
    BY FinalOK
  <1>2. DOMAIN t = {1} /\ t[1].is = "ERROR"
    BY <1>1, OneLine
  <1>3. ReadTrue(0, Nothing)
    BY DEF ReadTrue
  <1> HIDE DEF t
  <1>4. \A had : ReadOK(t, had, Nothing)
    BY <1>2, <1>3 DEF ReadOK
  <1> QED
    BY <1>4 DEF t

LEMMA SentKeeps ==
    ASSUME BtInv, btApp = NoApp, btFault' \in BOOLEAN,
           NEW op \in Ops \ Queried, NEW dev \in Devices \cup {Nobody}, NEW had \in Nat,
           NEW answer \in Seq(AnyLine), AnswerOK(answer, CommandOf(op)),
           op = "SPP_Read" => ReadOK(answer, had, Nothing),
           NEW modem \in AnyModem, ModemOK(modem),
           Sends(op, dev, had, CommandOf(op), answer, modem),
           ~btMissed => \A d \in Devices :
              DeviceOK(d, btLines, btTable, btModem, "none", {})
                 => Moves(d, btLines, answer, btModem, modem, Leaves(op, dev, answer))
    PROVE  BtInv'
  <1>1. UNCHANGED <<btTable, btCallback, btFirst, btReadMode, btMissed>>
    BY DEF Sends
  <1>2. CASE btCmd # NoCmd
    <2>1. Refuses("busy")
      BY <1>2 DEF Sends
    <2> QED
      BY <1>1, <2>1, RefusedKeeps
  <1>3. CASE btCmd = NoCmd
    <2>1. /\ btApp' = [op |-> op, dev |-> dev, had |-> had] /\ btRc' = "waiting"
          /\ btGot' = Nothing /\ UNCHANGED btResult
          /\ btCmd' = [cmd |-> CommandOf(op), by |-> "app"]
          /\ \/ btLines' = btLines \o answer /\ btModem' = modem
             \/ btLines' = Append(btLines, BtFinal("ERROR")) /\ UNCHANGED btModem
      BY <1>3 DEF Sends, Carries
    <2>2. Gone = {}
      BY DEF Gone
    <2>3. CASE btLines' = btLines \o answer /\ btModem' = modem
      BY <1>1, <1>3, <2>1, <2>2, <2>3, Carried
    <2>4. CASE btLines' = Append(btLines, BtFinal("ERROR")) /\ UNCHANGED btModem
      <3> DEFINE l == BtFinal("ERROR")
                 t == <<l>>
      <3>1. btLines \in Seq(AnyLine) /\ btModem \in AnyModem /\ ModemOK(btModem)
        BY DEF BtInv, BtTyped
      <3>2. l \in AnyLine /\ l.is = "ERROR"
        BY FinalOK
      <3>3. t \in Seq(AnyLine) /\ HasNo(t, {"OK"})
        BY <3>2, OneLine
      <3>4. AnswerOK(t, CommandOf(op))
        <4>1. CommandOf(op) # "none"
          BY DEF CommandOf
        <4> QED
          BY <3>2, <4>1, FinalOK, OneLine
      <3>5. btLines' = btLines \o t
        BY <2>4, <3>1, <3>2
      <3>6. ReadOK(t, had, btGot')
        BY <2>1, ReadFails
      <3>7. Leaves(op, dev, t) = {}
        BY <3>3 DEF Leaves
      <3>8. \A d \in Devices : Moves(d, btLines, t, btModem, btModem, {})
        BY FinalOK, MovesFinal
      <3> HIDE DEF t
      <3> QED
        BY <1>1, <1>3, <2>1, <2>2, <2>4, <3>1, <3>3, <3>4, <3>5, <3>6, <3>7, <3>8, Carried
    <2> QED
      BY <2>1, <2>3, <2>4
  <1> QED
    BY <1>2, <1>3

LEMMA OpsAre ==
    /\ {"Set", "Get", "StopScan", "Scan", "PairReq", "Unpair", "GetSupportedProfile", "ConnReq",
        "Disconnect", "SPP_Send", "SPP_Read", "PairConfirm", "ConnAccept", "DirectConn"}
          \subseteq Ops \ Queried
    /\ \A op \in {"Set", "StopScan", "Scan", "PairReq", "Unpair", "ConnReq", "Disconnect",
                  "PairConfirm", "ConnAccept"} : CommandOf(op) = "plain"
    /\ CommandOf("Get") = "QBTGET" /\ CommandOf("GetSupportedProfile") = "QBTGPROF"
    /\ CommandOf("SPP_Send") = "QBTSPPSEND" /\ CommandOf("SPP_Read") = "QSPPREAD"
    /\ CommandOf("DirectConn") = "QBTCONND"
    /\ \A op \in Queried : CommandOf(op) = "QBTSTATE"
  BY DEF Ops, Queried, CommandOf

\* OK alone.
LEMMA OKIs ==
    /\ OK \in Seq(AnyLine) /\ \A cmd : cmd # "none" => AnswerOK(OK, cmd)
    /\ ~HasNo(OK, {"OK"}) /\ HasNo(OK, {"state"})
    /\ \A ls, m, gone : \A d \in Devices : d \notin gone => Moves(d, ls, OK, m, m, gone)
  <1>1. BtFinal("OK") \in AnyLine /\ BtFinal("OK").is = "OK" /\ OK = <<BtFinal("OK")>>
    BY FinalOK
  <1>2. \A cmd : cmd # "none" => AnswerOK(OK, cmd)
    BY <1>1, FinalOK, OneLine
  <1>3. \A ls, m, gone : \A d \in Devices : d \notin gone => Moves(d, ls, OK, m, m, gone)
    BY <1>1, FinalOK, MovesFinal
  <1> QED
    BY <1>1, <1>2, <1>3, OneLine

LEMMA SetsKeeps ==
    ASSUME BtInv, Sets PROVE BtInv'
  <1>1. btApp = NoApp /\ btFault' \in BOOLEAN
    BY DEF Sets, NewCall
  <1>2. btModem \in AnyModem /\ ModemOK(btModem)
    BY DEF BtInv, BtTyped
  <1>3. CASE Sends("Set", Nobody, 0, "plain", OK, btModem)
    <2>1. Leaves("Set", Nobody, OK) = {}
      BY DEF Leaves
    <2> QED
      BY <1>1, <1>2, <1>3, <2>1, OpsAre, OKIs, SentKeeps
  <1>4. CASE Refuses("invalid") /\ UNCHANGED <<btTable, btCallback, btFirst, btReadMode, btMissed>>
    BY <1>1, <1>4, RefusedKeeps
  <1> QED
    BY <1>3, <1>4 DEF Sets

\* Answers that say nothing of the devices, alone or before a code.
Silent(t) == \A i \in DOMAIN t : t[i].is \in Answers /\ t[i].is \notin {"paired", "connected"}

LEMMA SilentFree ==
    ASSUME NEW d, NEW t, Silent(t)
    PROVE  /\ Free(t, PairRow(d)) /\ Free(t, ConnRow(d))
           /\ Free(t, PairForget(d)) /\ Free(t, ConnForget(d))
  BY DEF Silent, Free, PairRow, ConnRow, PairForget, ConnForget, Answers

LEMMA MovesSilent ==
    ASSUME NEW d \in Devices, NEW t, Silent(t), NEW m, NEW m2, NEW gone, NEW ls, d \notin gone,
           m2.paired[d] = m.paired[d], m2.conn[d] = m.conn[d], m2.profile[d] = m.profile[d]
    PROVE  Moves(d, ls, t, m, m2, gone)
  BY SilentFree DEF Moves

LEMMA MovesBehind ==
    ASSUME NEW d \in Devices, NEW s \in Seq(AnyLine), Silent(s), NEW t \in Seq(AnyLine),
           NEW m, NEW m2, NEW gone, NEW ls, Moves(d, ls, t, m, m2, gone)
    PROVE  Moves(d, ls, s \o t, m, m2, gone)
  <1> DEFINE st == s \o t
  <1>1. /\ Free(s, PairRow(d)) /\ Free(s, ConnRow(d))
        /\ Free(s, PairForget(d)) /\ Free(s, ConnForget(d))
    BY SilentFree
  <1>2. \A G : Free(st, G) <=> Free(s, G) /\ Free(t, G)
    BY FreeCat
  <1>3. \A F, G : Settled(t, F, G) => Settled(st, F, G)
    BY SettledCat
  <1>4. Parts(st, s, t)
    BY CatHas
  <1>5. (\E i \in DOMAIN t : t[i] \in ConnForget(d)) => \E i \in DOMAIN st : st[i] \in ConnForget(d)
    <2> HIDE DEF st
    <2>1. ASSUME NEW j \in DOMAIN t, t[j] \in ConnForget(d)
          PROVE  \E i \in DOMAIN st : st[i] \in ConnForget(d)
      <3>1. PICK i \in DOMAIN st : st[i] = t[j]
        BY <1>4 DEF Parts
      <3> QED
        BY <2>1, <3>1
    <2> QED
      BY <2>1
  <1> HIDE DEF st
  <1>6. /\ Free(st, PairRow(d)) /\ Free(st, ConnRow(d))
        /\ Free(t, PairForget(d)) => Free(st, PairForget(d))
        /\ Free(t, ConnForget(d)) => Free(st, ConnForget(d))
    BY <1>1, <1>2 DEF Moves
  <1> QED
    BY <1>3, <1>5, <1>6 DEF Moves, st

LEMMA SilentCat ==
    ASSUME NEW s \in Seq(AnyLine), NEW t \in Seq(AnyLine), Silent(s), Silent(t)
    PROVE  Silent(s \o t)
  <1>1. Parts(s \o t, s, t)
    BY CatHas
  <1> QED
    BY <1>1 DEF Parts, Silent

LEMMA SilentOK == Silent(OK)
  <1>1. BtFinal("OK") \in AnyLine /\ BtFinal("OK").is = "OK" /\ OK = <<BtFinal("OK")>>
    BY FinalOK
  <1>2. DOMAIN OK = {1} /\ OK[1].is = "OK"
    BY <1>1, OneLine
  <1> QED
    BY <1>2, FinalOK DEF Silent, Answers

\* One line, then OK.
LEMMA ThenOK ==
    ASSUME NEW l \in AnyLine, NEW cmd, l.is \in AnswersOf(cmd),
           l.is \in {"value", "prompt", "profile", "read", "data"}
    PROVE  LET t == <<l>> \o OK
           IN  t \in Seq(AnyLine) /\ AnswerOK(t, cmd) /\ Silent(t)
  <1>1. cmd # "none"
    BY DEF AnswersOf
  <1>2. /\ <<l>> \in Seq(AnyLine) /\ AnswerOK(<<l>>, cmd) /\ HasNo(<<l>>, Finals)
        /\ DOMAIN <<l>> = {1} /\ <<l>>[1] = l
    BY OneLine DEF Finals
  <1>3. OK \in Seq(AnyLine) /\ AnswerOK(OK, cmd) /\ HasNo(OK, {"state"})
    BY <1>1, OKIs
  <1>4. Silent(<<l>>)
    <2> DEFINE t == <<l>>
    <2>1. DOMAIN t = {1} /\ t[1].is \in Answers /\ t[1].is \notin {"paired", "connected"}
      BY <1>2 DEF Answers
    <2> HIDE DEF t
    <2>2. Silent(t)
      BY <2>1 DEF Silent
    <2> QED
      BY <2>2 DEF t
  <1> QED
    BY <1>2, <1>3, <1>4, SilentOK, SilentCat, AnswersCat, CatLines

\* OK, then a code.
LEMMA OKThen ==
    ASSUME NEW l \in AnyLine, l.is \notin Answers
    PROVE  LET t == Append(OK, l)
           IN  /\ t = OK \o <<l>> /\ t \in Seq(AnyLine) /\ AnswerOK(t, "plain")
  <1>1. <<l>> \in Seq(AnyLine) /\ AnswerOK(<<l>>, "plain") /\ HasNo(<<l>>, Answers)
    BY OneLine
  <1>2. OK \in Seq(AnyLine) /\ AnswerOK(OK, "plain")
    BY OKIs
  <1>3. Append(OK, l) = OK \o <<l>>
    BY <1>2
  <1>4. HasNo(<<l>>, {"state"})
    BY <1>1 DEF HasNo, Answers
  <1>5. AnswerOK(OK \o <<l>>, "plain") /\ OK \o <<l>> \in Seq(AnyLine)
    BY <1>1, <1>2, <1>4, AnswersCat, CatLines
  <1> QED
    BY <1>3, <1>5

LEMMA GetsKeeps ==
    ASSUME BtInv, Gets PROVE BtInv'
  <1> DEFINE l == BtLine("value", Nobody, 1, Nothing)
             t == <<l>> \o OK
  <1>1. /\ btApp = NoApp /\ btFault' \in BOOLEAN
        /\ Sends("Get", Nobody, 1, "QBTGET", t, btModem)
    BY DEF Gets, NewCall
  <1>2. btModem \in AnyModem /\ ModemOK(btModem)
    BY DEF BtInv, BtTyped
  <1>3. l \in AnyLine /\ l.is = "value"
    BY LineOK DEF Kinds, Answers
  <1> HIDE DEF l
  <1>4. t \in Seq(AnyLine) /\ AnswerOK(t, "QBTGET") /\ Silent(t)
    BY <1>3, ThenOK DEF AnswersOf
  <1> HIDE DEF t
  <1>5. Leaves("Get", Nobody, t) = {}
    BY DEF Leaves
  <1>6. \A d \in Devices : Moves(d, btLines, t, btModem, btModem, {})
    BY <1>4, MovesSilent
  <1> QED
    BY <1>1, <1>2, <1>4, <1>5, <1>6, OpsAre, SentKeeps

LEMMA StopScanKeeps ==
    ASSUME BtInv, RIL_BT_StopScan PROVE BtInv'
  <1> DEFINE m2 == [btModem EXCEPT !.scanning = FALSE]
  <1>1. /\ btApp = NoApp /\ btFault' \in BOOLEAN
        /\ Sends("StopScan", Nobody, 0, "plain", OK, m2)
    BY DEF RIL_BT_StopScan, NewCall
  <1>2. btModem \in AnyModem /\ ModemOK(btModem)
    BY DEF BtInv, BtTyped
  <1>3. /\ m2 \in AnyModem /\ m2.paired = btModem.paired /\ m2.conn = btModem.conn
        /\ m2.profile = btModem.profile /\ m2.asking = btModem.asking
        /\ m2.pairing = btModem.pairing
    BY <1>2 DEF AnyModem
  <1> HIDE DEF m2
  <1>4. ModemOK(m2)
    BY <1>2, <1>3 DEF ModemOK
  <1>5. Leaves("StopScan", Nobody, OK) = {}
    BY DEF Leaves
  <1>6. \A d \in Devices : Moves(d, btLines, OK, btModem, m2, {})
    BY <1>3, SilentOK, MovesSilent
  <1> QED
    BY <1>1, <1>3, <1>4, <1>5, <1>6, OpsAre, OKIs, SentKeeps

LEMMA DirectConnKeeps ==
    ASSUME BtInv, NEW dev \in Devices, RIL_BT_SPP_DirectConn(dev) PROVE BtInv'
  <1> DEFINE m2 == [btModem EXCEPT !.connecting = @ \cup {dev}]
  <1>1. /\ btApp = NoApp /\ btFault' \in BOOLEAN
        /\ Sends("DirectConn", dev, 0, "QBTCONND", OK, m2)
    BY DEF RIL_BT_SPP_DirectConn, NewCall
  <1>2. btModem \in AnyModem /\ ModemOK(btModem)
    BY DEF BtInv, BtTyped
  <1>3. /\ m2 \in AnyModem /\ m2.paired = btModem.paired /\ m2.conn = btModem.conn
        /\ m2.profile = btModem.profile /\ m2.asking = btModem.asking
        /\ m2.pairing = btModem.pairing
    BY <1>2 DEF AnyModem
  <1> HIDE DEF m2
  <1>4. ModemOK(m2)
    BY <1>2, <1>3 DEF ModemOK
  <1>5. Leaves("DirectConn", dev, OK) = {}
    BY DEF Leaves
  <1>6. \A d \in Devices : Moves(d, btLines, OK, btModem, m2, {})
    BY <1>3, SilentOK, MovesSilent
  <1> QED
    BY <1>1, <1>3, <1>4, <1>5, <1>6, OpsAre, OKIs, SentKeeps

LEMMA ScansKeeps ==
    ASSUME BtInv, Scans PROVE BtInv'
  <1>1. /\ btApp.op = "StartScan" /\ btRc # "waiting" /\ btFault' \in BOOLEAN
        /\ UNCHANGED <<btTable, btCallback, btFirst, btReadMode, btGot, btMissed>>
    BY DEF Scans, btHandlerVars
  <1>2. /\ btModem \in AnyModem /\ ModemOK(btModem) /\ btLines \in Seq(AnyLine)
        /\ btApp \in {NoApp} \cup [op : Ops, dev : Devices \cup {Nobody}, had : Nat]
    BY DEF BtInv, BtTyped
  <1>3. NoApp.op = "none" /\ Gone = {}
    BY <1>1 DEF NoApp, Gone
  <1>4. CASE btCmd # NoCmd
    <2>1. /\ btResult'.op = "none" /\ btApp' = NoApp /\ btRc' = "none"
          /\ UNCHANGED <<btCmd, btLines, btModem>>
      BY <1>4 DEF Scans, NoResult
    <2>2. Gone' = {}
      BY <2>1 DEF Gone
    <2>3. btCmd = [cmd |-> "QBTSTATE", by |-> "handler"]
      BY <1>1, <1>4 DEF BtInv, BtCommandOK
    <2>4. BtCommandOK' /\ BtReadOK'
      BY <2>1, <2>3 DEF BtCommandOK, BtReadOK, NoApp
    <2>5. BtTableOK => BtTableOK'
      BY <1>1, <1>3, <2>1, <2>2 DEF BtTableOK
    <2>6. BtTyped'
      BY <1>1, <2>1 DEF BtInv, BtTyped
    <2> QED
      BY <1>1, <2>1, <2>4, <2>5, <2>6 DEF BtInv
  <1>5. CASE btCmd = NoCmd
    <2> DEFINE m2 == [btModem EXCEPT !.found = <<>>, !.scanning = TRUE]
               e == BtFinal("ERROR")
    <2>1. /\ btCmd' = [cmd |-> "plain", by |-> "app"] /\ btRc' = "waiting" /\ UNCHANGED btResult
          /\ btApp' = [btApp EXCEPT !.op = "Scan"]
          /\ \/ btLines' = btLines \o OK /\ btModem' = m2
             \/ btLines' = Append(btLines, e) /\ UNCHANGED btModem
      BY <1>5 DEF Scans, Carries
    <2>2. PICK dev \in Devices \cup {Nobody}, had \in Nat :
             btApp' = [op |-> "Scan", dev |-> dev, had |-> had]
      BY <1>1, <1>2, <1>3, <2>1
    <2>3. /\ "Scan" \in Ops \ Queried /\ CommandOf("Scan") = "plain" /\ "Scan" # "SPP_Read"
          /\ btCmd' = [cmd |-> CommandOf("Scan"), by |-> "app"]
      BY <2>1, OpsAre
    <2>4. \A t : Leaves("Scan", dev, t) = {}
      BY DEF Leaves
    <2>5. CASE btLines' = btLines \o OK /\ btModem' = m2
      <3>1. <<>> \in Seq(Devices)
        OBVIOUS
      <3>2. /\ m2 \in AnyModem /\ m2.paired = btModem.paired /\ m2.conn = btModem.conn
            /\ m2.profile = btModem.profile /\ m2.asking = btModem.asking
            /\ m2.pairing = btModem.pairing
        BY <1>2, <3>1 DEF AnyModem
      <3> HIDE DEF m2
      <3>3. ModemOK(m2)
        BY <1>2, <3>2 DEF ModemOK
      <3>4. \A d \in Devices : Moves(d, btLines, OK, btModem, m2, Leaves("Scan", dev, OK))
        BY <2>4, <3>2, SilentOK, MovesSilent
      <3>5. OK \in Seq(AnyLine) /\ AnswerOK(OK, CommandOf("Scan"))
        BY <2>3, OKIs
      <3> QED
        BY <1>1, <1>3, <1>5, <2>1, <2>2, <2>3, <2>5, <3>2, <3>3, <3>4, <3>5, Carried
    <2>6. CASE btLines' = Append(btLines, e) /\ UNCHANGED btModem
      <3> DEFINE t == <<e>>
      <3>1. e \in AnyLine /\ e.is = "ERROR"
        BY FinalOK
      <3>2. t \in Seq(AnyLine) /\ AnswerOK(t, CommandOf("Scan"))
        BY <2>3, <3>1, FinalOK, OneLine
      <3>3. btLines' = btLines \o t
        BY <1>2, <2>6, <3>1
      <3>4. \A d \in Devices : Moves(d, btLines, t, btModem, btModem, Leaves("Scan", dev, t))
        BY <2>4, FinalOK, MovesFinal
      <3> HIDE DEF t
      <3> QED
        BY <1>1, <1>2, <1>3, <1>5, <2>1, <2>2, <2>3, <2>6, <3>2, <3>3, <3>4, Carried
    <2> QED
      BY <2>1, <2>5, <2>6
  <1> QED
    BY <1>4, <1>5

-----------------------------------------------------------------------------
(* Calls that name a device.                                               *)

\* A call whose answer says nothing of the devices, and which changes nothing
\* of what the table says.
LEMMA SilentSent ==
    ASSUME BtInv, btApp = NoApp, btFault' \in BOOLEAN,
           NEW op \in Ops \ Queried, op # "Unpair",
           NEW dev \in Devices \cup {Nobody}, NEW had \in Nat, NEW cmd, cmd = CommandOf(op),
           NEW answer \in Seq(AnyLine), AnswerOK(answer, cmd), Silent(answer),
           op = "SPP_Read" => ReadOK(answer, had, Nothing),
           NEW modem \in AnyModem, ModemOK(modem),
           modem.paired = btModem.paired, modem.conn = btModem.conn,
           modem.profile = btModem.profile,
           Sends(op, dev, had, cmd, answer, modem)
    PROVE  BtInv'
  <1>1. Leaves(op, dev, answer) = {}
    BY DEF Leaves
  <1>2. \A d \in Devices : Moves(d, btLines, answer, btModem, modem, Leaves(op, dev, answer))
    BY <1>1, MovesSilent
  <1> QED
    BY <1>2, SentKeeps

LEMMA ErrorSent ==
    ASSUME BtInv, btApp = NoApp, btFault' \in BOOLEAN,
           NEW op \in Ops \ Queried, NEW dev \in Devices \cup {Nobody}, NEW had \in Nat,
           NEW cmd, cmd = CommandOf(op),
           Sends(op, dev, had, cmd, <<BtFinal("ERROR")>>, btModem)
    PROVE  BtInv'
  <1> DEFINE l == BtFinal("ERROR")
             t == <<l>>
  <1>1. btModem \in AnyModem /\ ModemOK(btModem)
    BY DEF BtInv, BtTyped
  <1>2. l \in AnyLine /\ l.is = "ERROR"
    BY FinalOK
  <1>3. t \in Seq(AnyLine) /\ HasNo(t, {"OK"})
    BY <1>2, OneLine
  <1>4. AnswerOK(t, cmd)
    <2>1. cmd # "none"
      BY DEF CommandOf
    <2> QED
      BY <1>2, <2>1, FinalOK, OneLine
  <1>5. ReadOK(t, had, Nothing)
    BY ReadFails
  <1>6. Leaves(op, dev, t) = {}
    BY <1>3 DEF Leaves
  <1>7. \A d \in Devices : Moves(d, btLines, t, btModem, btModem, Leaves(op, dev, t))
    BY <1>6, FinalOK, MovesFinal
  <1>8. Sends(op, dev, had, CommandOf(op), t, btModem)
    OBVIOUS
  <1> HIDE DEF t
  <1> QED
    BY <1>1, <1>3, <1>4, <1>5, <1>7, <1>8, SentKeeps

LEMMA WithIdIs ==
    ASSUME NEW ids, NEW id, WithId(ids, id) # {}
    PROVE  LET d == CHOOSE e \in WithId(ids, id) : TRUE
           IN  d \in Devices /\ ids[d] = id /\ id # 0
  BY DEF WithId

LEMMA PairReqKeeps ==
    ASSUME BtInv, NEW dev \in Devices, RIL_BT_PairReq(dev) PROVE BtInv'
  <1> DEFINE id == Lookup(dev, "devId")
             ids == FoundIds
             M(d) == [btModem EXCEPT !.pairing = @ \cup {d}]
             A(d) == Append(OK, BtLine("QBTPAIR", d, 0, Nothing))
  <1>1. /\ btApp = NoApp /\ btFault' \in BOOLEAN
        /\ \/ /\ Refuses("invalid")
              /\ UNCHANGED <<btTable, btCallback, btFirst, btReadMode, btMissed>>
           \/ Sends("PairReq", dev, 0, "plain", <<BtFinal("ERROR")>>, btModem)
           \/ \E d \in Devices : ids[d] = id /\ id # 0 /\ Sends("PairReq", dev, 0, "plain", A(d), M(d))
    <2>1. /\ btApp = NoApp /\ btFault' \in BOOLEAN
      BY DEF RIL_BT_PairReq, Addressed, NewCall, Looks, Walks
    <2>2. CASE WithId(ids, id) = {}
      BY <2>1, <2>2 DEF RIL_BT_PairReq, Addressed
    <2>3. CASE WithId(ids, id) # {}
      BY <2>1, <2>3, WithIdIs DEF RIL_BT_PairReq, Addressed
    <2> QED
      BY <2>1, <2>2, <2>3
  <1>2. btModem \in AnyModem /\ ModemOK(btModem)
    BY DEF BtInv, BtTyped
  <1>3. /\ "PairReq" \in Ops \ Queried /\ CommandOf("PairReq") = "plain"
        /\ "PairReq" # "SPP_Read" /\ "PairReq" # "Unpair"
    BY OpsAre
  <1>4. CASE Refuses("invalid") /\ UNCHANGED <<btTable, btCallback, btFirst, btReadMode, btMissed>>
    BY <1>1, <1>4, RefusedKeeps
  <1>5. CASE Sends("PairReq", dev, 0, "plain", <<BtFinal("ERROR")>>, btModem)
    BY <1>1, <1>3, <1>5, ErrorSent
  <1>6. ASSUME NEW d \in Devices, ids[d] = id, id # 0, Sends("PairReq", dev, 0, "plain", A(d), M(d))
        PROVE  BtInv'
    <2> DEFINE l == BtLine("QBTPAIR", d, 0, Nothing)
               m2 == M(d)
               t == A(d)
    <2>1. btModem.paired[d] = 0
      BY <1>6 DEF FoundIds
    <2>2. /\ m2 \in AnyModem /\ m2.paired = btModem.paired /\ m2.conn = btModem.conn
          /\ m2.profile = btModem.profile /\ m2.asking = btModem.asking
          /\ m2.pairing = btModem.pairing \cup {d}
      BY <1>2 DEF AnyModem
    <2>3. ModemOK(m2)
      <3> HIDE DEF m2
      <3> QED
        BY <1>2, <2>1, <2>2 DEF ModemOK
    <2>4. l \in AnyLine /\ l.is = "QBTPAIR" /\ l.is \notin Answers /\ l.is \notin {"paired", "connected"}
      BY ModemKinds, LineOK
    <2>5. Sends("PairReq", dev, 0, CommandOf("PairReq"), t, m2)
      BY <1>3, <1>6
    <2>6. t = OK \o <<l>> /\ t \in Seq(AnyLine) /\ AnswerOK(t, CommandOf("PairReq"))
      BY <1>3, <2>4, OKThen
    <2> HIDE DEF m2, t, l
    <2>7. \A e \in Devices : Moves(e, btLines, t, btModem, m2, {})
      <3> TAKE e \in Devices
      <3>1. l \notin PairForget(e) /\ l \notin ConnForget(e)
        BY <2>4 DEF PairForget, ConnForget
      <3>2. Moves(e, btLines, <<l>>, btModem, m2, {})
        BY <2>2, <2>4, <3>1, MovesOne
      <3>3. <<l>> \in Seq(AnyLine)
        BY <2>4
      <3> QED
        BY <2>6, <3>2, <3>3, OKIs, SilentOK, MovesBehind
    <2>8. Leaves("PairReq", dev, t) = {}
      BY DEF Leaves
    <2>9. \A e \in Devices : Moves(e, btLines, t, btModem, m2, Leaves("PairReq", dev, t))
      BY <2>7, <2>8
    <2> HIDE DEF ids, id
    <2> QED
      BY <1>1, <1>3, <2>2, <2>3, <2>5, <2>6, <2>9, SentKeeps
  <1> QED
    BY <1>1, <1>4, <1>5, <1>6

LEMMA UnpairKeeps ==
    ASSUME BtInv, NEW dev \in Devices, RIL_BT_Unpair(dev) PROVE BtInv'
  <1> DEFINE id == Lookup(dev, "pairId")
             ids == btModem.paired
             M(d) == Without(btModem, d)
             A(d) == OK
  <1>1. /\ btApp = NoApp /\ btFault' \in BOOLEAN
        /\ \/ /\ Refuses("invalid")
              /\ UNCHANGED <<btTable, btCallback, btFirst, btReadMode, btMissed>>
           \/ Sends("Unpair", dev, 0, "plain", <<BtFinal("ERROR")>>, btModem)
           \/ \E d \in Devices : /\ ids[d] = id /\ id # 0 /\ id \in PairIds
                                 /\ Sends("Unpair", dev, 0, "plain", A(d), M(d))
    <2>1. /\ btApp = NoApp /\ btFault' \in BOOLEAN
      BY DEF RIL_BT_Unpair, Addressed, NewCall, Looks, Walks
    <2>2. CASE WithId(ids, id) = {}
      BY <2>1, <2>2 DEF RIL_BT_Unpair, Addressed
    <2>3. CASE WithId(ids, id) # {}
      BY <2>1, <2>3, WithIdIs DEF RIL_BT_Unpair, Addressed
    <2> QED
      BY <2>1, <2>2, <2>3
  <1>2. btModem \in AnyModem /\ ModemOK(btModem)
    BY DEF BtInv, BtTyped
  <1>3. "Unpair" \in Ops \ Queried /\ CommandOf("Unpair") = "plain"
    BY OpsAre
  <1>4. CASE Refuses("invalid") /\ UNCHANGED <<btTable, btCallback, btFirst, btReadMode, btMissed>>
    BY <1>1, <1>4, RefusedKeeps
  <1>5. CASE Sends("Unpair", dev, 0, "plain", <<BtFinal("ERROR")>>, btModem)
    BY <1>1, <1>3, <1>5, ErrorSent
  <1>6. ASSUME NEW d \in Devices, ids[d] = id, id # 0, id \in PairIds,
               Sends("Unpair", dev, 0, "plain", A(d), M(d))
        PROVE  BtInv'
    <2> DEFINE m2 == M(d)
    <2>1. /\ m2 \in AnyModem
          /\ m2.paired = [btModem.paired EXCEPT ![d] = 0] /\ m2.conn = [btModem.conn EXCEPT ![d] = 0]
          /\ m2.profile = btModem.profile /\ m2.asking = btModem.asking \ {d}
          /\ m2.connecting = btModem.connecting \ {d} /\ m2.pairing = btModem.pairing
      BY <1>2 DEF AnyModem, Without
    <2>2. Sends("Unpair", dev, 0, CommandOf("Unpair"), OK, m2)
      BY <1>3, <1>6
    <2> HIDE DEF m2
    <2>3. /\ m2.paired[d] = 0 /\ m2.conn[d] = 0
          /\ \A e \in Devices : e # d => /\ m2.paired[e] = btModem.paired[e]
                                         /\ m2.conn[e] = btModem.conn[e]
      BY <1>2, <2>1, ModemTyped
    <2>4. ModemOK(m2)
      BY <1>2, <2>1, <2>3, ModemTyped DEF ModemOK
    <2>5. OK \in Seq(AnyLine) /\ AnswerOK(OK, CommandOf("Unpair")) /\ "Unpair" # "SPP_Read"
      BY <1>3, OKIs
    <2>6. CASE btCmd # NoCmd
      <3>1. Refuses("busy") /\ UNCHANGED <<btTable, btCallback, btFirst, btReadMode, btMissed>>
        BY <2>2, <2>6 DEF Sends
      <3> QED
        BY <1>1, <3>1, RefusedKeeps
    <2>7. CASE btCmd = NoCmd
      <3>1. HasNo(btLines, Answers)
        <4>1. btLines \in Seq(AnyLine) /\ AnswerOK(btLines, "none")
          BY <2>7 DEF BtInv, BtTyped, NoCmd
        <4> QED
          BY <4>1, NoAnswers
      <3>2. \A e \in Devices : Free(btLines, PairRow(e)) /\ Free(btLines, ConnRow(e))
        BY <3>1 DEF HasNo, Free, PairRow, ConnRow, Answers
      <3>3. Leaves("Unpair", dev, OK) = {dev}
        BY OKIs DEF Leaves
      <3>4. ASSUME ~btMissed, NEW e \in Devices,
                   DeviceOK(e, btLines, btTable, btModem, "none", {})
            PROVE  Moves(e, btLines, OK, btModem, m2, {dev})
        <4>1. dev = d
          <5>1. DeviceOK(dev, btLines, btTable, btModem, "none", {})
            <6>1. BtTableOK /\ Gone = {} /\ btCmd.cmd = "none"
              BY <1>1, <2>7, <3>4 DEF BtInv, Gone, NoCmd
            <6> QED
              BY <6>1 DEF BtTableOK
          <5>2. KnownIn(btTable, dev, "pairId") = -1
                \/ (btModem.paired[dev] # 0 /\ KnownIn(btTable, dev, "pairId") = btModem.paired[dev])
            BY <5>1 DEF DeviceOK, PairOK
          <5>3. KnownIn(btTable, dev, "pairId") = id
            BY <1>6 DEF KnownIn, Lookup
          <5>4. id # -1
            BY <1>6 DEF PairIds
          <5> HIDE DEF id
          <5> QED
            BY <1>2, <1>6, <5>2, <5>3, <5>4 DEF ModemOK
        <4>2. CASE e = d
          BY <2>1, <2>3, <3>2, <4>1, <4>2, SilentOK, SilentFree DEF Moves
        <4>3. CASE e # d
          BY <2>1, <2>3, <4>1, <4>3, SilentOK, MovesSilent
        <4> QED
          BY <4>2, <4>3
      <3>5. ASSUME ~btMissed
            PROVE  \A e \in Devices : DeviceOK(e, btLines, btTable, btModem, "none", {})
                      => Moves(e, btLines, OK, btModem, m2, Leaves("Unpair", dev, OK))
        BY <3>3, <3>4, <3>5
      <3> HIDE DEF ids, id
      <3> QED
        BY <1>1, <1>3, <2>1, <2>2, <2>4, <2>5, <3>5, SentKeeps
    <2> QED
      BY <2>6, <2>7
  <1> QED
    BY <1>1, <1>4, <1>5, <1>6

LEMMA GetSupportedProfileKeeps ==
    ASSUME BtInv, NEW dev \in Devices, RIL_BT_GetSupportedProfile(dev) PROVE BtInv'
  <1> DEFINE id == Lookup(dev, "pairId")
             ids == btModem.paired
             M(d) == btModem
             A(d) == <<BtLine("profile", d, 0, Nothing), BtLine("profile", d, 5, Nothing)>> \o OK
  <1>1. /\ btApp = NoApp /\ btFault' \in BOOLEAN
        /\ \/ /\ Refuses("invalid")
              /\ UNCHANGED <<btTable, btCallback, btFirst, btReadMode, btMissed>>
           \/ Sends("GetSupportedProfile", dev, 2, "QBTGPROF", <<BtFinal("ERROR")>>, btModem)
           \/ \E d \in Devices : /\ ids[d] = id /\ id # 0
                                 /\ Sends("GetSupportedProfile", dev, 2, "QBTGPROF", A(d), M(d))
    <2>1. /\ btApp = NoApp /\ btFault' \in BOOLEAN
      BY DEF RIL_BT_GetSupportedProfile, Addressed, NewCall, Looks, Walks
    <2>2. CASE WithId(ids, id) = {}
      BY <2>1, <2>2 DEF RIL_BT_GetSupportedProfile, Addressed
    <2>3. CASE WithId(ids, id) # {}
      BY <2>1, <2>3, WithIdIs DEF RIL_BT_GetSupportedProfile, Addressed
    <2> QED
      BY <2>1, <2>2, <2>3
  <1>2. btModem \in AnyModem /\ ModemOK(btModem)
    BY DEF BtInv, BtTyped
  <1>3. "GetSupportedProfile" \in Ops \ Queried /\ CommandOf("GetSupportedProfile") = "QBTGPROF"
    BY OpsAre
  <1>4. CASE Refuses("invalid") /\ UNCHANGED <<btTable, btCallback, btFirst, btReadMode, btMissed>>
    BY <1>1, <1>4, RefusedKeeps
  <1>5. CASE Sends("GetSupportedProfile", dev, 2, "QBTGPROF", <<BtFinal("ERROR")>>, btModem)
    BY <1>1, <1>3, <1>5, ErrorSent
  <1>6. ASSUME NEW d \in Devices, Sends("GetSupportedProfile", dev, 2, "QBTGPROF", A(d), M(d))
        PROVE  BtInv'
    <2> DEFINE l == BtLine("profile", d, 0, Nothing)
               k == BtLine("profile", d, 5, Nothing)
               t == A(d)
    <2>1. /\ l \in AnyLine /\ l.is = "profile" /\ k \in AnyLine /\ k.is = "profile"
          /\ "profile" \in AnswersOf("QBTGPROF")
      BY LineOK DEF Kinds, Answers, AnswersOf
    <2>2. t = <<l>> \o (<<k>> \o OK)
      BY <2>1, OKIs
    <2>3. Sends("GetSupportedProfile", dev, 2, "QBTGPROF", t, btModem)
      BY <1>6
    <2> HIDE DEF l, k, t
    <2>4. /\ <<k>> \o OK \in Seq(AnyLine) /\ AnswerOK(<<k>> \o OK, "QBTGPROF")
          /\ Silent(<<k>> \o OK)
      BY <2>1, ThenOK
    <2>5. t \in Seq(AnyLine) /\ AnswerOK(t, "QBTGPROF") /\ Silent(t)
      <3>1. /\ <<l>> \in Seq(AnyLine) /\ AnswerOK(<<l>>, "QBTGPROF") /\ HasNo(<<l>>, Finals)
            /\ HasNo(<<k>>, {"state"}) /\ DOMAIN <<l>> = {1} /\ <<l>>[1] = l /\ <<k>> \in Seq(AnyLine)
        BY <2>1, OneLine DEF Finals
      <3>2. Silent(<<l>>)
        <4> DEFINE s == <<l>>
        <4>1. DOMAIN s = {1} /\ s[1].is \in Answers /\ s[1].is \notin {"paired", "connected"}
          BY <2>1, <3>1 DEF Answers
        <4> HIDE DEF s
        <4>2. Silent(s)
          BY <4>1 DEF Silent
        <4> QED
          BY <4>2 DEF s
      <3>3. HasNo(<<k>> \o OK, {"state"})
        BY <3>1, OKIs, HasNoCat
      <3> DEFINE r == <<k>> \o OK
      <3> HIDE DEF r
      <3>4. /\ r \in Seq(AnyLine) /\ AnswerOK(r, "QBTGPROF") /\ Silent(r) /\ HasNo(r, {"state"})
            /\ t = <<l>> \o r
        BY <2>2, <2>4, <3>3 DEF r
      <3> QED
        BY <3>1, <3>2, <3>4, AnswersCat, CatLines, SilentCat
    <2> HIDE DEF ids, id
    <2> QED
      BY <1>1, <1>2, <1>3, <2>3, <2>5, SilentSent
  <1> QED
    BY <1>1, <1>4, <1>5, <1>6

LEMMA ConnReqKeeps ==
    ASSUME BtInv, NEW dev \in Devices, RIL_BT_ConnReq(dev) PROVE BtInv'
  <1> DEFINE id == Lookup(dev, "pairId")
             ids == btModem.paired
             M(d) == [btModem EXCEPT !.connecting = @ \cup {d}]
             A(d) == OK
  <1>1. /\ btApp = NoApp /\ btFault' \in BOOLEAN
        /\ \/ /\ Refuses("invalid")
              /\ UNCHANGED <<btTable, btCallback, btFirst, btReadMode, btMissed>>
           \/ Sends("ConnReq", dev, 0, "plain", <<BtFinal("ERROR")>>, btModem)
           \/ \E d \in Devices : /\ ids[d] = id /\ id # 0
                                 /\ Sends("ConnReq", dev, 0, "plain", A(d), M(d))
    <2>1. /\ btApp = NoApp /\ btFault' \in BOOLEAN
      BY DEF RIL_BT_ConnReq, Addressed, NewCall, Looks, Walks
    <2>2. CASE WithId(ids, id) = {}
      BY <2>1, <2>2 DEF RIL_BT_ConnReq, Addressed
    <2>3. CASE WithId(ids, id) # {}
      BY <2>1, <2>3, WithIdIs DEF RIL_BT_ConnReq, Addressed
    <2> QED
      BY <2>1, <2>2, <2>3
  <1>2. btModem \in AnyModem /\ ModemOK(btModem)
    BY DEF BtInv, BtTyped
  <1>3. "ConnReq" \in Ops \ Queried /\ CommandOf("ConnReq") = "plain"
    BY OpsAre
  <1>4. CASE Refuses("invalid") /\ UNCHANGED <<btTable, btCallback, btFirst, btReadMode, btMissed>>
    BY <1>1, <1>4, RefusedKeeps
  <1>5. CASE Sends("ConnReq", dev, 0, "plain", <<BtFinal("ERROR")>>, btModem)
    BY <1>1, <1>3, <1>5, ErrorSent
  <1>6. ASSUME NEW d \in Devices, Sends("ConnReq", dev, 0, "plain", A(d), M(d))
        PROVE  BtInv'
    <2> DEFINE m2 == M(d)
    <2>1. /\ m2 \in AnyModem /\ m2.paired = btModem.paired /\ m2.conn = btModem.conn
          /\ m2.profile = btModem.profile /\ m2.asking = btModem.asking
          /\ m2.pairing = btModem.pairing
      BY <1>2 DEF AnyModem
    <2>2. Sends("ConnReq", dev, 0, "plain", OK, m2)
      BY <1>6
    <2> HIDE DEF m2
    <2>3. ModemOK(m2)
      BY <1>2, <2>1 DEF ModemOK
    <2>4. OK \in Seq(AnyLine) /\ AnswerOK(OK, "plain")
      BY OKIs
    <2> HIDE DEF ids, id
    <2> QED
      BY <1>1, <1>3, <2>1, <2>2, <2>3, <2>4, SilentOK, SilentSent
  <1> QED
    BY <1>1, <1>4, <1>5, <1>6

LEMMA DisconnectKeeps ==
    ASSUME BtInv, NEW dev \in Devices, RIL_BT_Disconnect(dev) PROVE BtInv'
  <1> DEFINE id == Lookup(dev, "connId")
             ids == btModem.conn
             M(d) == [btModem EXCEPT !.conn[d] = 0]
             A(d) == Append(OK, BtLine("QBTDISCONN", d, 0, Nothing))
  <1>1. /\ btApp = NoApp /\ btFault' \in BOOLEAN
        /\ \/ /\ Refuses("invalid")
              /\ UNCHANGED <<btTable, btCallback, btFirst, btReadMode, btMissed>>
           \/ Sends("Disconnect", dev, 0, "plain", <<BtFinal("ERROR")>>, btModem)
           \/ \E d \in Devices : /\ ids[d] = id /\ id # 0
                                 /\ Sends("Disconnect", dev, 0, "plain", A(d), M(d))
    <2>1. /\ btApp = NoApp /\ btFault' \in BOOLEAN
      BY DEF RIL_BT_Disconnect, Addressed, NewCall, Looks, Walks
    <2>2. CASE WithId(ids, id) = {}
      BY <2>1, <2>2 DEF RIL_BT_Disconnect, Addressed
    <2>3. CASE WithId(ids, id) # {}
      BY <2>1, <2>3, WithIdIs DEF RIL_BT_Disconnect, Addressed
    <2> QED
      BY <2>1, <2>2, <2>3
  <1>2. btModem \in AnyModem /\ ModemOK(btModem)
    BY DEF BtInv, BtTyped
  <1>3. "Disconnect" \in Ops \ Queried /\ CommandOf("Disconnect") = "plain"
    BY OpsAre
  <1>4. CASE Refuses("invalid") /\ UNCHANGED <<btTable, btCallback, btFirst, btReadMode, btMissed>>
    BY <1>1, <1>4, RefusedKeeps
  <1>5. CASE Sends("Disconnect", dev, 0, "plain", <<BtFinal("ERROR")>>, btModem)
    BY <1>1, <1>3, <1>5, ErrorSent
  <1>6. ASSUME NEW d \in Devices, Sends("Disconnect", dev, 0, "plain", A(d), M(d))
        PROVE  BtInv'
    <2> DEFINE l == BtLine("QBTDISCONN", d, 0, Nothing)
               m2 == M(d)
               t == A(d)
    <2>1. /\ m2 \in AnyModem /\ m2.paired = btModem.paired
          /\ m2.conn = [btModem.conn EXCEPT ![d] = 0]
          /\ m2.profile = btModem.profile /\ m2.asking = btModem.asking
          /\ m2.pairing = btModem.pairing
      BY <1>2 DEF AnyModem
    <2>2. Sends("Disconnect", dev, 0, CommandOf("Disconnect"), t, m2)
      BY <1>3, <1>6
    <2>3. /\ l \in AnyLine /\ l.is = "QBTDISCONN" /\ l.dev = d
          /\ l.is \notin Answers /\ l.is \notin {"paired", "connected"}
      BY ModemKinds, LineOK
    <2>4. t = OK \o <<l>> /\ t \in Seq(AnyLine) /\ AnswerOK(t, CommandOf("Disconnect"))
      BY <1>3, <2>3, OKThen
    <2> HIDE DEF m2, t, l
    <2>5. /\ m2.conn[d] = 0
          /\ \A e \in Devices : e # d => m2.conn[e] = btModem.conn[e]
      BY <1>2, <2>1, ModemTyped
    <2>6. ModemOK(m2)
      BY <1>2, <2>1, <2>5, ModemTyped DEF ModemOK
    <2>7. \A e \in Devices : Moves(e, btLines, t, btModem, m2, {})
      <3> TAKE e \in Devices
      <3>1. l \notin PairForget(e) /\ (e # d => l \notin ConnForget(e))
        BY <2>3 DEF PairForget, ConnForget
      <3>2. Moves(e, btLines, <<l>>, btModem, m2, {})
        <4>1. CASE e = d
          BY <2>1, <2>3, <2>5, <3>1, <4>1, MovesOne
        <4>2. CASE e # d
          BY <2>1, <2>3, <2>5, <3>1, <4>2, MovesOne
        <4> QED
          BY <4>1, <4>2
      <3>3. <<l>> \in Seq(AnyLine)
        BY <2>3
      <3> QED
        BY <2>4, <3>2, <3>3, OKIs, SilentOK, MovesBehind
    <2>8. Leaves("Disconnect", dev, t) = {} /\ "Disconnect" # "SPP_Read"
      BY DEF Leaves
    <2>9. \A e \in Devices : Moves(e, btLines, t, btModem, m2, Leaves("Disconnect", dev, t))
      BY <2>7, <2>8
    <2> HIDE DEF ids, id
    <2> QED
      BY <1>1, <1>3, <2>1, <2>2, <2>4, <2>6, <2>8, <2>9, SentKeeps
  <1> QED
    BY <1>1, <1>4, <1>5, <1>6

LEMMA SendKeeps ==
    ASSUME BtInv, NEW dev \in Devices, RIL_BT_SPP_Send(dev) PROVE BtInv'
  <1> DEFINE id == Lookup(dev, "connId")
             ids == btModem.conn
             M(d) == btModem
             A(d) == <<BtLine("prompt", Nobody, 1, Nothing)>> \o OK
  <1>1. /\ btApp = NoApp /\ btFault' \in BOOLEAN
        /\ \/ /\ Refuses("invalid")
              /\ UNCHANGED <<btTable, btCallback, btFirst, btReadMode, btMissed>>
           \/ Sends("SPP_Send", dev, 1, "QBTSPPSEND", <<BtFinal("ERROR")>>, btModem)
           \/ \E d \in Devices : /\ ids[d] = id /\ id # 0
                                 /\ Sends("SPP_Send", dev, 1, "QBTSPPSEND", A(d), M(d))
    <2>1. /\ btApp = NoApp /\ btFault' \in BOOLEAN
      BY DEF RIL_BT_SPP_Send, Addressed, NewCall, Looks, Walks
    <2>2. CASE WithId(ids, id) = {}
      BY <2>1, <2>2 DEF RIL_BT_SPP_Send, Addressed
    <2>3. CASE WithId(ids, id) # {}
      BY <2>1, <2>3, WithIdIs DEF RIL_BT_SPP_Send, Addressed
    <2> QED
      BY <2>1, <2>2, <2>3
  <1>2. btModem \in AnyModem /\ ModemOK(btModem)
    BY DEF BtInv, BtTyped
  <1>3. "SPP_Send" \in Ops \ Queried /\ CommandOf("SPP_Send") = "QBTSPPSEND"
    BY OpsAre
  <1>4. CASE Refuses("invalid") /\ UNCHANGED <<btTable, btCallback, btFirst, btReadMode, btMissed>>
    BY <1>1, <1>4, RefusedKeeps
  <1>5. CASE Sends("SPP_Send", dev, 1, "QBTSPPSEND", <<BtFinal("ERROR")>>, btModem)
    BY <1>1, <1>3, <1>5, ErrorSent
  <1>6. ASSUME NEW d \in Devices, Sends("SPP_Send", dev, 1, "QBTSPPSEND", A(d), M(d))
        PROVE  BtInv'
    <2> DEFINE l == BtLine("prompt", Nobody, 1, Nothing)
               t == A(d)
    <2>1. l \in AnyLine /\ l.is = "prompt"
      <3>1. "prompt" \in Kinds
        BY DEF Kinds, Answers
      <3> HIDE DEF ids, id, M, A
      <3> QED
        BY <3>1, LineOK
    <2>2. Sends("SPP_Send", dev, 1, "QBTSPPSEND", t, btModem) /\ t = <<l>> \o OK
      BY <1>6
    <2> HIDE DEF l, t
    <2>3. t \in Seq(AnyLine) /\ AnswerOK(t, "QBTSPPSEND") /\ Silent(t)
      BY <2>1, <2>2, ThenOK DEF AnswersOf
    <2> HIDE DEF ids, id
    <2> QED
      BY <1>1, <1>2, <1>3, <2>2, <2>3, SilentSent
  <1> QED
    BY <1>1, <1>4, <1>5, <1>6

LEMMA AppendTwo ==
    ASSUME NEW S, NEW a \in S, NEW b \in S PROVE Append(<<a>>, b) = <<a, b>>
  <1> DEFINE s == <<a>>
             t == Append(s, b)
  <1>1. s \in Seq(S) /\ Len(s) = 1 /\ s[1] = a
    OBVIOUS
  <1>2. t \in Seq(S) /\ Len(t) = 2 /\ t[1] = a /\ t[2] = b
    BY <1>1, AppendProperties
  <1>3. <<a, b>> \in Seq(S) /\ Len(<<a, b>>) = 2 /\ <<a, b>>[1] = a /\ <<a, b>>[2] = b
    OBVIOUS
  <1> HIDE DEF t
  <1>4. \A i \in 1 .. Len(t) : t[i] = <<a, b>>[i]
    BY <1>2, <1>3
  <1>5. t = <<a, b>>
    BY <1>2, <1>3, <1>4, SeqEqual
  <1> QED
    BY <1>5 DEF t

LEMMA AppendThree ==
    ASSUME NEW S, NEW a \in S, NEW b \in S, NEW c \in S
    PROVE  Append(<<a, b>>, c) = <<a, b, c>>
  <1> DEFINE s == <<a, b>>
             t == Append(s, c)
  <1>1. s \in Seq(S) /\ Len(s) = 2 /\ s[1] = a /\ s[2] = b
    OBVIOUS
  <1>2. t \in Seq(S) /\ Len(t) = 3 /\ t[1] = a /\ t[2] = b /\ t[3] = c
    BY <1>1, AppendProperties
  <1> DEFINE u == <<a, b, c>>
  <1>3. u \in Seq(S) /\ Len(u) = 3 /\ u[1] = a /\ u[2] = b /\ u[3] = c
    OBVIOUS
  <1> HIDE DEF t, u
  <1>4. \A i \in 1 .. Len(t) : t[i] = u[i]
    BY <1>2, <1>3
  <1>5. t = u
    BY <1>2, <1>3, <1>4, SeqEqual
  <1> QED
    BY <1>5 DEF t, u

LEMMA Joined ==
    ASSUME NEW S, NEW a \in S, NEW b \in S, NEW c \in S
    PROVE  /\ <<a>> \o <<>> = <<a>> /\ <<a>> \o <<b>> = <<a, b>>
           /\ <<a, b>> \o <<c>> = <<a, b, c>>
  <1>1. <<a>> \in Seq(S) /\ <<a, b>> \in Seq(S)
    OBVIOUS
  <1>2. <<a>> \o <<>> = <<a>>
    BY <1>1, ConcatEmptySeq
  <1> QED
    BY <1>1, <1>2, AppendTwo, AppendThree, AppendIsConcat

\* The answer to a read, with one byte of data or none.
LEMMA ReadAnswer ==
    ASSUME NEW had \in 0 .. 1
    PROVE  LET Data == IF had = 0 THEN <<>> ELSE <<BtLine("data", Nobody, 0, Nothing)>>
               t == <<BtLine("read", Nobody, had, Nothing)>> \o Data \o OK
           IN  /\ t \in Seq(AnyLine) /\ AnswerOK(t, "QSPPREAD") /\ Silent(t)
               /\ ReadOK(t, had, Nothing)
  <1> DEFINE r == BtLine("read", Nobody, had, Nothing)
             x == BtLine("data", Nobody, 0, Nothing)
             o == BtFinal("OK")
             t == IF had = 0 THEN <<r, o>> ELSE <<r, x, o>>
             Data == IF had = 0 THEN <<>> ELSE <<x>>
  <1>1. /\ r \in AnyLine /\ r.is = "read" /\ r.id = had
        /\ x \in AnyLine /\ x.is = "data"
        /\ o \in AnyLine /\ o.is = "OK" /\ OK = <<o>>
    BY LineOK, FinalOK DEF Kinds, Answers, Finals
  <1>2. <<r>> \o Data \o OK = t
    <2> HIDE DEF r, x, o
    <2>1. CASE had = 0
      <3>1. Data = <<>> /\ t = <<r, o>>
        BY <2>1
      <3>2. <<r>> \o <<>> = <<r>> /\ <<r>> \o <<o>> = <<r, o>>
        BY <1>1, Joined
      <3> QED
        BY <1>1, <3>1, <3>2
    <2>2. CASE had # 0
      <3>1. Data = <<x>> /\ t = <<r, x, o>>
        BY <2>2
      <3>2. <<r>> \o <<x>> = <<r, x>> /\ <<r, x>> \o <<o>> = <<r, x, o>>
        BY <1>1, Joined
      <3> QED
        BY <1>1, <3>1, <3>2
    <2> QED
      BY <2>1, <2>2
  <1> HIDE DEF r, x, o
  <1>3. /\ had = 0 => DOMAIN t = 1 .. 2 /\ t[1] = r /\ t[2] = o
        /\ had # 0 => DOMAIN t = 1 .. 3 /\ t[1] = r /\ t[2] = x /\ t[3] = o
        /\ t \in Seq(AnyLine)
    BY <1>1
  <1> HIDE DEF t
  <1>4. {"read", "data", "OK"} \subseteq AnswersOf("QSPPREAD") \cap Answers
    BY DEF AnswersOf, Finals, Answers
  <1>5. had \in {0, 1}
    OBVIOUS
  <1>6. had = 0 => \A i \in DOMAIN t : (i = 1 /\ t[i].is = "read") \/ (i = 2 /\ t[i].is = "OK")
    BY <1>1, <1>3
  <1>7. had # 0 => \A i \in DOMAIN t : \/ i = 1 /\ t[i].is = "read"
                                       \/ i = 2 /\ t[i].is = "data"
                                       \/ i = 3 /\ t[i].is = "OK"
    BY <1>1, <1>3
  <1>8. AnswerOK(t, "QSPPREAD")
    BY <1>4, <1>6, <1>7 DEF AnswerOK, Finals
  <1>9. Silent(t)
    BY <1>4, <1>6, <1>7 DEF Silent
  <1>10. ReadOK(t, had, Nothing)
    <2>1. /\ \A i, j \in DOMAIN t : i < j /\ t[i].is = "data" => t[j].is \notin {"read", "data"}
          /\ \A i \in DOMAIN t : t[i].is = "read" => t[i].id = had
      BY <1>1, <1>3, <1>6, <1>7
    <2>2. had = 0 => ReadTrue(0, Nothing) /\ \A i \in DOMAIN t : t[i].is # "data"
      BY <1>6 DEF ReadTrue
    <2>3. had # 0 => \A i \in DOMAIN t : t[i].is = "OK" =>
             \E j \in DOMAIN t : j < i /\ t[j].is = "data"
      BY <1>1, <1>3, <1>7
    <2> QED
      BY <2>1, <2>2, <2>3 DEF ReadOK
  <1> QED
    BY <1>2, <1>3, <1>8, <1>9, <1>10 DEF r, x

LEMMA ReadKeeps ==
    ASSUME BtInv, NEW dev \in Devices, NEW had \in 0 .. 1, RIL_BT_SPP_Read(dev, had) PROVE BtInv'
  <1> DEFINE id == Lookup(dev, "connId")
             ids == btModem.conn
             Data == IF had = 0 THEN <<>> ELSE <<BtLine("data", Nobody, 0, Nothing)>>
             M(d) == btModem
             A(d) == <<BtLine("read", Nobody, had, Nothing)>> \o Data \o OK
  <1>1. /\ btApp = NoApp /\ btFault' \in BOOLEAN
        /\ \/ /\ Refuses("invalid")
              /\ UNCHANGED <<btTable, btCallback, btFirst, btReadMode, btMissed>>
           \/ Sends("SPP_Read", dev, had, "QSPPREAD", <<BtFinal("ERROR")>>, btModem)
           \/ \E d \in Devices : /\ ids[d] = id /\ id # 0
                                 /\ Sends("SPP_Read", dev, had, "QSPPREAD", A(d), M(d))
    <2>1. /\ btApp = NoApp /\ btFault' \in BOOLEAN
      BY DEF RIL_BT_SPP_Read, Addressed, NewCall, Looks, Walks
    <2>2. CASE WithId(ids, id) = {}
      BY <2>1, <2>2 DEF RIL_BT_SPP_Read, Addressed
    <2>3. CASE WithId(ids, id) # {}
      BY <2>1, <2>3, WithIdIs DEF RIL_BT_SPP_Read, Addressed
    <2> QED
      BY <2>1, <2>2, <2>3
  <1>2. btModem \in AnyModem /\ ModemOK(btModem)
    BY DEF BtInv, BtTyped
  <1>3. "SPP_Read" \in Ops \ Queried /\ CommandOf("SPP_Read") = "QSPPREAD"
    BY OpsAre
  <1>4. CASE Refuses("invalid") /\ UNCHANGED <<btTable, btCallback, btFirst, btReadMode, btMissed>>
    BY <1>1, <1>4, RefusedKeeps
  <1>5. CASE Sends("SPP_Read", dev, had, "QSPPREAD", <<BtFinal("ERROR")>>, btModem)
    BY <1>1, <1>3, <1>5, ErrorSent
  <1>6. ASSUME NEW d \in Devices, Sends("SPP_Read", dev, had, "QSPPREAD", A(d), M(d))
        PROVE  BtInv'
    <2> DEFINE t == A(d)
    <2>1. Sends("SPP_Read", dev, had, "QSPPREAD", t, btModem)
      BY <1>6
    <2>2. /\ t \in Seq(AnyLine) /\ AnswerOK(t, "QSPPREAD") /\ Silent(t)
          /\ ReadOK(t, had, Nothing)
      BY ReadAnswer
    <2> HIDE DEF t, ids, id
    <2> QED
      BY <1>1, <1>2, <1>3, <2>1, <2>2, SilentSent
  <1> QED
    BY <1>1, <1>4, <1>5, <1>6

LEMMA PairConfirmKeeps ==
    ASSUME BtInv, NEW accept \in BOOLEAN, RIL_BT_PairConfirm(accept) PROVE BtInv'
  <1>1. PICK d \in btModem.pairing :
           LET paired == [btModem EXCEPT !.pairing = @ \ {d}]
           IN  IF accept
               THEN Sends("PairConfirm", d, 0, "plain",
                          Append(OK, BtLine("QBTPAIRCNF", d, 1, Nothing)),
                          [paired EXCEPT !.paired[d] = FreeId(btModem.paired)])
               ELSE Sends("PairConfirm", d, 0, "plain",
                          Append(OK, BtLine("QBTPAIRCNF", d, 0, Nothing)), paired)
    BY Zenon DEF RIL_BT_PairConfirm
  <1>2. /\ btModem \in AnyModem /\ ModemOK(btModem) /\ btApp = NoApp /\ btFault' \in BOOLEAN
    BY DEF BtInv, BtTyped, RIL_BT_PairConfirm, NewCall
  <1>3. d \in Devices /\ btModem.paired[d] = 0
    BY <1>2, ModemTyped DEF ModemOK
  <1> DEFINE p == FreeId(btModem.paired)
             m1 == [btModem EXCEPT !.pairing = @ \ {d}]
             m2 == IF accept THEN [m1 EXCEPT !.paired[d] = p] ELSE m1
             l == BtLine("QBTPAIRCNF", d, IF accept THEN 1 ELSE 0, Nothing)
             t == Append(OK, l)
  <1>4. Sends("PairConfirm", d, 0, CommandOf("PairConfirm"), t, m2)
    BY <1>1, OpsAre
  <1>5. /\ l \in AnyLine /\ l.is = "QBTPAIRCNF" /\ l.dev = d /\ l.id = (IF accept THEN 1 ELSE 0)
        /\ l.is \notin Answers /\ l.is \notin {"paired", "connected"}
    BY <1>3, ModemKinds, LineOK
  <1>6. p \in Nat \ {0} /\ \A e \in Devices : btModem.paired[e] # p
    BY <1>2, <1>3, ModemTyped, FreeIdIsNew
  <1> HIDE DEF p
  <1>7. /\ m2 \in AnyModem
        /\ m2.paired = IF accept THEN [btModem.paired EXCEPT ![d] = p] ELSE btModem.paired
        /\ m2.conn = btModem.conn /\ m2.profile = btModem.profile
        /\ m2.asking = btModem.asking /\ m2.pairing = btModem.pairing \ {d}
    BY <1>2, <1>6 DEF AnyModem
  <1>8. t = OK \o <<l>> /\ t \in Seq(AnyLine) /\ AnswerOK(t, CommandOf("PairConfirm")) /\ "PairConfirm" # "SPP_Read"
        /\ "PairConfirm" \in Ops \ Queried
    BY <1>5, OKThen, OpsAre
  <1> HIDE DEF m2, l, t
  <1>9. /\ accept => m2.paired[d] = p
        /\ ~accept => m2.paired[d] = 0
        /\ \A e \in Devices : e # d => m2.paired[e] = btModem.paired[e]
    BY <1>2, <1>3, <1>7, ModemTyped
  <1>10. ModemOK(m2)
    <2>1. ASSUME NEW e \in Devices, NEW f \in Devices,
                 m2.paired[e] = m2.paired[f], m2.paired[e] # 0
          PROVE  e = f
      <3>1. CASE e = d \/ f = d
        BY <1>6, <1>9, <2>1, <3>1
      <3>2. CASE e # d /\ f # d
        BY <1>2, <1>9, <2>1, <3>2 DEF ModemOK
      <3> QED
        BY <3>1, <3>2
    <2>2. /\ \A e \in m2.pairing : m2.paired[e] = 0
          /\ \A e \in m2.asking : m2.conn[e] = 0 /\ m2.paired[e] # 0
      BY <1>2, <1>3, <1>7, <1>9, ModemTyped DEF ModemOK
    <2> QED
      BY <2>1, <2>2 DEF ModemOK
  <1>11. \A e \in Devices : Moves(e, btLines, t, btModem, m2, {})
    <2> TAKE e \in Devices
    <2>1. l \notin ConnForget(e) /\ (e # d => l \notin PairForget(e))
      BY <1>5 DEF PairForget, ConnForget
    <2>2. Moves(e, btLines, <<l>>, btModem, m2, {})
      <3>1. CASE e = d
        <4>1. CASE accept
          <5>1. /\ l.is \in {"QBTPAIRCNF", "QBTCONN", "QBTACPT"} /\ l.id # 0
                /\ l.is \notin {"paired", "connected"} /\ btModem.paired[e] = 0
                /\ m2.conn[e] = btModem.conn[e] /\ m2.profile[e] = btModem.profile[e]
            BY <1>3, <1>5, <1>7, <3>1, <4>1
          <5> QED
            BY <1>5, <2>1, <5>1, MovesOne
        <4>2. CASE ~accept
          BY <1>3, <1>5, <1>7, <1>9, <2>1, <3>1, <4>2, MovesOne
        <4> QED
          BY <4>1, <4>2
      <3>2. CASE e # d
        BY <1>5, <1>7, <1>9, <2>1, <3>2, MovesOne
      <3> QED
        BY <3>1, <3>2
    <2>3. <<l>> \in Seq(AnyLine)
      BY <1>5
    <2> QED
      BY <1>8, <2>2, <2>3, OKIs, SilentOK, MovesBehind
  <1>12. Leaves("PairConfirm", d, t) = {}
    BY DEF Leaves
  <1>13. \A e \in Devices : Moves(e, btLines, t, btModem, m2, Leaves("PairConfirm", d, t))
    BY <1>11, <1>12
  <1>14. d \in Devices \cup {Nobody} /\ m2 \in AnyModem /\ 0 \in Nat
    BY <1>3, <1>7
  <1> QED
    BY <1>2, <1>4, <1>8, <1>10, <1>13, <1>14, SentKeeps

LEMMA ConnAcceptKeeps ==
    ASSUME BtInv, NEW accept \in BOOLEAN, RIL_BT_ConnAccept(accept) PROVE BtInv'
  <1>1. PICK d \in btModem.asking :
           LET asked == [btModem EXCEPT !.asking = @ \ {d}]
           IN  IF accept
               THEN Sends("ConnAccept", d, 0, "plain",
                          Append(OK, BtLine("QBTACPT", d, 1, Nothing)),
                          [asked EXCEPT !.conn[d] = FreeId(btModem.conn)])
               ELSE Sends("ConnAccept", d, 0, "plain",
                          Append(OK, BtLine("QBTDISC", d, 0, Nothing)), asked)
    BY Zenon DEF RIL_BT_ConnAccept
  <1>2. /\ btModem \in AnyModem /\ ModemOK(btModem) /\ btApp = NoApp /\ btFault' \in BOOLEAN
    BY DEF BtInv, BtTyped, RIL_BT_ConnAccept, NewCall
  <1>3. d \in Devices /\ btModem.conn[d] = 0
    BY <1>2, ModemTyped DEF ModemOK
  <1> DEFINE c == FreeId(btModem.conn)
             m1 == [btModem EXCEPT !.asking = @ \ {d}]
             m2 == IF accept THEN [m1 EXCEPT !.conn[d] = c] ELSE m1
             l == IF accept THEN BtLine("QBTACPT", d, 1, Nothing)
                  ELSE BtLine("QBTDISC", d, 0, Nothing)
             t == Append(OK, l)
  <1>4. Sends("ConnAccept", d, 0, CommandOf("ConnAccept"), t, m2)
    BY <1>1, OpsAre
  <1>5. /\ l \in AnyLine /\ l.dev = d
        /\ accept => l.is = "QBTACPT" /\ l.id = 1
        /\ ~accept => l.is = "QBTDISC"
        /\ l.is \notin Answers /\ l.is \notin {"paired", "connected"}
    BY <1>3, ModemKinds, LineOK
  <1>6. c \in Nat \ {0}
    BY <1>2, <1>3, ModemTyped, FreeIdIsNew
  <1> HIDE DEF c
  <1>7. /\ m2 \in AnyModem
        /\ m2.conn = IF accept THEN [btModem.conn EXCEPT ![d] = c] ELSE btModem.conn
        /\ m2.paired = btModem.paired /\ m2.profile = btModem.profile
        /\ m2.asking = btModem.asking \ {d} /\ m2.pairing = btModem.pairing
    BY <1>2, <1>6 DEF AnyModem
  <1>8. t = OK \o <<l>> /\ t \in Seq(AnyLine) /\ AnswerOK(t, CommandOf("ConnAccept")) /\ "ConnAccept" # "SPP_Read"
        /\ "ConnAccept" \in Ops \ Queried
    BY <1>5, OKThen, OpsAre
  <1> HIDE DEF m2, l, t
  <1>9. /\ accept => m2.conn[d] = c
        /\ ~accept => m2.conn[d] = 0
        /\ \A e \in Devices : e # d => m2.conn[e] = btModem.conn[e]
    BY <1>2, <1>3, <1>7, ModemTyped
  <1>10. ModemOK(m2)
    BY <1>2, <1>3, <1>7, <1>9, ModemTyped DEF ModemOK
  <1>11. \A e \in Devices : Moves(e, btLines, t, btModem, m2, {})
    <2> TAKE e \in Devices
    <2>1. l \notin PairForget(e) /\ (e # d => l \notin ConnForget(e))
      BY <1>5 DEF PairForget, ConnForget
    <2>2. Moves(e, btLines, <<l>>, btModem, m2, {})
      <3>1. CASE e = d
        BY <1>3, <1>5, <1>6, <1>7, <1>9, <2>1, <3>1, MovesOne
      <3>2. CASE e # d
        BY <1>5, <1>7, <1>9, <2>1, <3>2, MovesOne
      <3> QED
        BY <3>1, <3>2
    <2>3. <<l>> \in Seq(AnyLine)
      BY <1>5
    <2> QED
      BY <1>8, <2>2, <2>3, OKIs, SilentOK, MovesBehind
  <1>12. Leaves("ConnAccept", d, t) = {}
    BY DEF Leaves
  <1>13. \A e \in Devices : Moves(e, btLines, t, btModem, m2, Leaves("ConnAccept", d, t))
    BY <1>11, <1>12
  <1>14. d \in Devices \cup {Nobody} /\ m2 \in AnyModem /\ 0 \in Nat
    BY <1>3, <1>7
  <1> QED
    BY <1>2, <1>4, <1>8, <1>10, <1>13, <1>14, SentKeeps

-----------------------------------------------------------------------------
(* Queries of the modem's state.                                           *)

LEMMA QuerySent ==
    ASSUME btModem \in AnyModem, NEW ls \in Seq(AnyLine), HasNo(ls, Answers),
           NEW by, Queries(by, ls)
    PROVE  /\ btCmd' = [cmd |-> "QBTSTATE", by |-> by] /\ btModem' = btModem
           /\ btLines' \in Seq(AnyLine) /\ AnswerOK(btLines', "QBTSTATE")
           /\ PromptOK(btLines', "QBTSTATE", TRUE)
           /\ \E t : btLines' = ls \o t /\ QueryAnswer(t, btModem)
  <1>1. PICK s \in {0, 1, 5}, paired \in Listings(btModem.paired),
             connected \in Listings(btModem.conn) :
                Carries("QBTSTATE", by, ls, StateAnswer(btModem, s, paired, connected), btModem)
    BY DEF Queries
  <1> DEFINE a == StateAnswer(btModem, s, paired, connected)
             e == BtFinal("ERROR")
  <1>2. /\ btCmd' = [cmd |-> "QBTSTATE", by |-> by] /\ btModem' = btModem
        /\ btLines' = ls \o a \/ btLines' = Append(ls, e)
    BY <1>1 DEF Carries
  <1>3. /\ a \in Seq(AnyLine) /\ AnswerOK(a, "QBTSTATE")
        /\ \A i \in DOMAIN a : a[i].is \in RowKinds
        /\ RowsTrue(a, btModem) /\ RowsAll(a, btModem)
        /\ 1 \in DOMAIN a /\ a[1].is = "state"
    BY StateAnswerIs
  <1>4. e \in AnyLine /\ e.is = "ERROR"
    BY FinalOK
  <1> HIDE DEF a, e
  <1>5. PICK t : /\ btLines' = ls \o t /\ t \in Seq(AnyLine) /\ AnswerOK(t, "QBTSTATE")
                 /\ QueryAnswer(t, btModem)
                 /\ \/ 1 \in DOMAIN t /\ t[1].is = "state"
                    \/ HasNo(t, {"paired", "connected", "state"})
    <2>1. CASE btLines' = ls \o a
      BY <1>3, <2>1 DEF QueryAnswer
    <2>2. CASE btLines' = Append(ls, e)
      <3> DEFINE t == <<e>>
      <3>1. /\ t \in Seq(AnyLine) /\ DOMAIN t = {1} /\ t[1].is = "ERROR"
            /\ AnswerOK(t, "QBTSTATE") /\ HasNo(t, {"paired", "connected", "state"})
        BY <1>4, FinalOK, OneLine
      <3>2. btLines' = ls \o t
        BY <1>4, <2>2
      <3> HIDE DEF t
      <3>3. /\ RowsTrue(t, btModem) /\ \E i \in DOMAIN t : t[i].is = "ERROR"
            /\ \A i \in DOMAIN t : t[i].is \in RowKinds
        BY <3>1 DEF RowKinds, Finals, RowsTrue
      <3>4. QueryAnswer(t, btModem)
        BY <3>1, <3>3 DEF QueryAnswer
      <3> QED
        BY <3>1, <3>2, <3>4
    <2> QED
      BY <1>2, <2>1, <2>2
  <1> DEFINE st == ls \o t
  <1>6. st \in Seq(AnyLine) /\ AnswerOK(st, "QBTSTATE")
    <2>1. HasNo(ls, Finals) /\ AnswerOK(ls, "QBTSTATE")
      BY NoAnswers DEF HasNo, Finals, Answers
    <2> QED
      BY <1>5, <2>1, AnswersCat, CatLines
  <1>7. PromptOK(st, "QBTSTATE", TRUE)
    <2> SUFFICES ASSUME NEW j \in DOMAIN st, st[j].is \in {"paired", "connected"}
                 PROVE  \E i \in DOMAIN st : i < j /\ st[i].is = "state"
      <3> HIDE DEF st
      <3> QED
        BY DEF PromptOK
    <2>1. /\ Len(ls) \in Nat /\ j \in Nat
          /\ \/ j \in DOMAIN ls /\ st[j] = ls[j]
             \/ j - Len(ls) \in DOMAIN t /\ st[j] = t[j - Len(ls)]
          /\ \A i \in DOMAIN t : /\ i \in Nat /\ i >= 1
                                 /\ i + Len(ls) \in DOMAIN st /\ st[i + Len(ls)] = t[i]
      BY <1>5, CatLines
    <2>2. {"paired", "connected"} \subseteq Answers
      BY DEF Answers
    <2> HIDE DEF st
    <2>3. j - Len(ls) \in DOMAIN t /\ st[j] = t[j - Len(ls)]
      BY <2>1, <2>2 DEF HasNo
    <2>4. 1 \in DOMAIN t /\ t[1].is = "state"
      BY <1>5, <2>3 DEF HasNo
    <2>5. j - Len(ls) # 1 /\ j - Len(ls) >= 1
      BY <2>1, <2>3, <2>4
    <2>6. 1 + Len(ls) \in DOMAIN st /\ st[1 + Len(ls)] = t[1]
      BY <2>1, <2>4
    <2>7. 1 + Len(ls) < j
      BY <2>1, <2>5
    <2> QED
      BY <2>4, <2>6, <2>7
  <1> QED
    BY <1>2, <1>5, <1>6, <1>7

LEMMA CleansKeeps ==
    ASSUME BtInv, btApp = NoApp, btCallback', NEW op \in Queried, CleansAndQueries(op),
           btCallback' \in BOOLEAN
    PROVE  BtInv'
  <1>1. /\ btTable' = <<>> /\ btFault' = FALSE /\ btApp' = [op |-> op, dev |-> Nobody, had |-> 0]
        /\ UNCHANGED <<btResult, btFirst, btReadMode, btGot>>
    BY DEF CleansAndQueries, btHandlerVars
  <1>2. /\ btModem \in AnyModem /\ ModemOK(btModem) /\ btLines \in Seq(AnyLine)
        /\ btCmd.cmd # "QSPPREAD" /\ btRc = "none" /\ BtReadOK
    <2>1. btCmd = NoCmd \/ btCmd = [cmd |-> "QBTSTATE", by |-> "handler"]
      BY DEF BtInv, BtCommandOK
    <2> QED
      BY <2>1 DEF BtInv, BtTyped, NoCmd
  <1>3. op \in Ops /\ op \notin {"Unpair", "SPP_Read", "none"} /\ CommandOf(op) = "QBTSTATE"
    BY OpsAre DEF Ops, Queried
  <1>4. btApp' # NoApp /\ btApp' \in [op : Ops, dev : Devices \cup {Nobody}, had : Nat]
        /\ btApp'.op = op
    <2>1. "had" \in DOMAIN btApp' /\ "had" \notin DOMAIN NoApp
      BY <1>1 DEF NoApp
    <2> QED
      BY <1>1, <1>3, <2>1
  <1>5. Gone' = {}
    BY <1>3, <1>4 DEF Gone
  <1>6. CASE btCmd # NoCmd
    <2>1. btRc' = "busy" /\ btMissed' = TRUE /\ UNCHANGED <<btCmd, btLines, btModem>>
      BY <1>6 DEF CleansAndQueries
    <2>2. btCmd = [cmd |-> "QBTSTATE", by |-> "handler"]
      BY <1>2, <1>6 DEF BtInv, BtCommandOK
    <2>3. BtTyped'
      BY <1>1, <1>4, <2>1, EmptyTable DEF BtInv, BtTyped
    <2>4. BtCommandOK' /\ (btApp = NoApp <=> btRc = "none")'
      BY <1>4, <2>1, <2>2 DEF BtCommandOK
    <2>5. BtReadOK'
      BY <1>1, <1>2, <1>3, <1>4, <2>1 DEF BtReadOK
    <2> QED
      BY <2>1, <2>3, <2>4, <2>5 DEF BtInv
  <1>7. CASE btCmd = NoCmd
    <2>1. btRc' = "waiting" /\ btMissed' = ~btFirst /\ Queries("app", btLines)
      BY <1>7 DEF CleansAndQueries
    <2>2. HasNo(btLines, Answers)
      BY <1>7, NoAnswers DEF BtInv, NoCmd
    <2>3. /\ btCmd' = [cmd |-> "QBTSTATE", by |-> "app"] /\ btModem' = btModem
          /\ btLines' \in Seq(AnyLine) /\ AnswerOK(btLines', "QBTSTATE")
          /\ PromptOK(btLines', "QBTSTATE", TRUE)
      BY <1>2, <2>1, <2>2, QuerySent
    <2>4. PICK t : btLines' = btLines \o t /\ QueryAnswer(t, btModem)
      BY <1>2, <2>1, <2>2, QuerySent
    <2>5. BtTyped'
      BY <1>1, <1>4, <2>1, <2>3, EmptyTable DEF BtInv, BtTyped
    <2>6. BtCommandOK' /\ (btApp = NoApp <=> btRc = "none")'
      BY <1>3, <1>4, <2>1, <2>3 DEF BtCommandOK
    <2>7. BtReadOK'
      BY <1>1, <1>2, <1>3, <1>4, <2>1, <2>3 DEF BtReadOK
    <2>8. ASSUME ~btMissed' PROVE BtTableOK'
      <3>1. btFirst' = TRUE
        BY <1>1, <2>1, <2>8 DEF BtInv, BtTyped
      <3>2. \A d \in Devices : Queryable(d, btLines, <<>>, btModem, {})
        BY EmptyTable DEF Queryable
      <3>3. \A d \in Devices : DeviceOK(d, btLines \o t, <<>>, btModem, "QBTSTATE", {})
        BY <1>2, <2>2, <2>4, <3>2, Answered
      <3> QED
        BY <1>1, <1>5, <2>3, <2>4, <3>1, <3>3 DEF BtTableOK
    <2> QED
      BY <1>2, <2>3, <2>5, <2>6, <2>7, <2>8 DEF BtInv
  <1> QED
    BY <1>6, <1>7

LEMMA InitializeKeeps ==
    ASSUME BtInv, RIL_BT_Initialize PROVE BtInv'
  <1>1. btApp = NoApp /\ CleansAndQueries("Initialize") /\ btCallback' = TRUE
    BY DEF RIL_BT_Initialize
  <1> QED
    BY <1>1, CleansKeeps DEF Queried

LEMMA StartScanKeeps ==
    ASSUME BtInv, RIL_BT_StartScan PROVE BtInv'
  <1>1. btApp = NoApp /\ CleansAndQueries("StartScan") /\ btCallback' = btCallback
        /\ btCallback /\ btCallback \in BOOLEAN
    BY DEF RIL_BT_StartScan, NewCall, BtInv, BtTyped
  <1> QED
    BY <1>1, CleansKeeps DEF Queried

-----------------------------------------------------------------------------
(* Lines are handled.                                                      *)

\* What the table says of d after a line.
Follows(d, h, t, t2) ==
    /\ h \in PairRow(d) => KnownIn(t2, d, "pairId") = h.id
    /\ h \in PairForget(d) => KnownIn(t2, d, "pairId") = -1
    /\ h \notin PairRow(d) \cup PairForget(d) => KnownIn(t2, d, "pairId") = KnownIn(t, d, "pairId")
    /\ h \in ConnRow(d) => /\ KnownIn(t2, d, "connId") = h.id
                           /\ KnownIn(t2, d, "profileId") = ProfileNameToId(h.more)
    /\ h \in ConnForget(d) => KnownIn(t2, d, "connId") = -1
    /\ h \notin ConnRow(d) \cup ConnForget(d) =>
          /\ KnownIn(t2, d, "connId") = KnownIn(t, d, "connId")
          /\ KnownIn(t2, d, "profileId") = KnownIn(t, d, "profileId")

LEMMA DeviceTake ==
    ASSUME NEW d \in Devices, NEW ls \in Seq(AnyLine), ls # <<>>, NEW t, NEW t2,
           NEW m \in AnyModem, NEW cmd, NEW gone, DeviceOK(d, ls, t, m, cmd, gone),
           Head(ls) \notin Requery \cup Doom(cmd), Follows(d, Head(ls), t, t2)
    PROVE  DeviceOK(d, Tail(ls), t2, m, cmd, gone)
  <1>1. m.profile[d] \in Profiles \ {Nothing}
    BY DEF AnyModem, ModemProfiles
  <1>2. PairOK(d, Tail(ls), KnownIn(t2, d, "pairId"), m.paired[d], cmd, gone)
    BY PairTake DEF DeviceOK, Follows
  <1>3. ConnOK(d, Tail(ls), KnownIn(t2, d, "connId"), KnownIn(t2, d, "profileId"),
               m.conn[d], m.profile[d], cmd, gone)
    BY <1>1, ConnTake DEF DeviceOK, Follows
  <1> QED
    BY <1>2, <1>3 DEF DeviceOK

\* The first line is taken while the command goes on.
LEMMA Taken ==
    ASSUME BtInv, btLines # <<>>, btLines' = Tail(btLines),
           UNCHANGED <<btModem, btCmd, btRc, btApp, btCallback>>,
           btFirst' \in BOOLEAN, btReadMode' \in BOOLEAN, btFault' \in BOOLEAN,
           btMissed' \in BOOLEAN, btMissed => btMissed', TableOK(btTable'),
           BtReadOK', Head(btLines).is # "OK" \/ btApp.op # "Unpair",
           ~btMissed' => /\ Head(btLines) \notin Requery \cup Doom(btCmd.cmd)
                         /\ PromptOK(Tail(btLines), btCmd.cmd, btFirst')
                         /\ \A d \in Devices : Follows(d, Head(btLines), btTable, btTable')
    PROVE  BtInv'
  <1> DEFINE h == Head(btLines)
             t == Tail(btLines)
  <1>1. btLines \in Seq(AnyLine) /\ btModem \in AnyModem /\ AnswerOK(btLines, btCmd.cmd)
    BY DEF BtInv, BtTyped
  <1>2. /\ t \in Seq(AnyLine) /\ h = btLines[1]
        /\ \A i \in DOMAIN t : i + 1 \in DOMAIN btLines /\ t[i] = btLines[i + 1]
        /\ \A i \in DOMAIN btLines : i = 1 \/ (i - 1 \in DOMAIN t /\ t[i - 1] = btLines[i])
    BY <1>1, TailLines
  <1>3. AnswerOK(t, btCmd.cmd)
    BY <1>1, AnswerTail
  <1> HIDE DEF h, t
  <1>4. BtTyped'
    BY <1>2 DEF BtInv, BtTyped, t
  <1>5. BtCommandOK' /\ (btApp = NoApp <=> btRc = "none")' /\ ModemOK(btModem)'
    BY DEF BtInv, BtCommandOK
  <1>6. Gone' = Gone
    <2>1. CASE h.is # "OK"
      <3>1. ASSUME NEW i \in DOMAIN t, t[i].is = "OK"
            PROVE  \E j \in DOMAIN btLines : btLines[j].is = "OK"
        <4>1. i + 1 \in DOMAIN btLines /\ btLines[i + 1].is = "OK"
          BY <1>2, <3>1
        <4> QED
          BY <4>1
      <3>2. ASSUME NEW i \in DOMAIN btLines, btLines[i].is = "OK"
            PROVE  \E j \in DOMAIN t : t[j].is = "OK"
        <4>1. i # 1
          BY <1>2, <2>1, <3>2
        <4>2. \A k \in DOMAIN btLines : k = 1 \/ (k - 1 \in DOMAIN t /\ t[k - 1] = btLines[k])
          BY <1>2
        <4>3. i - 1 \in DOMAIN t /\ t[i - 1] = btLines[i]
          BY <4>1, <4>2
        <4> QED
          BY <3>2, <4>3
      <3>3. (\E i \in DOMAIN t : t[i].is = "OK") <=> \E i \in DOMAIN btLines : btLines[i].is = "OK"
        BY <3>1, <3>2
      <3> QED
        BY <3>3 DEF Gone, t
    <2>2. CASE btApp.op # "Unpair"
      BY <2>2 DEF Gone
    <2> QED
      BY <2>1, <2>2 DEF h
  <1>7. ASSUME ~btMissed' PROVE BtTableOK'
    <2>1. BtTableOK
      BY <1>7 DEF BtInv
    <2>2. ASSUME NEW d \in Devices
          PROVE  DeviceOK(d, t, btTable', btModem, btCmd.cmd, Gone)
      <3>1. DeviceOK(d, btLines, btTable, btModem, btCmd.cmd, Gone)
        BY <2>1 DEF BtTableOK
      <3> QED
        BY <1>1, <1>7, <3>1, DeviceTake DEF t
    <2> QED
      BY <1>6, <1>7, <2>1, <2>2 DEF BtTableOK, t
  <1> QED
    BY <1>3, <1>4, <1>5, <1>6, <1>7 DEF BtInv, t

\* A line that says nothing of the devices leaves the table as it is.
LEMMA FollowsStill ==
    ASSUME NEW d, NEW h, NEW t, h \notin PairRow(d) \cup PairForget(d), h \notin ConnRow(d) \cup ConnForget(d)
    PROVE  Follows(d, h, t, t)
  BY DEF Follows

\* A code is handled.
LEMMA CodeTaken ==
    ASSUME BtInv, btLines # <<>>, Head(btLines).is \notin Answers, btLines' = Tail(btLines),
           UNCHANGED <<btModem, btCmd, btRc, btApp, btCallback, btResult, btFirst, btReadMode, btGot>>,
           btFault' \in BOOLEAN, btMissed' \in BOOLEAN, btMissed => btMissed', TableOK(btTable'),
           ~btMissed' => /\ Head(btLines) \notin Requery
                         /\ \A d \in Devices : Follows(d, Head(btLines), btTable, btTable')
    PROVE  BtInv'
  <1>1. btLines \in Seq(AnyLine)
    BY DEF BtInv, BtTyped
  <1>2. {"OK", "ERROR", "data", "state"} \subseteq Answers
    BY DEF Answers
  <1>3. Head(btLines).is \notin {"OK", "ERROR", "data", "state"}
    BY <1>2
  <1>4. BtReadOK'
    BY <1>1, <1>3, ReadTail DEF BtInv, BtReadOK
  <1>5. ~btMissed => PromptOK(Tail(btLines), btCmd.cmd, btFirst)
    BY <1>1, <1>3, PromptTail DEF BtInv, BtTableOK
  <1>6. Head(btLines) \notin Doom(btCmd.cmd)
    BY <1>3 DEF Doom
  <1>7. btFirst' \in BOOLEAN /\ btReadMode' \in BOOLEAN
    BY DEF BtInv, BtTyped
  <1> QED
    BY <1>3, <1>4, <1>5, <1>6, <1>7, Taken

LEMMA LateLineKeeps ==
    ASSUME BtInv, LateLine PROVE BtInv'
  <1>1. /\ btLines # <<>> /\ Head(btLines).is = "late" /\ btLines' = Tail(btLines)
        /\ btFault' = FALSE
        /\ UNCHANGED <<btModem, btCmd, btRc, btApp, btCallback, btResult, btFirst, btReadMode,
                       btGot, btTable, btMissed>>
    BY DEF LateLine, LineIs, TakesLine, AnswerVars, btHandlerVars
  <1>2. "late" \notin Answers
    BY DEF Answers
  <1>3. TableOK(btTable) /\ btMissed \in BOOLEAN
    BY DEF BtInv, BtTyped
  <1>4. Head(btLines) \notin Requery
        /\ \A d \in Devices : Follows(d, Head(btLines), btTable, btTable)
    BY <1>1, FollowsStill DEF Requery, PairRow, PairForget, ConnRow, ConnForget
  <1> QED
    BY <1>1, <1>2, <1>3, <1>4, CodeTaken

LEMMA UrcIgnoredKeeps ==
    ASSUME BtInv, UrcIgnored PROVE BtInv'
  <1>1. /\ btLines # <<>> /\ Head(btLines).is \notin Answers /\ btLines' = Tail(btLines)
        /\ btFault' = FALSE /\ ~btCallback
        /\ UNCHANGED <<btModem, btCmd, btRc, btApp, btCallback, btResult, btFirst, btReadMode,
                       btGot, btTable, btMissed>>
    BY DEF UrcIgnored, TakesLine, UrcVars, btCallVars, btHandlerVars
  <1>2. TableOK(btTable) /\ btMissed = TRUE
    BY <1>1 DEF BtInv, BtTyped, BtTableOK
  <1> QED
    BY <1>1, <1>2, CodeTaken

LEMMA NotifiesKeeps ==
    ASSUME BtInv, NEW is, Urc(is), Notifies, is \notin Answers,
           Head(btLines) \notin Requery,
           \A d \in Devices : Head(btLines) \notin PairForget(d) \cup ConnForget(d)
    PROVE  BtInv'
  <1>1. /\ btLines # <<>> /\ Head(btLines).is \notin Answers /\ btLines' = Tail(btLines)
        /\ btFault' = FALSE
        /\ UNCHANGED <<btModem, btCmd, btRc, btApp, btCallback, btResult, btFirst, btReadMode,
                       btGot, btTable, btMissed>>
    BY DEF Urc, LineIs, Notifies, UrcVars, btCallVars, btHandlerVars
  <1>2. TableOK(btTable) /\ btMissed \in BOOLEAN
    BY DEF BtInv, BtTyped
  <1>3. \A d \in Devices : Follows(d, Head(btLines), btTable, btTable)
    BY <1>1, FollowsStill DEF PairRow, ConnRow, Answers
  <1> QED
    BY <1>1, <1>2, <1>3, CodeTaken

\* The table forgets the device that the line names.
LEMMA ForgetsKeeps ==
    ASSUME BtInv, NEW is, Urc(is), is \notin Answers, NEW change, Change(change),
           Forgets(Head(btLines).dev, change), Head(btLines) \notin Requery,
           \/ /\ change = [pairId |-> -1]
              /\ \A d \in Devices : Head(btLines) \notin ConnForget(d)
              /\ Head(btLines) \in PairForget(Head(btLines).dev)
           \/ /\ change = Disconnected
              /\ \A d \in Devices : Head(btLines) \notin PairForget(d)
              /\ Head(btLines) \in ConnForget(Head(btLines).dev)
    PROVE  BtInv'
  <1> DEFINE h == Head(btLines)
             t2 == Updated(btTable, h.dev, change)
  <1>1. /\ btLines # <<>> /\ h.is \notin Answers /\ btLines' = Tail(btLines)
        /\ btFault' \in BOOLEAN /\ btTable' = t2
        /\ UNCHANGED <<btModem, btCmd, btRc, btApp, btCallback, btResult, btFirst, btReadMode,
                       btGot, btMissed>>
    BY DEF Urc, LineIs, Forgets, Looks, Walks, UrcVars, btCallVars, btHandlerVars
  <1>2. TableOK(btTable) /\ btMissed \in BOOLEAN
    BY DEF BtInv, BtTyped
  <1> HIDE DEF t2
  <1>3. /\ TableOK(t2)
        /\ \A e, f : e # h.dev => KnownIn(t2, e, f) = KnownIn(btTable, e, f)
        /\ \A f \in Fields : KnownIn(t2, h.dev, f) =
              IF Where(btTable, h.dev) # {} /\ f \in DOMAIN change THEN change[f]
              ELSE KnownIn(btTable, h.dev, f)
        /\ Where(btTable, h.dev) = {} => \A f \in Fields : KnownIn(btTable, h.dev, f) = -1
    BY <1>2, UpdateKeeps, WhereNot DEF t2
  <1>4. {"pairId", "connId", "profileId"} \subseteq Fields
    BY DEF Fields
  <1>5. ASSUME NEW d \in Devices PROVE Follows(d, h, btTable, t2)
    <2>1. h \notin PairRow(d) /\ h \notin ConnRow(d)
      BY <1>1 DEF PairRow, ConnRow, Answers
    <2>2. CASE d # h.dev
      <3>1. h \notin PairForget(d) /\ h \notin ConnForget(d)
        BY <2>2 DEF PairForget, ConnForget
      <3> QED
        BY <1>3, <2>1, <2>2, <3>1 DEF Follows
    <2>3. CASE d = h.dev /\ change = [pairId |-> -1] /\ h \notin ConnForget(d)
                   /\ h \in PairForget(d)
      <3>1. /\ DOMAIN change = {"pairId"} /\ change["pairId"] = -1
        BY <2>3
      <3>2. /\ KnownIn(t2, d, "pairId") = -1
            /\ KnownIn(t2, d, "connId") = KnownIn(btTable, d, "connId")
            /\ KnownIn(t2, d, "profileId") = KnownIn(btTable, d, "profileId")
        BY <1>3, <1>4, <2>3, <3>1
      <3> QED
        BY <2>1, <2>3, <3>2 DEF Follows
    <2>4. CASE d = h.dev /\ change = Disconnected /\ h \notin PairForget(d) /\ h \in ConnForget(d)
      <3>1. /\ "pairId" \notin DOMAIN change /\ "connId" \in DOMAIN change /\ change["connId"] = -1
        BY <2>4 DEF Disconnected
      <3>2. /\ KnownIn(t2, d, "connId") = -1
            /\ KnownIn(t2, d, "pairId") = KnownIn(btTable, d, "pairId")
        BY <1>3, <1>4, <2>4, <3>1
      <3> QED
        BY <2>1, <2>4, <3>2 DEF Follows
    <2> QED
      BY <2>2, <2>3, <2>4
  <1> QED
    BY <1>1, <1>2, <1>3, <1>5, CodeTaken

LEMMA UrcKinds ==
    /\ \A h : /\ h \in Requery => h.is \in {"QBTPAIRCNF", "QBTCONN", "QBTACPT"} /\ h.id # 0
              /\ \A d : h \in PairForget(d) => h.is = "QBTPAIRCNF" /\ h.id = 0 /\ h.dev = d
              /\ \A d : h \in ConnForget(d) =>
                    /\ h.dev = d /\ h.is \in {"disc", "QBTDISC", "QBTDISCONN", "QBTCONN"}
                    /\ h.is = "QBTCONN" => h.id = 0
    /\ \A h \in AnyLine :
          /\ h.is = "QBTPAIRCNF" /\ h.id = 0 => h \in PairForget(h.dev)
          /\ h.is \in {"disc", "QBTDISC", "QBTDISCONN"} => h \in ConnForget(h.dev)
          /\ h.is = "QBTCONN" /\ h.id = 0 => h \in ConnForget(h.dev)
          /\ h.is \in {"QBTPAIRCNF", "QBTCONN", "QBTACPT"} /\ h.id # 0 => h \in Requery
    /\ Change([pairId |-> -1]) /\ Change(Disconnected)
  BY DEF Requery, PairForget, ConnForget, Change, Disconnected, Fields

LEMMA HeadIs ==
    ASSUME BtInv, NEW is, Urc(is)
    PROVE  Head(btLines) \in AnyLine /\ Head(btLines).is = is
  <1>1. btLines \in Seq(AnyLine) /\ btLines # <<>> /\ Head(btLines).is = is
    BY DEF BtInv, BtTyped, Urc, LineIs
  <1> QED
    BY <1>1, TailLines

LEMMA BTScanKeeps ==
    ASSUME BtInv, OnURCHandler_BTScan PROVE BtInv'
  <1> DEFINE h == Head(btLines)
             c == [devId |-> h.id]
  <1>1. Urc("QBTSCAN") /\ h \in AnyLine /\ h.is = "QBTSCAN"
    BY HeadIs DEF OnURCHandler_BTScan
  <1>2. "QBTSCAN" \notin Answers
    BY DEF Answers
  <1>3. h \notin Requery /\ \A d \in Devices : /\ h \notin PairForget(d) \cup ConnForget(d)
                                               /\ h \notin PairRow(d) \cup ConnRow(d)
    BY <1>1 DEF Requery, PairForget, ConnForget, PairRow, ConnRow
  <1>4. CASE Notifies
    BY <1>1, <1>2, <1>3, <1>4, NotifiesKeeps
  <1>5. CASE /\ btTable' = UpdatedOrNew(btTable, h.dev, c)
             /\ btFault' = FALSE /\ UNCHANGED <<btMissed, UrcVars>>
    <2>1. /\ btLines # <<>> /\ h.is \notin Answers /\ btLines' = Tail(btLines)
          /\ btFault' = FALSE
          /\ UNCHANGED <<btModem, btCmd, btRc, btApp, btCallback, btResult, btFirst, btReadMode,
                         btGot, btMissed>>
      BY <1>1, <1>2, <1>5 DEF Urc, LineIs, UrcVars, btCallVars, btHandlerVars
    <2>2. TableOK(btTable) /\ btMissed \in BOOLEAN
      BY DEF BtInv, BtTyped
    <2>3. h.dev \in Devices \cup {Nobody} /\ h.id \in Nat
      BY <1>1 DEF AnyLine
    <2>4. Change(c) /\ \A f \in {"pairId", "connId", "profileId"} : f \notin DOMAIN c
      BY <2>3 DEF Change, Fields
    <2> HIDE DEF c
    <2>5. /\ TableOK(btTable')
          /\ \A e, f : e # h.dev => KnownIn(btTable', e, f) = KnownIn(btTable, e, f)
          /\ \A f \in {"pairId", "connId", "profileId"} :
                KnownIn(btTable', h.dev, f) = KnownIn(btTable, h.dev, f)
      BY <1>5, <2>2, <2>3, <2>4, UpdateOrNewKeeps
    <2>6. \A d \in Devices : Follows(d, h, btTable, btTable')
      BY <1>3, <2>5 DEF Follows
    <2> QED
      BY <1>3, <2>1, <2>2, <2>5, <2>6, CodeTaken
  <1> QED
    BY <1>4, <1>5 DEF OnURCHandler_BTScan

LEMMA BTPairKeeps ==
    ASSUME BtInv, OnURCHandler_BTPair PROVE BtInv'
  <1>1. /\ Urc("QBTPAIR") /\ Notifies /\ Head(btLines).is = "QBTPAIR"
        /\ "QBTPAIR" \notin Answers
    BY HeadIs DEF OnURCHandler_BTPair, Answers
  <1> QED
    BY <1>1, UrcKinds, NotifiesKeeps

\* The handler queries the state, or misses it.
LEMMA UrcSuccessKeeps ==
    ASSUME BtInv, NEW is \in {"QBTPAIRCNF", "QBTCONN", "QBTACPT"}, UrcSuccess(is)
    PROVE  BtInv'
  <1> DEFINE h == Head(btLines)
             t == Tail(btLines)
  <1>1. /\ btLines # <<>> /\ h.is = is /\ h.id # 0 /\ btCallback
        /\ btCmd # NoCmd => btLines' = t
        /\ btFault' = FALSE
        /\ UNCHANGED <<btTable, btCallback, btApp, btRc, btResult, btFirst, btReadMode, btGot>>
    BY DEF UrcSuccess, LineIs, QueriesState, btCallVars, btHandlerVars
  <1>2. /\ btLines \in Seq(AnyLine) /\ btModem \in AnyModem /\ ModemOK(btModem)
        /\ AnswerOK(btLines, btCmd.cmd) /\ TableOK(btTable)
    BY DEF BtInv, BtTyped
  <1>3. h \in AnyLine /\ t \in Seq(AnyLine) /\ AnswerOK(t, btCmd.cmd)
    BY <1>1, <1>2, TailLines, AnswerTail
  <1>4. h.is \notin Answers /\ h.is # "data"
    BY <1>1 DEF Answers
  <1>5. CASE btCmd # NoCmd
    <2>1. btMissed' = TRUE /\ UNCHANGED <<btCmd, btModem>> /\ btLines' = t
      BY <1>1, <1>5 DEF UrcSuccess, QueriesState
    <2> HIDE DEF h, t
    <2> QED
      BY <1>1, <1>2, <1>4, <2>1, CodeTaken DEF h, t
  <1>6. CASE btCmd = NoCmd
    <2>1. btMissed' = (btMissed \/ ~btFirst) /\ Queries("handler", t)
      BY <1>6 DEF UrcSuccess, QueriesState
    <2>2. HasNo(t, Answers)
      BY <1>3, <1>6, NoAnswers DEF NoCmd
    <2> HIDE DEF h, t
    <2>3. /\ btCmd' = [cmd |-> "QBTSTATE", by |-> "handler"] /\ btModem' = btModem
          /\ btLines' \in Seq(AnyLine) /\ AnswerOK(btLines', "QBTSTATE")
          /\ PromptOK(btLines', "QBTSTATE", TRUE)
      BY <1>2, <1>3, <2>1, <2>2, QuerySent
    <2>4. PICK a : btLines' = t \o a /\ QueryAnswer(a, btModem)
      BY <1>2, <1>3, <2>1, <2>2, QuerySent
    <2>5. btRc # "waiting"
      BY <1>6 DEF BtInv, BtCommandOK, NoCmd
    <2>6. Gone' = Gone
      BY <1>1, <2>5 DEF Gone
    <2>7. BtTyped'
      BY <1>1, <2>1, <2>3 DEF BtInv, BtTyped
    <2>8. BtCommandOK' /\ (btApp = NoApp <=> btRc = "none")'
      BY <1>1, <2>3, <2>5 DEF BtInv, BtCommandOK
    <2>9. BtReadOK'
      BY <1>1, <2>3 DEF BtInv, BtReadOK
    <2>10. ASSUME ~btMissed' PROVE BtTableOK'
      <3>1. ~btMissed /\ btFirst = TRUE /\ btFirst' = TRUE
        BY <1>1, <2>1, <2>10 DEF BtInv, BtTyped
      <3>2. ASSUME NEW d \in Devices PROVE Queryable(d, t, btTable, btModem, Gone)
        <4>1. DeviceOK(d, btLines, btTable, btModem, btCmd.cmd, Gone)
          BY <3>1 DEF BtInv, BtTableOK
        <4>2. h \notin ConnForget(d)
          BY <1>1, UrcKinds
        <4>3. Settled(btLines, ConnForget(d), ConnRow(d)) => Settled(t, ConnForget(d), ConnRow(d))
          BY <1>1, <1>2, <4>2, SettledTail DEF h, t
        <4> QED
          BY <4>1, <4>3 DEF DeviceOK, PairOK, ConnOK, Queryable
      <3>3. \A d \in Devices : DeviceOK(d, t \o a, btTable, btModem, "QBTSTATE", Gone)
        BY <1>2, <1>3, <2>2, <2>4, <3>2, Answered
      <3> QED
        BY <1>1, <2>3, <2>4, <2>6, <3>1, <3>3 DEF BtTableOK
    <2> QED
      BY <1>2, <2>3, <2>7, <2>8, <2>9, <2>10 DEF BtInv
  <1> QED
    BY <1>5, <1>6

LEMMA BTPairCnfKeeps ==
    ASSUME BtInv, OnURCHandler_BTPairCnf PROVE BtInv'
  <1>1. CASE UrcSuccess("QBTPAIRCNF")
    BY <1>1, UrcSuccessKeeps
  <1>2. CASE /\ Urc("QBTPAIRCNF") /\ Head(btLines).id = 0
             /\ Forgets(Head(btLines).dev, [pairId |-> -1])
    <2>1. Head(btLines) \in AnyLine /\ Head(btLines).is = "QBTPAIRCNF" /\ "QBTPAIRCNF" \notin Answers
      BY <1>2, HeadIs DEF Answers
    <2>2. \A d \in Devices : Head(btLines) \notin ConnForget(d)
      BY <2>1, UrcKinds
    <2>3. Head(btLines) \in PairForget(Head(btLines).dev) /\ Head(btLines) \notin Requery
      BY <1>2, <2>1, UrcKinds
    <2> QED
      BY <1>2, <2>1, <2>2, <2>3, UrcKinds, ForgetsKeeps
  <1> QED
    BY <1>1, <1>2 DEF OnURCHandler_BTPairCnf

\* The connection of the device that the line names is over.
LEMMA DisconnectedKeeps ==
    ASSUME BtInv, NEW is \in {"disc", "QBTDISC", "QBTDISCONN", "QBTCONN"}, Urc(is),
           is = "QBTCONN" => Head(btLines).id = 0,
           Forgets(Head(btLines).dev, Disconnected)
    PROVE  BtInv'
  <1>1. Head(btLines) \in AnyLine /\ Head(btLines).is = is /\ is \notin Answers
    BY HeadIs DEF Answers
  <1>2. \A d \in Devices : Head(btLines) \notin PairForget(d)
    BY <1>1, UrcKinds
  <1>3. Head(btLines) \in ConnForget(Head(btLines).dev) /\ Head(btLines) \notin Requery
    BY <1>1, UrcKinds
  <1> QED
    BY <1>1, <1>2, <1>3, UrcKinds, ForgetsKeeps

LEMMA BTConnKeeps ==
    ASSUME BtInv, OnURCHandler_BTConn PROVE BtInv'
  BY UrcSuccessKeeps, DisconnectedKeeps DEF OnURCHandler_BTConn

LEMMA BTConnCnfKeeps ==
    ASSUME BtInv, OnURCHandler_BTConnCnf PROVE BtInv'
  BY UrcSuccessKeeps, DisconnectedKeeps DEF OnURCHandler_BTConnCnf

LEMMA BTDisconnKeeps ==
    ASSUME BtInv, OnURCHandler_BTDisconn PROVE BtInv'
  BY DisconnectedKeeps DEF OnURCHandler_BTDisconn

LEMMA BTIndicationKeeps ==
    ASSUME BtInv, OnURCHandler_BTIndication PROVE BtInv'
  <1>1. ASSUME NEW is \in {"pair", "conn"}, Urc(is), Notifies PROVE BtInv'
    <2>1. Head(btLines).is = is /\ is \notin Answers
      BY <1>1, HeadIs DEF Answers
    <2> QED
      BY <1>1, <2>1, UrcKinds, NotifiesKeeps
  <1>2. CASE Urc("disc") /\ Forgets(Head(btLines).dev, Disconnected)
    BY <1>2, DisconnectedKeeps
  <1>3. CASE /\ Urc("recv")
             /\ btFault' = /\ \A i \in DOMAIN btTable : btTable[i].connId # Head(btLines).id
                           /\ Len(btTable) < BtSize
             /\ UNCHANGED <<btTable, btMissed, UrcVars>>
    <2>1. Head(btLines).is = "recv" /\ "recv" \notin Answers
      BY <1>3, HeadIs DEF Answers
    <2>2. /\ btLines # <<>> /\ btLines' = Tail(btLines)
          /\ UNCHANGED <<btModem, btCmd, btRc, btApp, btCallback, btResult, btFirst, btReadMode,
                         btGot, btTable, btMissed>>
      BY <1>3 DEF Urc, LineIs, UrcVars, btCallVars, btHandlerVars
    <2>3. btFault' \in BOOLEAN
      BY <1>3
    <2>4. TableOK(btTable) /\ btMissed \in BOOLEAN
      BY DEF BtInv, BtTyped
    <2>5. /\ Head(btLines) \notin Requery
          /\ \A d \in Devices : Follows(d, Head(btLines), btTable, btTable)
      BY <2>1, UrcKinds, FollowsStill DEF PairRow, ConnRow
    <2> QED
      BY <2>1, <2>2, <2>3, <2>4, <2>5, CodeTaken
  <1> QED
    BY <1>1, <1>2, <1>3 DEF OnURCHandler_BTIndication

-----------------------------------------------------------------------------
(* Lines of an answer.                                                     *)

LEMMA CommandKinds ==
    ASSUME BtInv
    PROVE  /\ btCmd.cmd = "QSPPREAD" => /\ btApp # NoApp /\ btApp.op = "SPP_Read" /\ btRc = "waiting"
                                        /\ btCmd # NoCmd /\ btCmd.by = "app"
           /\ btCmd # NoCmd /\ btCmd.by # "app" =>
                 btCmd = [cmd |-> "QBTSTATE", by |-> "handler"] /\ btRc # "waiting"
           /\ btCmd # NoCmd /\ btCmd.by = "app" =>
                 btApp # NoApp /\ btRc = "waiting" /\ btCmd.cmd = CommandOf(btApp.op)
           /\ btApp # NoApp /\ btApp.op = "SPP_Read" /\ btCmd # NoCmd /\ btCmd.by = "app" =>
                 btCmd.cmd = "QSPPREAD"
           /\ btCmd.cmd \notin {"none", "QBTSTATE"} => btRc = "waiting" /\ btCmd.by = "app"
           /\ btApp.op = "Unpair" /\ btCmd # NoCmd /\ btCmd.by = "app" => btCmd.cmd = "plain"
  <1>1. \A op : CommandOf(op) = "QSPPREAD" => op = "SPP_Read"
    BY DEF CommandOf
  <1>2. CommandOf("SPP_Read") = "QSPPREAD" /\ CommandOf("Unpair") = "plain"
    BY OpsAre
  <1>3. NoCmd.cmd = "none" /\ NoCmd.by = "none"
    BY DEF NoCmd
  <1> QED
    BY <1>1, <1>2, <1>3 DEF BtInv, BtCommandOK

\* The head of the lines, and what it says.
LEMMA HeadOfLines ==
    ASSUME BtInv, btLines # <<>>
    PROVE  /\ btLines \in Seq(AnyLine) /\ Head(btLines) \in AnyLine
           /\ Tail(btLines) \in Seq(AnyLine) /\ AnswerOK(Tail(btLines), btCmd.cmd)
           /\ Head(btLines).is \in Answers => Head(btLines).is \in AnswersOf(btCmd.cmd)
           /\ Head(btLines).is \in Finals => HasNo(Tail(btLines), Answers)
           /\ Head(btLines).is \in Answers => HasNo(Tail(btLines), {"state"})
  <1>1. btLines \in Seq(AnyLine) /\ AnswerOK(btLines, btCmd.cmd)
    BY DEF BtInv, BtTyped
  <1> QED
    BY <1>1, TailLines, AnswerTail

LEMMA AnswerFollows ==
    ASSUME NEW h, h.is \in Answers, h.is \notin {"paired", "connected"}, NEW t
    PROVE  h \notin Requery /\ \A d : Follows(d, h, t, t)
  <1>1. h \notin Requery /\ \A d : h \notin PairForget(d) \cup ConnForget(d)
    BY UrcKinds DEF Answers
  <1> QED
    BY <1>1, FollowsStill DEF PairRow, ConnRow

LEMMA StoresKeeps ==
    ASSUME BtInv, NEW is \in {"value", "prompt", "profile"}, Stores(is) PROVE BtInv'
  <1> DEFINE h == Head(btLines)
  <1>1. /\ btLines # <<>> /\ h.is = is /\ btLines' = Tail(btLines) /\ btFault' = FALSE
        /\ UNCHANGED <<btModem, btCmd, btRc, btApp, btCallback, btResult, btFirst, btReadMode,
                       btTable, btMissed>>
    BY DEF Stores, LineIs, TakesLine, Goes, AnswerVars
  <1>2. h.is \in Answers /\ h.is \in AnswersOf(btCmd.cmd)
    BY <1>1, HeadOfLines DEF Answers
  <1>3. btCmd.cmd \notin {"QSPPREAD", "none", "QBTSTATE"}
    BY <1>1, <1>2 DEF AnswersOf, Finals
  <1>4. btRc = "waiting"
    BY <1>3, CommandKinds
  <1>5. BtReadOK'
    BY <1>1, <1>3, <1>4 DEF BtInv, BtReadOK
  <1>6. ~btMissed => PromptOK(Tail(btLines), btCmd.cmd, btFirst)
    <2>1. btLines \in Seq(AnyLine) /\ h.is # "state"
      BY <1>1, HeadOfLines
    <2> QED
      BY <1>1, <2>1, PromptTail DEF BtInv, BtTableOK
  <1>7. /\ h \notin Requery /\ h \notin Doom(btCmd.cmd) /\ h.is # "OK"
        /\ \A d \in Devices : Follows(d, h, btTable, btTable)
    BY <1>1, <1>2, AnswerFollows DEF Doom
  <1>8. /\ TableOK(btTable) /\ btMissed \in BOOLEAN /\ btFirst \in BOOLEAN /\ btReadMode \in BOOLEAN
    BY DEF BtInv, BtTyped
  <1> HIDE DEF h
  <1> QED
    BY <1>1, <1>5, <1>6, <1>7, <1>8, Taken DEF h

LEMMA StateChange ==
    ASSUME NEW l \in AnyLine, l.is \in {"state", "paired", "connected"}
    PROVE  /\ l.is = "paired" => Change([pairId |-> l.id])
           /\ \A id \in Int : Change([pairId |-> id])
           /\ \A id \in Int : Change([connId |-> id, profileId |-> ProfileNameToId(l.more)])
  <1>1. l.id \in Nat /\ ProfileNameToId(l.more) \in Int
    BY ProfileKnown DEF AnyLine
  <1> QED
    BY <1>1 DEF Change, Fields

\* UpdateOrNewKeeps of one change.
LEMMA Entering ==
    ASSUME NEW t, TableOK(t), NEW dev \in Devices \cup {Nobody}, NEW c, Change(c)
    PROVE  /\ \A e, f : e # dev => KnownIn(UpdatedOrNew(t, dev, c), e, f) = KnownIn(t, e, f)
           /\ Where(UpdatedOrNew(t, dev, c), dev) # {} =>
                 \A f \in DOMAIN c : KnownIn(UpdatedOrNew(t, dev, c), dev, f) = c[f]
           /\ \A f \in {"pairId", "connId", "profileId"} : f \notin DOMAIN c =>
                 KnownIn(UpdatedOrNew(t, dev, c), dev, f) = KnownIn(t, dev, f)
  BY UpdateOrNewKeeps

LEMMA StateLineKeeps ==
    ASSUME BtInv, StateLine PROVE BtInv'
  <1> DEFINE h == Head(btLines)
             status == CASE h.is = "state" -> h.id [] h.is = "paired" -> 0 [] OTHER -> 1
             id == IF h.is = "state" THEN -1 ELSE h.id
             change == CASE ~btFirst /\ status = 0 -> <<[pairId |-> id]>>
                         [] ~btFirst /\ status = 1 ->
                               <<[connId |-> id, profileId |-> ProfileNameToId(h.more)]>>
                         [] OTHER -> <<>>
             pc == [pairId |-> id]
             cc == [connId |-> id, profileId |-> ProfileNameToId(h.more)]
  <1>1. /\ btLines # <<>> /\ h.is \in {"state", "paired", "connected"}
        /\ btLines' = Tail(btLines) /\ btFault' = FALSE /\ btCmd.cmd = "QBTSTATE"
        /\ btFirst' = FALSE
        /\ btTable' = IF change = <<>> THEN btTable ELSE UpdatedOrNew(btTable, h.dev, change[1])
        /\ btMissed' = (btMissed \/ (change # <<>> /\ Where(btTable', h.dev) = {}))
        /\ UNCHANGED <<btModem, btCmd, btRc, btApp, btCallback, btResult, btReadMode, btGot>>
    BY DEF StateLine, LineIs, TakesLine, Goes, AnswerVars
  <1>2. h \in AnyLine /\ h.dev \in Devices \cup {Nobody} /\ h.id \in Nat /\ id \in Int
        /\ btLines \in Seq(AnyLine)
    BY <1>1, HeadOfLines DEF AnyLine
  <1>3. Change(pc) /\ Change(cc)
    BY <1>1, <1>2, StateChange
  <1>4. /\ btFirst => change = <<>>
        /\ \/ change = <<>> /\ (h.is = "state" \/ btFirst)
           \/ change # <<>> /\ change[1] = pc /\ h.is # "connected" /\ ~btFirst
           \/ change # <<>> /\ change[1] = cc /\ h.is # "paired" /\ ~btFirst
    <2>1. \A x : <<x>> # <<>> /\ <<x>>[1] = x
      <3>1. Len(<<>>) = 0
        OBVIOUS
      <3>2. ASSUME NEW x PROVE <<x>> # <<>>
        <4>1. Len(<<x>>) = 1
          BY Tuples
        <4> QED
          BY <3>1, <4>1
      <3> QED
        BY <3>2, Tuples
    <2> HIDE DEF id, pc, cc
    <2>2. CASE btFirst
      <3>1. change = <<>>
        BY <2>2
      <3> QED
        BY <2>2, <3>1
    <2>3. CASE ~btFirst /\ status = 0
      <3>1. change = <<pc>>
        BY <2>3 DEF pc
      <3>2. h.is # "connected"
        BY <2>3
      <3> HIDE DEF change, status
      <3> QED
        BY <2>1, <2>3, <3>1, <3>2
    <2>4. CASE ~btFirst /\ status = 1
      <3>1. change = <<cc>>
        BY <2>4 DEF cc
      <3>2. h.is # "paired"
        BY <2>4
      <3> HIDE DEF change, status
      <3> QED
        BY <2>1, <2>4, <3>1, <3>2
    <2>5. CASE ~btFirst /\ status # 0 /\ status # 1
      <3>1. change = <<>>
        BY <2>5
      <3>2. h.is = "state"
        BY <1>1, <2>5
      <3> HIDE DEF change, status
      <3> QED
        BY <2>5, <3>1, <3>2
    <2> QED
      BY <2>2, <2>3, <2>4, <2>5
  <1> HIDE DEF change, status
  <1>5. TableOK(btTable) /\ btMissed \in BOOLEAN /\ btFirst \in BOOLEAN /\ btReadMode \in BOOLEAN
    BY DEF BtInv, BtTyped
  <1>6. TableOK(btTable')
    <2>1. CASE change = <<>>
      BY <1>1, <1>5, <2>1
    <2>2. CASE change # <<>>
      <3>1. Change(change[1]) /\ btTable' = UpdatedOrNew(btTable, h.dev, change[1])
        BY <1>1, <1>3, <1>4, <2>2
      <3> QED
        BY <1>2, <1>5, <3>1, UpdateOrNewKeeps
    <2> QED
      BY <2>1, <2>2
  <1>7. BtReadOK'
    BY <1>1 DEF BtInv, BtReadOK
  <1>8. h \notin Requery /\ h \notin Doom("QBTSTATE") /\ h.is # "OK"
    BY <1>1, UrcKinds DEF Doom
  <1>9. ASSUME ~btMissed'
        PROVE  /\ PromptOK(Tail(btLines), "QBTSTATE", FALSE)
               /\ \A d \in Devices : Follows(d, h, btTable, btTable')
    <2>1. PromptOK(btLines, "QBTSTATE", btFirst) /\ ~btMissed
      BY <1>1, <1>5, <1>9 DEF BtInv, BtTableOK
    <2>2. h = btLines[1] /\ 1 \in DOMAIN btLines /\ \A i \in DOMAIN btLines : ~(i < 1)
      <3>1. \A i \in DOMAIN btLines : i \in Nat /\ i >= 1
        BY <1>1, <1>2, TailLines
      <3> QED
        BY <1>1, <1>2, <3>1, TailLines
    <2>3. h.is = "state" => btFirst
      BY <2>1, <2>2 DEF PromptOK
    <2>4. h.is # "state" => ~btFirst
      BY <1>1, <2>1, <2>2 DEF PromptOK
    <2>5. CASE h.is = "state"
      <3>1. change = <<>> /\ btTable' = btTable
        BY <1>1, <1>4, <2>3, <2>5
      <3>2. HasNo(Tail(btLines), {"state"}) /\ h.is \in Answers
        BY <1>1, <2>5, HeadOfLines DEF Answers
      <3>3. PromptOK(Tail(btLines), "QBTSTATE", FALSE)
        BY <3>2 DEF PromptOK, HasNo
      <3> QED
        BY <2>5, <3>1, <3>2, <3>3, AnswerFollows
    <2>6. CASE h.is = "paired"
      <3>1. PromptOK(Tail(btLines), "QBTSTATE", FALSE)
        BY <1>1, <1>2, <1>5, <2>1, <2>4, <2>6, PromptTail
      <3>2. /\ change # <<>> /\ change[1] = pc /\ btTable' = UpdatedOrNew(btTable, h.dev, pc)
            /\ Where(btTable', h.dev) # {} /\ id = h.id
        BY <1>1, <1>4, <1>9, <2>4, <2>6
      <3>3. /\ DOMAIN pc = {"pairId"} /\ pc["pairId"] = h.id
        BY <3>2
      <3> HIDE DEF pc
      <3>4. /\ \A e, f : e # h.dev => KnownIn(btTable', e, f) = KnownIn(btTable, e, f)
            /\ KnownIn(btTable', h.dev, "pairId") = h.id
            /\ \A f \in {"connId", "profileId"} :
                  KnownIn(btTable', h.dev, f) = KnownIn(btTable, h.dev, f)
        <4> HIDE DEF h, id, pc, cc
        <4> DEFINE u == UpdatedOrNew(btTable, h.dev, pc)
        <4>1. /\ \A e, f : e # h.dev => KnownIn(u, e, f) = KnownIn(btTable, e, f)
              /\ Where(u, h.dev) # {} => \A f \in DOMAIN pc : KnownIn(u, h.dev, f) = pc[f]
              /\ \A f \in {"pairId", "connId", "profileId"} :
                    f \notin DOMAIN pc => KnownIn(u, h.dev, f) = KnownIn(btTable, h.dev, f)
          BY <1>2, <1>3, <1>5, Entering
        <4>2. btTable' = u
          BY <3>2
        <4> HIDE DEF u
        <4> QED
          BY <3>2, <3>3, <4>1, <4>2
      <3>5. \A d : /\ h \notin PairForget(d) \cup ConnForget(d) \cup ConnRow(d)
                   /\ h \in PairRow(d) => d = h.dev
                   /\ d = h.dev => h \in PairRow(d)
        BY <1>2, <2>6, UrcKinds DEF PairRow, ConnRow
      <3> QED
        BY <3>1, <3>4, <3>5 DEF Follows
    <2>7. CASE h.is = "connected"
      <3>1. PromptOK(Tail(btLines), "QBTSTATE", FALSE)
        BY <1>1, <1>2, <1>5, <2>1, <2>4, <2>7, PromptTail
      <3>2. /\ change # <<>> /\ change[1] = cc /\ btTable' = UpdatedOrNew(btTable, h.dev, cc)
            /\ Where(btTable', h.dev) # {} /\ id = h.id
        BY <1>1, <1>4, <1>9, <2>4, <2>7
      <3>3. /\ DOMAIN cc = {"connId", "profileId"} /\ cc["connId"] = h.id
            /\ cc["profileId"] = ProfileNameToId(h.more)
        BY <3>2
      <3> HIDE DEF cc
      <3>4. /\ \A e, f : e # h.dev => KnownIn(btTable', e, f) = KnownIn(btTable, e, f)
            /\ KnownIn(btTable', h.dev, "connId") = h.id
            /\ KnownIn(btTable', h.dev, "profileId") = ProfileNameToId(h.more)
            /\ KnownIn(btTable', h.dev, "pairId") = KnownIn(btTable, h.dev, "pairId")
        <4> HIDE DEF h, id, pc, cc
        <4> DEFINE u == UpdatedOrNew(btTable, h.dev, cc)
        <4>1. /\ \A e, f : e # h.dev => KnownIn(u, e, f) = KnownIn(btTable, e, f)
              /\ Where(u, h.dev) # {} => \A f \in DOMAIN cc : KnownIn(u, h.dev, f) = cc[f]
              /\ \A f \in {"pairId", "connId", "profileId"} :
                    f \notin DOMAIN cc => KnownIn(u, h.dev, f) = KnownIn(btTable, h.dev, f)
          BY <1>2, <1>3, <1>5, Entering
        <4>2. btTable' = u
          BY <3>2
        <4> HIDE DEF u
        <4> QED
          BY <3>2, <3>3, <4>1, <4>2
      <3>5. \A d : /\ h \notin PairForget(d) \cup ConnForget(d) \cup PairRow(d)
                   /\ h \in ConnRow(d) => d = h.dev
                   /\ d = h.dev => h \in ConnRow(d)
        BY <1>2, <2>7, UrcKinds DEF PairRow, ConnRow
      <3> QED
        BY <3>1, <3>4, <3>5 DEF Follows
    <2> QED
      BY <1>1, <2>5, <2>6, <2>7
  <1>10. btMissed' \in BOOLEAN /\ (btMissed => btMissed')
    BY <1>1, <1>5
  <1> HIDE DEF h, id, pc, cc
  <1> QED
    BY <1>1, <1>5, <1>6, <1>7, <1>8, <1>9, <1>10, Taken DEF h

-----------------------------------------------------------------------------
(* The end of a command.                                                   *)

LEMMA BtEnded ==
    ASSUME BtInv, btCmd # NoCmd, NEW rc \in {"OK", "ERROR", "timeout"}, EndsWith(rc),
           btLines' \in Seq(AnyLine), HasNo(btLines', Answers),
           UNCHANGED <<btTable, btCallback, btApp, btResult, btModem, btGot>>,
           btFirst' \in BOOLEAN, btReadMode' \in BOOLEAN, btFault' \in BOOLEAN,
           btCmd.by = "app" /\ btApp.op = "SPP_Read" /\ rc = "OK" => ReadTrue(btApp.had, btGot),
           ~btMissed' =>
              /\ btFirst'
              /\ \A d \in Devices : DeviceOK(d, btLines', btTable, btModem, btCmd.cmd, Gone')
    PROVE  BtInv'
  <1>1. /\ btCmd' = NoCmd /\ btRc' = (IF btCmd.by = "app" THEN rc ELSE btRc)
        /\ btMissed' = (\/ btMissed
                        \/ rc # "OK" /\ btCmd.cmd = "QBTSTATE"
                        \/ rc = "timeout" /\ btCmd.by = "app" /\ btApp.op = "Unpair")
    BY DEF EndsWith
  <1>2. btMissed' \in BOOLEAN /\ (btMissed => btMissed')
    BY <1>1 DEF BtInv, BtTyped
  <1>3. BtTyped'
    BY <1>2 DEF BtInv, BtTyped
  <1>4. /\ btCmd.by = "app" => btApp # NoApp /\ btRc = "waiting"
        /\ btCmd.by # "app" => btRc # "waiting"
    BY CommandKinds
  <1>5. BtCommandOK' /\ (btApp = NoApp <=> btRc = "none")'
    BY <1>1, <1>4 DEF BtInv, BtCommandOK
  <1>6. btCmd'.cmd = "none"
    BY <1>1 DEF NoCmd
  <1>7. AnswerOK(btLines, btCmd.cmd)' /\ ModemOK(btModem)'
    BY NoAnswers DEF BtInv
  <1>8. BtReadOK'
    <2>1. BtReadOK
      BY DEF BtInv
    <2>2. btApp # NoApp /\ btApp.op = "SPP_Read" /\ btRc' = "OK" => ReadTrue(btApp.had, btGot)
      BY <1>1, <1>4, <2>1 DEF BtReadOK
    <2> QED
      BY <1>6, <2>1, <2>2 DEF BtReadOK
  <1>9. ASSUME ~btMissed' PROVE BtTableOK'
    <2>1. btCallback' /\ PromptOK(btLines, btCmd.cmd, btFirst)'
      BY <1>2, <1>6, <1>9 DEF BtInv, BtTableOK, PromptOK
    <2>2. HasNo(btLines', {"ERROR"})
      BY DEF HasNo, Answers
    <2>3. \A d \in Devices : DeviceOK(d, btLines, btTable, btModem, btCmd.cmd, Gone)'
      BY <1>9, <2>2, AnswerOver
    <2> QED
      BY <2>1, <2>3 DEF BtTableOK
  <1> QED
    BY <1>3, <1>5, <1>7, <1>8, <1>9 DEF BtInv

LEMMA FinalLineKeeps ==
    ASSUME BtInv, FinalLine PROVE BtInv'
  <1> DEFINE h == Head(btLines)
  <1>1. /\ btCmd # NoCmd /\ btLines # <<>> /\ h.is \in Finals
        /\ btLines' = Tail(btLines) /\ btFault' = FALSE
        /\ UNCHANGED <<btTable, btCallback, btApp, btResult, btModem>>
    BY DEF FinalLine, LineIs, TakesLine, AnswerVars, Finals
  <1>2. /\ btLines \in Seq(AnyLine) /\ h \in AnyLine /\ Tail(btLines) \in Seq(AnyLine)
        /\ HasNo(Tail(btLines), Answers) /\ h.is \in Answers
        /\ h.is \notin {"state", "paired", "connected"}
    BY <1>1, HeadOfLines DEF Answers, Finals
  <1>3. /\ TableOK(btTable) /\ btMissed \in BOOLEAN /\ btFirst \in BOOLEAN /\ btReadMode \in BOOLEAN
        /\ btModem \in AnyModem
    BY DEF BtInv, BtTyped
  <1>4. h \notin Requery /\ \A d \in Devices : Follows(d, h, btTable, btTable)
    BY <1>2, AnswerFollows
  <1>5. ~btMissed => /\ PromptOK(btLines, btCmd.cmd, btFirst)
                     /\ PromptOK(Tail(btLines), btCmd.cmd, btFirst)
    BY <1>1, <1>2, PromptTail DEF BtInv, BtTableOK
  <1>6. h.is = "OK" \/ h.is = "ERROR"
    BY <1>1 DEF Finals
  <1> HIDE DEF h
  <1>7. CASE btReadMode /\ btCmd.cmd = "QSPPREAD"
    <2>1. /\ btReadMode' = FALSE /\ btGot' = <<0>> /\ btFirst' = btFirst
          /\ UNCHANGED <<btCmd, btRc, btMissed>>
      BY <1>7 DEF FinalLine, Goes
    <2>2. btApp.op = "SPP_Read" /\ btRc = "waiting" /\ h \notin Doom(btCmd.cmd)
      BY <1>7, CommandKinds DEF Doom
    <2>3. BtReadOK'
      <3>1. ReadTrue(0, <<0>>)
        BY DEF ReadTrue
      <3>2. ReadOK(Tail(btLines), btApp.had, <<0>>)
        BY <1>2, <3>1, ReadOver
      <3> QED
        BY <1>1, <2>1, <2>2, <3>2 DEF BtInv, BtReadOK
    <2> QED
      BY <1>1, <1>3, <1>4, <1>5, <2>1, <2>2, <2>3, Taken DEF h
  <1>8. CASE ~(btReadMode /\ btCmd.cmd = "QSPPREAD") /\ h.is = "ERROR" /\ btCmd.cmd = "QBTCONND"
    <2>1. /\ UNCHANGED <<btReadMode, btGot, btCmd, btRc, btMissed>>
          /\ btFirst' = (btFirst \/ (h.is = "OK" /\ btCmd.cmd = "QBTSTATE"))
      BY <1>8 DEF FinalLine, Goes, h
    <2>2. btFirst' = btFirst
      BY <1>3, <1>8, <2>1
    <2>3. BtReadOK'
      BY <1>1, <1>8, <2>1 DEF BtInv, BtReadOK
    <2>4. h.is # "OK" /\ h \notin Doom(btCmd.cmd)
      BY <1>8 DEF Doom
    <2> QED
      BY <1>1, <1>3, <1>4, <1>5, <2>1, <2>2, <2>3, <2>4, Taken DEF h
  <1>9. CASE ~(btReadMode /\ btCmd.cmd = "QSPPREAD") /\ ~(h.is = "ERROR" /\ btCmd.cmd = "QBTCONND")
    <2>1. /\ EndsWith(h.is) /\ UNCHANGED <<btReadMode, btGot>>
          /\ btFirst' = (btFirst \/ (h.is = "OK" /\ btCmd.cmd = "QBTSTATE"))
      BY <1>9 DEF FinalLine, h
    <2>2. btFirst' \in BOOLEAN
      BY <2>1
    <2>3. btCmd.by = "app" /\ btApp.op = "SPP_Read" /\ h.is = "OK" => ReadTrue(btApp.had, btGot)
      <3>1. SUFFICES ASSUME btCmd.by = "app", btApp.op = "SPP_Read", h.is = "OK"
                     PROVE  ReadTrue(btApp.had, btGot)
        OBVIOUS
      <3>2. btCmd.cmd = "QSPPREAD"
        BY <1>1, <3>1, CommandKinds DEF NoApp
      <3>3. ReadOK(btLines, btApp.had, btGot)
        BY <3>2 DEF BtInv, BtReadOK
      <3> QED
        BY <1>1, <1>2, <3>1, <3>3, ReadTail DEF h
    <2>4. Gone' = Gone
      <3>1. CASE btCmd.by # "app"
        <4>1. btRc' = btRc /\ btRc # "waiting"
          BY <1>1, <2>1, <3>1, CommandKinds DEF EndsWith
        <4> QED
          BY <1>1, <4>1 DEF Gone
      <3>2. CASE btCmd.by = "app"
        <4>1. btRc' = h.is /\ btRc = "waiting" /\ btApp # NoApp
          BY <1>1, <2>1, <3>2, CommandKinds DEF EndsWith
        <4>2. (\E i \in DOMAIN btLines : btLines[i].is = "OK") <=> h.is = "OK"
          <5>1. 1 \in DOMAIN btLines /\ btLines[1] = h
            BY <1>1, <1>2, TailLines DEF h
          <5>2. ASSUME NEW i \in DOMAIN btLines, btLines[i].is = "OK" PROVE h.is = "OK"
            <6>1. i = 1 \/ (i - 1 \in DOMAIN Tail(btLines) /\ Tail(btLines)[i - 1] = btLines[i])
              BY <1>1, <1>2, TailLines
            <6>2. \A j \in DOMAIN Tail(btLines) : Tail(btLines)[j].is # "OK"
              BY <1>2 DEF HasNo, Answers
            <6> QED
              BY <5>1, <5>2, <6>1, <6>2
          <5> QED
            BY <5>1, <5>2
        <4> QED
          BY <1>1, <1>6, <4>1, <4>2 DEF Gone
      <3> QED
        BY <3>1, <3>2
    <2>5. ASSUME ~btMissed'
          PROVE  /\ btFirst'
                 /\ \A d \in Devices : DeviceOK(d, btLines', btTable, btModem, btCmd.cmd, Gone')
      <3>1. ~btMissed /\ ~(h.is # "OK" /\ btCmd.cmd = "QBTSTATE")
        BY <2>1, <2>5 DEF EndsWith
      <3>2. btFirst'
        <4>1. CASE btCmd.cmd = "QBTSTATE"
          BY <2>1, <3>1, <4>1
        <4>2. CASE btCmd.cmd # "QBTSTATE"
          BY <1>5, <2>1, <3>1, <4>2 DEF PromptOK
        <4> QED
          BY <4>1, <4>2
      <3>3. h \notin Requery \cup Doom(btCmd.cmd)
        BY <1>4, <3>1 DEF Doom
      <3>4. ASSUME NEW d \in Devices
            PROVE  DeviceOK(d, btLines', btTable, btModem, btCmd.cmd, Gone')
        <4>1. DeviceOK(d, btLines, btTable, btModem, btCmd.cmd, Gone)
          BY <3>1 DEF BtInv, BtTableOK
        <4>2. DeviceOK(d, Tail(btLines), btTable, btModem, btCmd.cmd, Gone)
          BY <1>1, <1>2, <1>3, <1>4, <3>3, <4>1, DeviceTake DEF h
        <4> QED
          BY <1>1, <2>4, <4>2
      <3> QED
        BY <3>2, <3>4
    <2>6. h.is \in {"OK", "ERROR", "timeout"} /\ btReadMode' \in BOOLEAN /\ btFault' \in BOOLEAN
      BY <1>1, <1>3, <1>6, <2>1
    <2>7. btLines' \in Seq(AnyLine) /\ HasNo(btLines', Answers)
      BY <1>1, <1>2
    <2>8. UNCHANGED <<btTable, btCallback, btApp, btResult, btModem, btGot>>
      BY <1>1, <2>1
    <2> QED
      BY <1>1, <2>1, <2>2, <2>3, <2>5, <2>6, <2>7, <2>8, BtEnded
  <1> QED
    BY <1>6, <1>7, <1>8, <1>9

\* The lines left of the answer to a command other than a query.
LEMMA LateDevices ==
    ASSUME NEW d, NEW ls \in Seq(AnyLine), NEW t, NEW m, NEW cmd, NEW gone,
           AnswerOK(ls, cmd), cmd # "QBTSTATE", DeviceOK(d, ls, t, m, cmd, gone)
    PROVE  DeviceOK(d, Late(ls), t, m, cmd, gone)
  <1>1. {"paired", "connected"} \cap AnswersOf(cmd) = {} /\ {"paired", "connected"} \subseteq Answers
    BY DEF AnswersOf, Answers, Finals
  <1>2. HasNo(ls, {"paired", "connected"})
    BY <1>1 DEF HasNo, AnswerOK
  <1> QED
    BY <1>2, LateKeeps

LEMMA ReadLineKeeps ==
    ASSUME BtInv, ReadLine PROVE BtInv'
  <1> DEFINE h == Head(btLines)
  <1>1. /\ btCmd.cmd = "QSPPREAD" /\ btLines # <<>> /\ h.is \in {"read", "data"}
        /\ btFault' = FALSE
        /\ UNCHANGED <<btTable, btFirst, btCallback, btApp, btResult, btModem>>
    BY DEF ReadLine, LineIs, AnswerVars
  <1>2. /\ btLines \in Seq(AnyLine) /\ h \in AnyLine /\ Tail(btLines) \in Seq(AnyLine)
        /\ AnswerOK(Tail(btLines), btCmd.cmd) /\ h.is \in Answers
        /\ h.is \notin {"state", "paired", "connected", "OK", "ERROR"}
    BY <1>1, HeadOfLines DEF Answers
  <1>3. /\ TableOK(btTable) /\ btMissed \in BOOLEAN /\ btFirst \in BOOLEAN /\ btReadMode \in BOOLEAN
        /\ btModem \in AnyModem
    BY DEF BtInv, BtTyped
  <1>4. h \notin Requery \cup Doom(btCmd.cmd) /\ \A d \in Devices : Follows(d, h, btTable, btTable)
    BY <1>1, <1>2, AnswerFollows DEF Doom
  <1>5. ~btMissed => /\ PromptOK(btLines, btCmd.cmd, btFirst)
                     /\ PromptOK(Tail(btLines), btCmd.cmd, btFirst)
    BY <1>1, <1>2, PromptTail DEF BtInv, BtTableOK
  <1>6. /\ btApp # NoApp /\ btApp.op = "SPP_Read" /\ btRc = "waiting"
        /\ btCmd # NoCmd /\ btCmd.by = "app"
    BY <1>1, CommandKinds
  <1>7. ReadOK(btLines, btApp.had, btGot)
    BY <1>1 DEF BtInv, BtReadOK
  <1>8. /\ h.is = "read" => h.id = btApp.had /\ ReadOK(Tail(btLines), btApp.had, <<0>>)
        /\ h.is = "data" => ReadOK(Tail(btLines), btApp.had, <<btApp.had>>)
        /\ h.is = "read" => ReadOK(Tail(btLines), btApp.had, btGot)
    BY <1>1, <1>2, <1>7, ReadTail
  <1> HIDE DEF h
  <1>9. CASE btReadMode
    <2>1. /\ btGot' = <<IF h.is = "data" THEN btApp.had ELSE 0>>
          /\ btReadMode' = FALSE /\ btLines' = Tail(btLines)
          /\ UNCHANGED <<btCmd, btRc, btMissed>>
      BY <1>9 DEF ReadLine, Goes, h
    <2>2. ReadOK(Tail(btLines), btApp.had, btGot')
      <3>1. CASE h.is = "data"
        BY <1>8, <2>1, <3>1
      <3>2. CASE h.is # "data"
        BY <1>1, <1>8, <2>1, <3>2
      <3> QED
        BY <3>1, <3>2
    <2>3. BtReadOK'
      BY <1>1, <1>6, <2>1, <2>2 DEF BtInv, BtReadOK
    <2> QED
      BY <1>1, <1>2, <1>3, <1>4, <1>5, <2>1, <2>3, Taken DEF h
  <1>10. CASE ~btReadMode /\ h.is = "read"
    <2>1. /\ btReadMode' = (h.id > 0) /\ btLines' = Tail(btLines)
          /\ UNCHANGED <<btCmd, btRc, btMissed, btGot>>
      BY <1>10 DEF ReadLine, Goes, h
    <2>2. BtReadOK'
      BY <1>1, <1>6, <1>8, <1>10, <2>1 DEF BtInv, BtReadOK
    <2>3. btReadMode' \in BOOLEAN
      BY <2>1
    <2> QED
      BY <1>1, <1>2, <1>3, <1>4, <1>5, <2>1, <2>2, <2>3, Taken DEF h
  <1>11. CASE ~btReadMode /\ h.is = "data"
    <2>1. EndsWith("ERROR") /\ btLines' = Late(Tail(btLines)) /\ UNCHANGED <<btReadMode, btGot>>
      BY <1>11 DEF ReadLine, h
    <2>2. btLines' \in Seq(AnyLine) /\ HasNo(btLines', Answers)
      BY <1>2, <2>1, LateIs
    <2>3. Gone = {} /\ Gone' = {}
      BY <1>1, <1>6 DEF Gone
    <2>4. ASSUME ~btMissed'
          PROVE  /\ btFirst'
                 /\ \A d \in Devices : DeviceOK(d, btLines', btTable, btModem, btCmd.cmd, Gone')
      <3>1. ~btMissed
        BY <2>1, <2>4 DEF EndsWith
      <3>2. btFirst'
        BY <1>1, <1>5, <3>1 DEF PromptOK
      <3>3. ASSUME NEW d \in Devices
            PROVE  DeviceOK(d, btLines', btTable, btModem, btCmd.cmd, Gone')
        <4>1. DeviceOK(d, btLines, btTable, btModem, btCmd.cmd, Gone)
          BY <3>1 DEF BtInv, BtTableOK
        <4>2. DeviceOK(d, Tail(btLines), btTable, btModem, btCmd.cmd, Gone)
          BY <1>1, <1>2, <1>3, <1>4, <4>1, DeviceTake DEF h
        <4>3. DeviceOK(d, Late(Tail(btLines)), btTable, btModem, btCmd.cmd, Gone)
          BY <1>1, <1>2, <4>2, LateDevices
        <4> QED
          BY <2>1, <2>3, <4>3
      <3> QED
        BY <3>2, <3>3
    <2>5. UNCHANGED <<btTable, btCallback, btApp, btResult, btModem, btGot>>
      BY <1>1, <2>1
    <2>6. btFirst' \in BOOLEAN /\ btReadMode' \in BOOLEAN /\ btFault' \in BOOLEAN
      BY <1>1, <1>3, <2>1
    <2> QED
      BY <1>6, <2>1, <2>2, <2>4, <2>5, <2>6, BtEnded
  <1> QED
    BY <1>1, <1>3, <1>9, <1>10, <1>11

LEMMA TimeoutKeeps ==
    ASSUME BtInv, BtCommandTimesOut PROVE BtInv'
  <1>1. /\ btCmd # NoCmd /\ EndsWith("timeout") /\ btFault' = FALSE /\ btLines' = Late(btLines)
        /\ UNCHANGED <<btTable, btFirst, btReadMode, btGot, btCallback, btApp, btResult, btModem>>
    BY DEF BtCommandTimesOut, btHandlerVars
  <1>2. /\ btLines \in Seq(AnyLine) /\ AnswerOK(btLines, btCmd.cmd)
        /\ btFirst \in BOOLEAN /\ btReadMode \in BOOLEAN
    BY DEF BtInv, BtTyped
  <1>3. btLines' \in Seq(AnyLine) /\ HasNo(btLines', Answers)
    BY <1>1, <1>2, LateIs
  <1>4. ASSUME ~btMissed'
        PROVE  /\ btFirst'
               /\ \A d \in Devices : DeviceOK(d, btLines', btTable, btModem, btCmd.cmd, Gone')
    <2>1. ~btMissed /\ btCmd.cmd # "QBTSTATE" /\ ~(btCmd.by = "app" /\ btApp.op = "Unpair")
      BY <1>1, <1>4 DEF EndsWith
    <2>2. btCmd.by = "app"
      BY <1>1, <2>1, CommandKinds
    <2>3. Gone = {} /\ Gone' = {}
      BY <1>1, <2>1, <2>2 DEF Gone
    <2>4. btFirst'
      BY <1>1, <2>1 DEF BtInv, BtTableOK, PromptOK
    <2>5. ASSUME NEW d \in Devices
          PROVE  DeviceOK(d, btLines', btTable, btModem, btCmd.cmd, Gone')
      <3>1. DeviceOK(d, btLines, btTable, btModem, btCmd.cmd, Gone)
        BY <2>1 DEF BtInv, BtTableOK
      <3>2. DeviceOK(d, Late(btLines), btTable, btModem, btCmd.cmd, Gone)
        BY <1>2, <2>1, <3>1, LateDevices
      <3> QED
        BY <1>1, <2>3, <3>2
    <2> QED
      BY <2>4, <2>5
  <1>5. btFirst' \in BOOLEAN /\ btReadMode' \in BOOLEAN /\ btFault' \in BOOLEAN
    BY <1>1, <1>2
  <1>6. "timeout" \in {"OK", "ERROR", "timeout"} /\ "timeout" # "OK"
    OBVIOUS
  <1> QED
    BY <1>1, <1>3, <1>4, <1>5, <1>6, BtEnded

LEMMA ResetsKeeps ==
    ASSUME BtInv, Resets PROVE BtInv'
  <1>1. /\ btTable' = <<>> /\ btCallback' = FALSE
        /\ btApp' = NoApp /\ btRc' = "none" /\ btResult' = NoResult
        /\ btCmd' = NoCmd /\ btLines' = <<>>
        /\ btModem' = [btModem EXCEPT !.conn = [d \in Devices |-> 0], !.pairing = {},
                                      !.connecting = {}, !.asking = {}, !.found = <<>>,
                                      !.scanning = FALSE]
        /\ btFirst' = TRUE /\ btReadMode' = FALSE /\ btGot' = Nothing
        /\ btMissed' = TRUE /\ btFault' = FALSE
    BY DEF Resets
  <1>2. btModem \in AnyModem /\ ModemOK(btModem)
    BY DEF BtInv, BtTyped
  <1>3. btModem' \in AnyModem /\ ModemOK(btModem)'
    <2> DEFINE m == [paired |-> btModem.paired, conn |-> [d \in Devices |-> 0],
                     profile |-> btModem.profile, pairing |-> {}, connecting |-> {},
                     asking |-> {}, found |-> <<>>, scanning |-> FALSE]
    <2>0. btModem' = m
      BY <1>1, <1>2 DEF AnyModem
    <2>1. btModem' \in AnyModem
      <3>1. <<>> \in Seq(Devices) /\ [d \in Devices |-> 0] \in [Devices -> Nat]
        OBVIOUS
      <3>2. btModem.paired \in [Devices -> Nat] /\ btModem.profile \in [Devices -> ModemProfiles]
        BY <1>2 DEF AnyModem
      <3> QED
        BY <2>0, <3>1, <3>2 DEF AnyModem
    <2>2. /\ btModem'.paired = btModem.paired /\ btModem'.pairing = {} /\ btModem'.asking = {}
      BY <2>0
    <2> QED
      BY <1>2, <2>1, <2>2 DEF ModemOK
  <1>4. <<>> \in Seq(AnyLine) /\ DOMAIN <<>> = {}
    OBVIOUS
  <1>5. BtTyped'
    BY <1>1, <1>3, <1>4, EmptyTable DEF BtTyped
  <1>6. BtCommandOK' /\ AnswerOK(btLines, btCmd.cmd)' /\ (btApp = NoApp <=> btRc = "none")'
    BY <1>1, <1>4 DEF BtCommandOK, AnswerOK
  <1>7. BtReadOK'
    BY <1>1 DEF BtReadOK, NoCmd, NoResult
  <1> QED
    BY <1>1, <1>3, <1>5, <1>6, <1>7 DEF BtInv

LEMMA ReturnsKeeps ==
    ASSUME BtInv, Returns PROVE BtInv'
  <1>1. /\ btApp # NoApp /\ btRc # "waiting"
        /\ btApp' = NoApp /\ btRc' = "none" /\ btGot' = Nothing
        /\ btResult' = [op |-> btApp.op, had |-> btApp.had, out |-> btGot,
                        rc |-> IF btApp.op = "Initialize" THEN "OK" ELSE btRc]
        /\ UNCHANGED <<btCallback, btCmd, btLines, btModem, btFirst, btReadMode, btMissed>>
    BY DEF Returns
  <1>2. \/ /\ btApp.op = "Unpair" /\ btRc = "OK"
           /\ btTable' = Updated(btTable, btApp.dev, Forgotten) /\ btFault' = Walks(btApp.dev)
        \/ /\ ~(btApp.op = "Unpair" /\ btRc = "OK")
           /\ btTable' = btTable /\ btFault' = FALSE
    BY DEF Returns, Looks
  <1>3. TableOK(btTable) /\ btApp.dev \in Devices \cup {Nobody} /\ btApp.op \in Ops
    BY <1>1 DEF BtInv, BtTyped
  <1>4. Change(Forgotten) /\ DOMAIN Forgotten = {"pairId", "connId", "profileId"}
        /\ Forgotten["pairId"] = -1 /\ Forgotten["connId"] = -1
    BY DEF Change, Forgotten, Fields
  <1>5. BtTyped'
    <2>1. TableOK(Updated(btTable, btApp.dev, Forgotten))
      BY <1>3, <1>4, UpdateKeeps
    <2>2. Walks(btApp.dev) \in BOOLEAN
      BY DEF Walks
    <2>3. TableOK(btTable') /\ btFault' \in BOOLEAN
      BY <1>2, <1>3, <2>1, <2>2
    <2> QED
      BY <1>1, <2>3 DEF BtInv, BtTyped
  <1>6. btCmd.cmd # "QSPPREAD"
    BY <1>1, CommandKinds
  <1>7. BtCommandOK' /\ AnswerOK(btLines, btCmd.cmd)' /\ ModemOK(btModem)'
        /\ (btApp = NoApp <=> btRc = "none")'
    BY <1>1 DEF BtInv, BtCommandOK
  <1>8. BtReadOK'
    <2>1. btResult'.op = "SPP_Read" /\ btResult'.rc = "OK" => ReadTrue(btResult'.had, btResult'.out)
      BY <1>1 DEF BtInv, BtReadOK
    <2> QED
      BY <1>1, <1>6, <2>1 DEF BtReadOK
  <1>9. ASSUME ~btMissed' PROVE BtTableOK'
    <2>1. BtTableOK
      BY <1>1, <1>9 DEF BtInv
    <2>2. Gone' = {}
      BY <1>1 DEF Gone
    <2>3. ASSUME NEW d \in Devices
          PROVE  DeviceOK(d, btLines, btTable', btModem, btCmd.cmd, {})
      <3>1. DeviceOK(d, btLines, btTable, btModem, btCmd.cmd, Gone)
        BY <2>1 DEF BtTableOK
      <3>2. CASE d \in Gone
        <4>1. btApp.op = "Unpair" /\ btApp.dev = d /\ btRc = "OK"
          BY <1>1, <3>2 DEF Gone
        <4>2. btModem.paired[d] = 0 /\ btModem.conn[d] = 0 /\ Free(btLines, ConnRow(d))
          BY <3>1, <3>2 DEF DeviceOK, PairOK, ConnOK
        <4>3. KnownIn(btTable', d, "pairId") = -1 /\ KnownIn(btTable', d, "connId") = -1
          <5>1. btTable' = Updated(btTable, d, Forgotten)
            BY <1>2, <4>1
          <5>2. ASSUME NEW f \in {"pairId", "connId"}
                PROVE  KnownIn(Updated(btTable, d, Forgotten), d, f) = -1
            <6>1. KnownIn(Updated(btTable, d, Forgotten), d, f) =
                     IF Where(btTable, d) # {} /\ f \in DOMAIN Forgotten
                     THEN Forgotten[f] ELSE KnownIn(btTable, d, f)
              BY <1>3, <1>4, UpdateKeeps DEF Fields
            <6>2. f \in DOMAIN Forgotten /\ Forgotten[f] = -1
              BY <1>4
            <6> QED
              BY <6>1, <6>2, WhereNot
          <5> QED
            BY <5>1, <5>2
        <4> QED
          BY <3>1, <4>2, <4>3 DEF DeviceOK, PairOK, ConnOK
      <3>3. CASE d \notin Gone
        <4>1. btTable' = btTable \/ (btApp.dev # d /\ btTable' = Updated(btTable, btApp.dev, Forgotten))
          BY <1>1, <1>2, <3>3 DEF Gone
        <4>2. \A f : KnownIn(btTable', d, f) = KnownIn(btTable, d, f)
          BY <1>3, <1>4, <4>1, UpdateKeeps
        <4> QED
          BY <3>1, <3>3, <4>2 DEF DeviceOK, PairOK, ConnOK
      <3> QED
        BY <3>2, <3>3
    <2> QED
      BY <1>1, <2>1, <2>2, <2>3 DEF BtTableOK
  <1> QED
    BY <1>1, <1>5, <1>7, <1>8, <1>9 DEF BtInv

LEMMA StutterKeeps ==
    ASSUME BtInv, UNCHANGED btVars PROVE BtInv'
  <1>1. /\ Gone' = Gone
        /\ UNCHANGED <<btTable, btCallback, btApp, btRc, btResult, btCmd, btLines, btModem,
                       btFirst, btReadMode, btGot, btMissed, btFault, btBegun>>
    BY DEF btVars, Gone
  <1> QED
    BY <1>1 DEF BtInv, BtTyped, BtCommandOK, BtReadOK, BtTableOK

-----------------------------------------------------------------------------
(* The theorems.                                                           *)

LEMMA CallsKeep ==
    ASSUME BtInv, Calls PROVE BtInv'
  <1> USE DEF Calls
  <1>1. CASE RIL_BT_Initialize \/ RIL_BT_StartScan \/ Scans \/ RIL_BT_StopScan \/ Returns
    BY <1>1, InitializeKeeps, StartScanKeeps, ScansKeeps, StopScanKeeps, ReturnsKeeps
  <1>2. CASE RIL_BT_Switch \/ RIL_BT_SetName \/ RIL_BT_SetVisble
    BY <1>2, SetsKeeps DEF RIL_BT_Switch, RIL_BT_SetName, RIL_BT_SetVisble
  <1>3. CASE \/ RIL_BT_GetPwrState \/ RIL_BT_GetName \/ RIL_BT_GetLocalAddr \/ RIL_BT_GetVisble
    BY <1>3, GetsKeeps DEF RIL_BT_GetPwrState, RIL_BT_GetName, RIL_BT_GetLocalAddr,
                           RIL_BT_GetVisble
  <1>4. CASE \E accept \in BOOLEAN : RIL_BT_PairConfirm(accept) \/ RIL_BT_ConnAccept(accept)
    BY <1>4, PairConfirmKeeps, ConnAcceptKeeps
  <1>5. ASSUME NEW dev \in Devices,
               \/ RIL_BT_PairReq(dev) \/ RIL_BT_Unpair(dev) \/ RIL_BT_GetSupportedProfile(dev)
               \/ RIL_BT_ConnReq(dev) \/ RIL_BT_SPP_DirectConn(dev) \/ RIL_BT_Disconnect(dev)
               \/ RIL_BT_SPP_Send(dev) \/ \E had \in 0 .. 1 : RIL_BT_SPP_Read(dev, had)
        PROVE  BtInv'
    BY <1>5, PairReqKeeps, UnpairKeeps, GetSupportedProfileKeeps, ConnReqKeeps, DirectConnKeeps,
       DisconnectKeeps, SendKeeps, ReadKeeps
  <1> QED
    BY <1>1, <1>2, <1>3, <1>4, <1>5

LEMMA LinesKeep ==
    ASSUME BtInv, Lines PROVE BtInv'
  <1> USE DEF Lines
  <1>1. CASE FinalLine \/ StateLine \/ ReadLine \/ LateLine
    BY <1>1, FinalLineKeeps, StateLineKeeps, ReadLineKeeps, LateLineKeeps
  <1>2. CASE ValueLine \/ PromptLine \/ ProfileLine
    BY <1>2, StoresKeeps DEF ValueLine, PromptLine, ProfileLine
  <1>3. CASE UrcIgnored \/ OnURCHandler_BTScan \/ OnURCHandler_BTPair \/ OnURCHandler_BTPairCnf
    BY <1>3, UrcIgnoredKeeps, BTScanKeeps, BTPairKeeps, BTPairCnfKeeps
  <1>4. CASE \/ OnURCHandler_BTConn \/ OnURCHandler_BTConnCnf \/ OnURCHandler_BTDisconn
             \/ OnURCHandler_BTIndication
    BY <1>4, BTConnKeeps, BTConnCnfKeeps, BTDisconnKeeps, BTIndicationKeeps
  <1> QED
    BY <1>1, <1>2, <1>3, <1>4

LEMMA BtStepKeeps ==
    ASSUME BtInv, [BtNext]_btVars PROVE BtInv'
  BY CallsKeep, LinesKeep, TimeoutKeeps, ModemKeeps, ResetsKeeps, StutterKeeps DEF BtNext

LEMMA BtIdleIs ==
    ASSUME NEW t, NEW callback, NEW missed, NEW m, BtIdle(t, callback, missed, m)
    PROVE  /\ btTable = t /\ btCallback = callback /\ btMissed = missed /\ btModem = m
           /\ btApp = NoApp /\ btRc = "none" /\ btResult = NoResult
           /\ btCmd = NoCmd /\ btLines = <<>>
           /\ btFirst = TRUE /\ btReadMode = FALSE /\ btGot = Nothing /\ btFault = FALSE
  BY DEF BtIdle

\* At most one device is paired, and at most that one is connected.
LEMMA ModemWithOK ==
    ASSUME NEW d \in Devices \cup {Nobody}, NEW e \in {d, Nobody}
    PROVE  LET m == ModemWith(OneId(d), OneId(e))
           IN  /\ m \in AnyModem /\ ModemOK(m)
               /\ m.paired = OneId(d) /\ m.conn = OneId(e)
               /\ m.profile = [f \in Devices |-> <<"SPP">>]
  <1> DEFINE m == ModemWith(OneId(d), OneId(e))
  <1>1. m = [paired |-> OneId(d), conn |-> OneId(e),
             profile |-> [f \in Devices |-> <<"SPP">>],
             pairing |-> {}, connecting |-> {}, asking |-> {}, found |-> <<>>,
             scanning |-> FALSE]
    BY DEF ModemWith
  <1>2. \A x : OneId(x) \in [Devices -> Nat]
    BY DEF OneId
  <1>3. [f \in Devices |-> <<"SPP">>] \in [Devices -> ModemProfiles] /\ <<>> \in Seq(Devices)
    BY NamesAre DEF ModemProfiles, Profiles
  <1>4. m \in AnyModem
    BY <1>1, <1>2, <1>3 DEF AnyModem
  <1>5. ModemOK(m)
    <2>1. m.paired = OneId(d) /\ m.pairing = {} /\ m.asking = {}
      BY <1>1
    <2>2. \A f \in Devices : OneId(d)[f] # 0 => f = d
      BY DEF OneId
    <2> HIDE DEF m
    <2> QED
      BY <2>1, <2>2 DEF ModemOK
  <1> QED
    BY <1>1, <1>4, <1>5

LEMMA IdleKeeps ==
    ASSUME NEW t, NEW callback \in BOOLEAN, NEW missed \in BOOLEAN, NEW m,
           BtIdle(t, callback, missed, m), TableOK(t), m \in AnyModem, ModemOK(m),
           ~missed => /\ callback
                      /\ \A d \in Devices : DeviceOK(d, <<>>, t, m, "none", {})
    PROVE  BtInv
  <1>1. /\ btTable = t /\ btCallback = callback /\ btMissed = missed /\ btModem = m
        /\ btApp = NoApp /\ btRc = "none" /\ btResult = NoResult
        /\ btCmd = NoCmd /\ btLines = <<>>
        /\ btFirst = TRUE /\ btReadMode = FALSE /\ btGot = Nothing /\ btFault = FALSE
    BY BtIdleIs
  <1>2. <<>> \in Seq(AnyLine) /\ DOMAIN <<>> = {}
    OBVIOUS
  <1>3. BtTyped
    BY <1>1, <1>2 DEF BtTyped
  <1>4. BtCommandOK /\ AnswerOK(btLines, btCmd.cmd) /\ (btApp = NoApp <=> btRc = "none")
    BY <1>1, <1>2 DEF BtCommandOK, AnswerOK
  <1>5. BtReadOK
    BY <1>1 DEF BtReadOK, NoCmd, NoResult
  <1>6. Gone = {} /\ btCmd.cmd = "none" /\ PromptOK(btLines, btCmd.cmd, btFirst)
    BY <1>1 DEF Gone, NoCmd, PromptOK
  <1>7. ~btMissed => BtTableOK
    BY <1>1, <1>6 DEF BtTableOK
  <1> QED
    BY <1>1, <1>3, <1>4, <1>5, <1>7 DEF BtInv

LEMMA BtInitially ==
    BtInit \/ BtConnected => BtInv
  <1>1. ASSUME NEW d \in Devices \cup {Nobody},
               BtIdle(<<>>, FALSE, TRUE, ModemWith(OneId(d), OneId(Nobody)))
        PROVE  BtInv
    <2> DEFINE m == ModemWith(OneId(d), OneId(Nobody))
    <2>1. m \in AnyModem /\ ModemOK(m)
      BY ModemWithOK
    <2> HIDE DEF m
    <2> QED
      BY <1>1, <2>1, EmptyTable, IdleKeeps DEF m
  <1>2. ASSUME NEW d \in Devices,
               BtIdle(<<[dev |-> d, devId |-> 0, pairId |-> 1, connId |-> 1, profileId |-> 0]>>,
                      TRUE, FALSE, ModemWith(OneId(d), OneId(d)))
        PROVE  BtInv
    <2> DEFINE m == ModemWith(OneId(d), OneId(d))
               e == [dev |-> d, devId |-> 0, pairId |-> 1, connId |-> 1, profileId |-> 0]
               t == <<e>>
    <2>1. /\ m \in AnyModem /\ ModemOK(m) /\ m.paired = OneId(d) /\ m.conn = OneId(d)
          /\ m.profile = [f \in Devices |-> <<"SPP">>]
      BY ModemWithOK
    <2> HIDE DEF m
    <2>2. e \in Entry /\ e.dev = d /\ e.pairId = 1 /\ e.connId = 1 /\ e.profileId = 0
      BY DEF Entry
    <2> HIDE DEF e
    <2>3. t \in Seq(Entry) /\ DOMAIN t = {1} /\ t[1] = e /\ Len(t) = 1
      BY <2>2
    <2> HIDE DEF t
    <2>4. TableOK(t)
      BY <2>3, BtAssumption DEF TableOK, NoDeviceTwice
    <2>5. ASSUME NEW f \in Devices PROVE DeviceOK(f, <<>>, t, m, "none", {})
      <3>1. DOMAIN <<>> = {} /\ (\A G : Free(<<>>, G))
        BY DEF Free
      <3>2. m.profile[f] = <<"SPP">> /\ m.paired[f] = (IF f = d THEN 1 ELSE 0)
            /\ m.conn[f] = (IF f = d THEN 1 ELSE 0)
        BY <2>1 DEF OneId
      <3>3. CASE f = d
        <4>1. 1 \in Where(t, f)
          BY <2>2, <2>3, <3>3 DEF Where
        <4>2. KnownIn(t, f, "pairId") = 1 /\ KnownIn(t, f, "connId") = 1
              /\ KnownIn(t, f, "profileId") = 0
          BY <2>2, <2>3, <2>4, <4>1, WhereIs
        <4>3. ProfileRight(<<"SPP">>, 0)
          BY PfName DEF ProfileRight
        <4> QED
          BY <3>1, <3>2, <3>3, <4>2, <4>3 DEF DeviceOK, PairOK, ConnOK
      <3>4. CASE f # d
        <4>1. Where(t, f) = {}
          BY <2>2, <2>3, <3>4 DEF Where
        <4>2. KnownIn(t, f, "pairId") = -1 /\ KnownIn(t, f, "connId") = -1
          BY <4>1, WhereNot
        <4> QED
          BY <3>1, <3>2, <3>4, <4>2 DEF DeviceOK, PairOK, ConnOK
      <3> QED
        BY <3>3, <3>4
    <2>6. BtIdle(t, TRUE, FALSE, m)
      BY <1>2 DEF t, e, m
    <2> QED
      BY <2>1, <2>4, <2>5, <2>6, IdleKeeps
  <1> QED
    BY <1>1, <1>2 DEF BtInit, BtConnected

LEMMA BtInvType ==
    BtInv => BtTypeOK
  <1> SUFFICES ASSUME BtInv PROVE BtTypeOK
    OBVIOUS
  <1>1. BtTyped /\ BtCommandOK /\ (btApp = NoApp <=> btRc = "none")
    BY DEF BtInv
  <1>2. btCmd.by \in {"none", "app", "handler"}
    BY <1>1 DEF BtCommandOK, NoCmd
  <1>3. \A i \in DOMAIN btTable : btTable[i].dev \in Devices \cup {Nobody}
    <2>1. btTable \in Seq(Entry)
      BY <1>1 DEF BtTyped, TableOK
    <2>2. \A i \in DOMAIN btTable : btTable[i] \in Entry
      BY <2>1
    <2>3. \A e \in Entry : e.dev \in Devices \cup {Nobody}
      BY DEF Entry
    <2> QED
      BY <2>2, <2>3
  <1> QED
    BY <1>1, <1>2, <1>3 DEF BtTypeOK, BtTyped, TableOK

LEMMA BtInvTrue ==
    BtInv => BtTrue
  <1> SUFFICES ASSUME BtInv PROVE BtTrue
    OBVIOUS
  <1>1. NoDeviceTwice(btTable)
    BY DEF BtInv, BtTyped, TableOK
  <1>2. ASSUME BtQuiet, ~btMissed, NEW d \in Devices
        PROVE  /\ Known(d, "pairId") = IdOrNone(btModem.paired[d])
               /\ Known(d, "connId") = IdOrNone(btModem.conn[d])
               /\ (btModem.conn[d] # 0 /\ btModem.profile[d] # <<"OBEX_PBA_PROFILE">>) =>
                     pf_name[Known(d, "profileId") + 1] = btModem.profile[d]
    <2>1. btLines = <<>> /\ Gone = {} /\ \A F, G : ~Settled(btLines, F, G)
      BY <1>2, EmptySettled DEF BtQuiet, Gone
    <2>2. DeviceOK(d, btLines, btTable, btModem, btCmd.cmd, {})
      BY <1>2, <2>1 DEF BtInv, BtTableOK
    <2>3. \A f : Known(d, f) = KnownIn(btTable, d, f)
      BY DEF Known, KnownIn
    <2>4. Known(d, "pairId") = IdOrNone(btModem.paired[d])
      BY <2>1, <2>2, <2>3 DEF DeviceOK, PairOK, IdOrNone
    <2>5. Known(d, "connId") = IdOrNone(btModem.conn[d])
      BY <2>1, <2>2, <2>3 DEF DeviceOK, ConnOK, IdOrNone
    <2>6. (btModem.conn[d] # 0 /\ btModem.profile[d] # <<"OBEX_PBA_PROFILE">>) =>
             pf_name[Known(d, "profileId") + 1] = btModem.profile[d]
      BY <2>1, <2>2, <2>3 DEF DeviceOK, ConnOK, ProfileRight
    <2> QED
      BY <2>4, <2>5, <2>6
  <1>3. (btResult.op = "SPP_Read" /\ btResult.rc = "OK") => ReadTrue(btResult.had, btResult.out)
    BY DEF BtInv, BtReadOK
  <1> QED
    BY <1>1, <1>2, <1>3 DEF BtTrue, NoDeviceTwice, ReadTrue

LEMMA BtInvariant ==
    BtSpec => []BtInv
  <1>1. BtInit => BtInv
    BY BtInitially
  <1>2. BtInv /\ [BtNext]_btVars => BtInv'
    BY BtStepKeeps
  <1> QED
    BY <1>1, <1>2, PTL DEF BtSpec

\* The types; the table never holds more devices than it has room for, and a
\* call is under way just when its result is awaited (ril_bluetooth.c:78-268).
THEOREM BtTypeCorrect ==
    BtSpec => []BtTypeOK
  BY BtInvariant, BtInvType, PTL

\* When nothing is under way the table of the library says of every device what
\* the modem knows of it, unless it missed something since it was cleaned; no
\* device is in it twice; and a read of data that succeeded returned what the
\* modem had (ril_bluetooth.c:78-268, 760-1731, 1861-1974).
THEOREM BtTableTrue ==
    BtSpec => []BtTrue
  BY BtInvariant, BtInvTrue, PTL

-----------------------------------------------------------------------------
(* The MQTT library.                                                       *)

LEMMA NatSetInduction ==
    ASSUME NEW S, S \subseteq Nat, 0 \in S, \A n \in S : n + 1 \in S
    PROVE  S = Nat
  <1> SUFFICES ASSUME Nat \ S # {} PROVE FALSE
    OBVIOUS
  <1> DEFINE T == Nat \ S
  <1>1. T \subseteq Nat /\ T # {}
    OBVIOUS
  <1>2. PICK n \in T : \A m \in T : n <= m
    BY <1>1, NatMin
  <1>3. n \in Nat /\ n # 0 /\ n - 1 \in Nat /\ n - 1 + 1 = n /\ ~(n <= n - 1)
    BY <1>2
  <1>4. n - 1 \in S
    BY <1>2, <1>3
  <1> QED
    BY <1>2, <1>3, <1>4

\* The concatenation of the community modules is a recursive function.
LEMMA FlattenIs ==
    ASSUME NEW seqs, Len(seqs) \in Nat, Len(seqs) >= 1
    PROVE  \E w : /\ FlattenSeq(seqs) = w[Len(seqs)] /\ w[1] = seqs[1]
                  /\ \A i \in 2 .. Len(seqs) : w[i] = w[i - 1] \o seqs[i]
  <1> DEFINE n == Len(seqs)
             Value(f, i) == IF i = 1 THEN seqs[i] ELSE f[i - 1] \o seqs[i]
             Ends(m) == \E f : f = [i \in 1 .. m |-> Value(f, i)]
             S == {m \in Nat : Ends(m)}
             w == CHOOSE f : f = [i \in 1 .. n |-> Value(f, i)]
  <1>1. FlattenSeq(seqs) = w[n]
    BY DEF FlattenSeq
  <1>2. 0 \in S
    <2> DEFINE f == [i \in 1 .. 0 |-> 0]
    <2>1. f = [i \in 1 .. 0 |-> Value(f, i)]
      OBVIOUS
    <2> HIDE DEF f
    <2> QED
      BY <2>1
  <1>3. ASSUME NEW m \in S PROVE m + 1 \in S
    <2>1. m \in Nat /\ Ends(m)
      OBVIOUS
    <2>2. PICK f : f = [i \in 1 .. m |-> Value(f, i)]
      BY <2>1
    <2> DEFINE h == [i \in 1 .. m + 1 |-> IF i <= m THEN f[i] ELSE Value(f, i)]
    <2>3. ASSUME NEW i \in 1 .. m + 1 PROVE h[i] = Value(h, i)
      <3>1. CASE i = 1
        BY <2>1, <2>2, <3>1
      <3>2. CASE i # 1
        <4>1. i - 1 \in 1 .. m /\ h[i - 1] = f[i - 1]
          BY <2>1, <3>2
        <4>2. h[i] = Value(f, i)
          <5>1. CASE i <= m
            <6>1. i \in 1 .. m
              BY <2>1, <5>1
            <6>2. f[i] = Value(f, i)
              BY <2>2, <6>1
            <6> QED
              BY <5>1, <6>2
          <5>2. CASE ~(i <= m)
            BY <5>2
          <5> QED
            BY <5>1, <5>2
        <4> QED
          BY <3>2, <4>1, <4>2
      <3> QED
        BY <3>1, <3>2
    <2>4. h = [i \in 1 .. m + 1 |-> Value(h, i)]
      <3>1. h = [i \in 1 .. m + 1 |-> h[i]]
        OBVIOUS
      <3> HIDE DEF h
      <3> QED
        BY <2>3, <3>1, Zenon
    <2>5. Ends(m + 1)
      <3> HIDE DEF h
      <3> QED
        BY <2>4
    <2> HIDE DEF Ends
    <2> QED
      BY <2>1, <2>5
  <1>4. S = Nat
    <2>1. S \subseteq Nat
      OBVIOUS
    <2> HIDE DEF S
    <2> QED
      BY <1>2, <1>3, <2>1, NatSetInduction
  <1>5. Ends(n)
    BY <1>4
  <1>6. w = [i \in 1 .. n |-> Value(w, i)]
    BY <1>5, Zenon
  <1> HIDE DEF w
  <1>7. w[1] = seqs[1]
    BY <1>6
  <1>8. \A i \in 2 .. n : w[i] = w[i - 1] \o seqs[i]
    <2>1. ASSUME NEW i \in 2 .. n PROVE w[i] = w[i - 1] \o seqs[i]
      <3>1. i \in 1 .. n /\ i # 1
        OBVIOUS
      <3>2. w[i] = Value(w, i)
        BY <1>6, <3>1, Zenon
      <3> QED
        BY <3>1, <3>2
    <2> QED
      BY <2>1
  <1> QED
    BY <1>1, <1>7, <1>8

(* Lengths: what was written as digits is read back.                       *)

LEMMA Division ==
    ASSUME NEW r \in Nat, r > 0, NEW q \in Nat, NEW m \in 0 .. r - 1
    PROVE  (r * q + m) \div r = q /\ (r * q + m) % r = m
  OBVIOUS

LEMMA Divided ==
    ASSUME NEW r \in Nat, r > 0, NEW a \in Nat
    PROVE  /\ a \div r \in Nat /\ a % r \in 0 .. r - 1
           /\ a = r * (a \div r) + (a % r)
  <1>1. a % r \in 0 .. r - 1
    OBVIOUS
  <1>2. a \div r \in Nat
    OBVIOUS
  <1>3. a - r * (a \div r) = a % r
    OBVIOUS
  <1> DEFINE q == a \div r
             t == r * q
             u == a % r
  <1>4. t \in Int
    <2> HIDE DEF q
    <2> QED
      BY <1>2 DEF q
  <1>5. a - t = u /\ u \in Int
    BY <1>1, <1>3
  <1> HIDE DEF t, u
  <1>6. a = t + u
    BY <1>4, <1>5
  <1>7. a = r * (a \div r) + (a % r)
    BY <1>6 DEF t, u, q
  <1> QED
    BY <1>1, <1>2, <1>7

\* What the digits count.
LEMMA Weights ==
    /\ DigitRadix \in Nat /\ DigitRadix > 2 /\ DigitRadix <= 128
    /\ Weight[1] = 1 /\ Weight[2] = DigitRadix
    /\ Weight[3] = DigitRadix * DigitRadix /\ Weight[4] = Weight[3] * DigitRadix
    /\ Weight[3] \in Nat /\ Weight[4] \in Nat /\ Weight[5] \in Nat
    /\ DigitRadix < Weight[3] /\ Weight[3] < Weight[4] /\ Weight[4] < Weight[5]
    /\ MaxLength \in Nat /\ MaxLength = Weight[4] - 1 /\ MaxLength >= 26
  <1> DEFINE r == DigitRadix
  <1>1. r \in Nat /\ r > 2 /\ r <= 128
    BY MqttAssumption
  <1>2. /\ Weight[1] = 1 /\ Weight[2] = r /\ Weight[3] = r * r /\ Weight[4] = r * r * r
        /\ Weight[5] = r * r * r * r
    BY DEF Weight
  <1> HIDE DEF r
  <1>3. \A x \in Nat : x > 2 => x * r \in Nat /\ x * r > x /\ x * r >= 3 * x
    <2>1. SUFFICES ASSUME NEW x \in Nat, x > 2
                   PROVE  x * r \in Nat /\ x * r > x /\ x * r >= 3 * x
      OBVIOUS
    <2>2. PICK k \in Nat : r = k + 3
      <3>1. r - 3 \in Nat /\ r = (r - 3) + 3
        BY <1>1
      <3> QED
        BY <3>1
    <2>3. x * r = x * k + 3 * x /\ x * k \in Nat
      BY <2>1, <2>2
    <2> QED
      BY <2>1, <2>3
  <1>4. r * r \in Nat /\ r * r > r /\ r * r >= 3 * r
    BY <1>1, <1>3
  <1> DEFINE s == r * r
  <1>5. s \in Nat /\ s > r /\ s >= 9
    BY <1>1, <1>4
  <1> HIDE DEF s
  <1>6. s * r \in Nat /\ s * r > s /\ s * r >= 3 * s
    BY <1>1, <1>3, <1>5
  <1> DEFINE t == s * r
  <1>7. t \in Nat /\ t > s /\ t >= 27
    BY <1>5, <1>6
  <1> HIDE DEF t
  <1>8. t * r \in Nat /\ t * r > t
    BY <1>1, <1>3, <1>7
  <1> DEFINE u == t * r
  <1>9. Weight[3] = s /\ Weight[4] = t /\ Weight[5] = u
    BY <1>2 DEF s, t
  <1> HIDE DEF u
  <1>10. u \in Nat /\ u > t
    BY <1>8 DEF u
  <1>11. MaxLength = t - 1
    BY <1>9 DEF MaxLength
  <1>12. MaxLength \in Nat /\ MaxLength >= 26
    BY <1>7, <1>11
  <1> QED
    BY <1>1, <1>2, <1>5, <1>7, <1>9, <1>10, <1>11, <1>12 DEF r, s, t

LEMMA Digits ==
    ASSUME NEW d \in 0 .. DigitRadix - 1
    PROVE  /\ ~Continues(d) /\ d % DigitRadix = d /\ d \in Byte8
           /\ Continues(d + DigitRadix) /\ (d + DigitRadix) % DigitRadix = d
           /\ d + DigitRadix \in Byte8
  <1> DEFINE r == DigitRadix
  <1>1. r \in Nat /\ r > 2 /\ r <= 128
    BY Weights
  <1>2. (r * 0 + d) \div r = 0 /\ (r * 0 + d) % r = d
    BY <1>1, Division
  <1>3. (r * 1 + d) \div r = 1 /\ (r * 1 + d) % r = d
    BY <1>1, Division
  <1>4. r * 0 + d = d /\ r * 1 + d = d + r
    BY <1>1
  <1>5. d \in Byte8 /\ d + r \in Byte8
    BY <1>1 DEF Byte8, Base
  <1>6. 0 % 2 # 1 /\ 1 % 2 = 1
    OBVIOUS
  <1> QED
    BY <1>2, <1>3, <1>4, <1>5, <1>6 DEF Continues

\* The digits of a length: n of them, each less than the radix, and all but
\* the last marked as continued.
DigitsOf(len, n, d) ==
    /\ n \in 1 .. 3 /\ d \in [1 .. 3 -> 0 .. DigitRadix - 1]
    /\ DumpLength(len) = [i \in 1 .. n |-> IF i < n THEN d[i] + DigitRadix ELSE d[i]]
    /\ len = d[1] + (IF n >= 2 THEN d[2] * DigitRadix ELSE 0)
                  + (IF n = 3 THEN d[3] * Weight[3] ELSE 0)

LEMMA LeastIs ==
    ASSUME NEW T, T \subseteq Nat, NEW n \in T, \A m \in T : n <= m
    PROVE  Min(T) = n
  <1>1. \E x \in T : \A y \in T : x <= y
    OBVIOUS
  <1>2. Min(T) \in T /\ \A y \in T : Min(T) <= y
    BY <1>1 DEF Min
  <1>3. PICK x \in T : x = Min(T) /\ \A y \in T : x <= y
    BY <1>2
  <1>4. x <= n /\ n <= x /\ x \in Nat /\ n \in Nat
    BY <1>3
  <1>5. x = n
    BY <1>4
  <1> QED
    BY <1>3, <1>5

LEMMA DumpIs ==
    ASSUME NEW len \in 0 .. MaxLength
    PROVE  \E n, d : DigitsOf(len, n, d)
  <1> DEFINE r == DigitRadix
             s == Weight[3]
             t == Weight[4]
             q == len \div r
             p == len \div s
             d == [i \in 1 .. 3 |-> (len \div Weight[i]) % r]
             fits == {n \in 1 .. 4 : len < Weight[n + 1]}
  <1>1. /\ r \in Nat /\ r > 2 /\ s \in Nat /\ t \in Nat /\ r < s /\ s < t
        /\ Weight[1] = 1 /\ Weight[2] = r /\ Weight[5] \in Nat /\ t < Weight[5]
        /\ len \in Nat /\ len < t
    BY Weights
  <1>2. s = r * r /\ t = s * r
    BY Weights
  <1>3. /\ q \in Nat /\ len % r \in 0 .. r - 1 /\ len = r * q + (len % r)
        /\ p \in Nat /\ len % s \in 0 .. s - 1 /\ len = s * p + (len % s)
        /\ q % r \in 0 .. r - 1 /\ q \div r \in Nat /\ q = r * (q \div r) + (q % r)
        /\ p % r \in 0 .. r - 1
    <2> HIDE DEF r, s
    <2>1. q \in Nat /\ len % r \in 0 .. r - 1 /\ len = r * q + (len % r)
      BY <1>1, Divided
    <2>2. p \in Nat /\ len % s \in 0 .. s - 1 /\ len = s * p + (len % s)
      BY <1>1, Divided
    <2> HIDE DEF q, p
    <2>3. q % r \in 0 .. r - 1 /\ q \div r \in Nat /\ q = r * (q \div r) + (q % r)
      BY <1>1, <2>1, Divided
    <2>4. p % r \in 0 .. r - 1
      BY <1>1, <2>2, Divided
    <2> QED
      BY <2>1, <2>2, <2>3, <2>4
  <1>4. len \div 1 = len
    BY <1>1
  <1>5. d[1] = len % r /\ d[2] = q % r /\ d[3] = p % r
    BY <1>1, <1>4
  <1>6. d \in [1 .. 3 -> 0 .. r - 1]
    <2>1. \A i \in 1 .. 3 : (len \div Weight[i]) % r \in 0 .. r - 1
      <3> SUFFICES ASSUME NEW i \in 1 .. 3
                   PROVE  (len \div Weight[i]) % r \in 0 .. r - 1
        OBVIOUS
      <3>1. i = 1 \/ i = 2 \/ i = 3
        OBVIOUS
      <3> QED
        BY <1>1, <1>3, <1>4, <3>1
    <2> QED
      BY <2>1
  <1> HIDE DEF d, q, p, r, s, t
  \* The third digit is what is left of the second division.
  <1>7. p = q \div r
    <2> DEFINE v == q \div r
               w == q % r
               u == len % r
    <2>1. v \in Nat /\ w \in 0 .. r - 1 /\ u \in 0 .. r - 1 /\ q = r * v + w /\ len = r * q + u
      BY <1>3
    <2> HIDE DEF v, w, u
    <2>2. len = s * v + (r * w + u)
      <3>1. r * q = r * (r * v) + r * w
        BY <1>1, <2>1
      <3>2. r * (r * v) = (r * r) * v
        BY <1>1, <2>1
      <3>3. r * q = s * v + r * w
        BY <1>2, <3>1, <3>2
      <3>4. s * v \in Nat /\ r * w \in Nat /\ r * q \in Nat
        BY <1>1, <1>3, <2>1
      <3> QED
        BY <2>1, <3>3, <3>4
    <2>3. r * w + u \in 0 .. s - 1
      <3>1. PICK k \in Nat : w + k = r - 1
        <4>1. r - 1 - w \in Nat /\ w + (r - 1 - w) = r - 1
          BY <1>1, <2>1
        <4> QED
          BY <4>1
      <3>2. r * r = r * w + r * k + r
        <4>1. r = w + k + 1
          BY <1>1, <2>1, <3>1
        <4>2. r * (w + k + 1) = r * w + r * k + r
          BY <1>1, <2>1, <3>1
        <4> QED
          BY <4>1, <4>2
      <3>3. r * w \in Nat /\ r * k \in Nat
        BY <1>1, <2>1, <3>1
      <3> DEFINE x == r * w
                 y == r * k
      <3>4. s = x + y + r /\ x \in Nat /\ y \in Nat
        BY <1>2, <3>2, <3>3
      <3> HIDE DEF x, y
      <3>5. x + u \in 0 .. s - 1
        BY <1>1, <2>1, <3>4
      <3> QED
        BY <3>5 DEF x
    <2>4. (s * v + (r * w + u)) \div s = v
      BY <1>1, <2>1, <2>3, Division
    <2> QED
      BY <2>2, <2>4 DEF p, v
  <1>8. len = r * q + d[1] /\ q = r * p + d[2]
    BY <1>3, <1>5, <1>7
  <1>9. fits \subseteq Nat /\ 3 \in fits /\ \A m \in fits : m \in 1 .. 4
    BY <1>1 DEF t
  <1>10. CASE len < r
    <2>1. 1 \in fits /\ Min(fits) = 1
      <3>1. 1 \in fits
        BY <1>1, <1>10
      <3>2. \A m \in fits : 1 <= m
        BY <1>9
      <3> HIDE DEF fits
      <3> QED
        BY <1>9, <3>1, <3>2, LeastIs
    <2>2. len = d[1]
      <3>1. (r * 0 + len) % r = len
        BY <1>1, <1>10, Division
      <3>2. r * 0 + len = len
        BY <1>1
      <3> QED
        BY <1>5, <3>1, <3>2
    <2>3. DumpLength(len) = [i \in 1 .. 1 |-> IF i < 1 THEN d[i] + r ELSE d[i]]
      <3>1. fits # {}
        BY <2>1
      <3>2. DumpLength(len) = [i \in 1 .. Min(fits) |->
                IF i < Min(fits) THEN ((len \div Weight[i]) % r) + r ELSE (len \div Weight[i]) % r]
        BY <3>1 DEF DumpLength, r
      <3>3. \A i \in 1 .. 1 : d[i] = (len \div Weight[i]) % r
        BY DEF d
      <3> HIDE DEF fits
      <3> QED
        BY <2>1, <3>2, <3>3
    <2>4. len = d[1] + (IF 1 >= 2 THEN d[2] * r ELSE 0) + (IF 1 = 3 THEN d[3] * Weight[3] ELSE 0)
      BY <1>1, <2>2
    <2>5. DigitsOf(len, 1, d)
      <3>1. 1 \in 1 .. 3
        OBVIOUS
      <3> QED
        BY <1>6, <2>3, <2>4, <3>1 DEF DigitsOf, r
    <2> QED
      BY <2>5
  <1>11. CASE ~(len < r) /\ len < s
    <2>1. Min(fits) = 2
      <3>1. 2 \in fits
        BY <1>1, <1>11 DEF s
      <3>2. \A m \in fits : 2 <= m
        <4>1. \A m \in fits : m # 1
          BY <1>1, <1>11
        <4> QED
          BY <1>9, <4>1
      <3> HIDE DEF fits
      <3> QED
        BY <1>9, <3>1, <3>2, LeastIs
    <2>2. len = d[1] + d[2] * r
      <3>1. p = 0
        <4>1. (s * 0 + len) \div s = 0
          BY <1>1, <1>11, Division
        <4>2. s * 0 + len = len
          BY <1>1
        <4> QED
          BY <4>1, <4>2 DEF p
      <3>2. q = d[2] /\ d[2] \in Nat /\ d[1] \in Nat
        <4>1. r * 0 = 0
          BY <1>1
        <4>2. d[2] \in 0 .. r - 1 /\ d[1] \in 0 .. r - 1
          BY <1>6
        <4> QED
          BY <1>8, <3>1, <4>1, <4>2
      <3>3. r * q = d[2] * r /\ r * q \in Nat
        BY <1>1, <3>2
      <3> QED
        BY <1>8, <3>2, <3>3
    <2>3. DumpLength(len) = [i \in 1 .. 2 |-> IF i < 2 THEN d[i] + r ELSE d[i]]
      <3>1. fits # {}
        BY <1>9
      <3>2. DumpLength(len) = [i \in 1 .. Min(fits) |->
                IF i < Min(fits) THEN ((len \div Weight[i]) % r) + r ELSE (len \div Weight[i]) % r]
        BY <3>1 DEF DumpLength, r
      <3>3. \A i \in 1 .. 2 : d[i] = (len \div Weight[i]) % r
        BY DEF d
      <3> HIDE DEF fits
      <3> QED
        BY <2>1, <3>2, <3>3
    <2>4. len = d[1] + (IF 2 >= 2 THEN d[2] * r ELSE 0) + (IF 2 = 3 THEN d[3] * Weight[3] ELSE 0)
      <3>1. d[1] + d[2] * r \in Nat
        BY <1>1, <2>2
      <3> DEFINE x == d[2] * r
      <3> HIDE DEF x
      <3>2. len = d[1] + x + 0
        BY <1>1, <2>2 DEF x
      <3> QED
        BY <3>2 DEF x
    <2>5. DigitsOf(len, 2, d)
      <3>1. 2 \in 1 .. 3
        OBVIOUS
      <3> QED
        BY <1>6, <2>3, <2>4, <3>1 DEF DigitsOf, r
    <2> QED
      BY <2>5
  <1>12. CASE ~(len < s)
    <2>1. Min(fits) = 3
      <3>1. \A m \in fits : 3 <= m
        <4>1. \A m \in fits : m # 1 /\ m # 2
          BY <1>1, <1>12 DEF s
        <4> QED
          BY <1>9, <4>1
      <3> HIDE DEF fits
      <3> QED
        BY <1>9, <3>1, LeastIs
    <2>2. p < r
      <3>1. SUFFICES ASSUME p >= r PROVE FALSE
        BY <1>1, <1>3
      <3>2. PICK k \in Nat : p = r + k
        <4>1. p - r \in Nat /\ p = r + (p - r)
          BY <1>1, <1>3, <3>1
        <4> QED
          BY <4>1
      <3>3. s * p = s * r + s * k /\ s * k \in Nat /\ s * r \in Nat /\ s * p \in Nat
        BY <1>1, <3>2
      <3> DEFINE x == s * p
                 y == s * k
                 z == len % s
      <3>4. x = t + y /\ y \in Nat /\ x \in Nat /\ z \in Nat /\ len = x + z
        BY <1>1, <1>2, <1>3, <3>3
      <3> HIDE DEF x, y, z
      <3> QED
        BY <1>1, <3>4
    <2>3. p = d[3]
      <3>1. (r * 0 + p) % r = p
        BY <1>1, <1>3, <2>2, Division
      <3>2. r * 0 + p = p
        BY <1>1, <1>3
      <3> QED
        BY <1>5, <3>1, <3>2
    <2>4. len = d[1] + d[2] * r + d[3] * s
      <3>1. d[1] \in Nat /\ d[2] \in Nat /\ d[3] \in Nat
        BY <1>1, <1>6
      <3>2. r * q = r * (r * p) + r * d[2]
        <4>0. r \in Nat /\ p \in Nat /\ d[2] \in Nat
          BY <1>1, <1>3, <3>1
        <4>1. PICK x \in Nat, e \in Nat : x = r * p /\ e = d[2]
          BY <4>0
        <4>2. q = x + e
          BY <1>8, <4>1
        <4>3. r * (x + e) = r * x + r * e
          BY <1>1
        <4> QED
          BY <4>1, <4>2, <4>3
      <3>3. r * (r * p) = (r * r) * p /\ r * d[2] = d[2] * r /\ s * p = p * s
        BY <1>1, <1>3, <3>1
      <3>4. d[2] * r \in Nat /\ d[3] * s \in Nat
        BY <1>1, <3>1
      <3> DEFINE x == d[2] * r
                 y == d[3] * s
      <3>5. r * q = y + x
        BY <1>2, <2>3, <3>2, <3>3
      <3> HIDE DEF x, y
      <3>6. len = d[1] + x + y
        BY <1>1, <1>8, <3>1, <3>4, <3>5 DEF x, y
      <3> QED
        BY <3>6 DEF x, y
    <2>5. DumpLength(len) = [i \in 1 .. 3 |-> IF i < 3 THEN d[i] + r ELSE d[i]]
      <3>1. fits # {}
        BY <1>9
      <3>2. DumpLength(len) = [i \in 1 .. Min(fits) |->
                IF i < Min(fits) THEN ((len \div Weight[i]) % r) + r ELSE (len \div Weight[i]) % r]
        BY <3>1 DEF DumpLength, r
      <3>3. \A i \in 1 .. 3 : d[i] = (len \div Weight[i]) % r
        BY DEF d
      <3> HIDE DEF fits
      <3> QED
        BY <2>1, <3>2, <3>3
    <2>6. len = d[1] + (IF 3 >= 2 THEN d[2] * r ELSE 0) + (IF 3 = 3 THEN d[3] * Weight[3] ELSE 0)
      BY <2>4 DEF s
    <2>7. DigitsOf(len, 3, d)
      <3>1. 3 \in 1 .. 3
        OBVIOUS
      <3> QED
        BY <1>6, <2>5, <2>6, <3>1 DEF DigitsOf, r
    <2> QED
      BY <2>7
  <1> QED
    BY <1>10, <1>11, <1>12

\* Bytes that begin like a length are read as that length, as soon as all of
\* its digits are there.
LEMMA ReadIs ==
    ASSUME NEW len, NEW n, NEW d, DigitsOf(len, n, d), NEW s \in Seq(Byte8),
           \A i \in 1 .. n : i <= Len(s) => s[i] = IF i < n THEN d[i] + DigitRadix ELSE d[i]
    PROVE  /\ n <= Len(s) => ReadLength(s) = [bytes |-> n, len |-> len]
           /\ n > Len(s) => ReadLength(s) = [bytes |-> -1, len |-> 0]
  <1> DEFINE r == DigitRadix
             ends == {i \in DOMAIN s : i <= 3 /\ ~Continues(s[i])}
  <1>1. /\ n \in 1 .. 3 /\ d \in [1 .. 3 -> 0 .. r - 1] /\ Len(s) \in Nat
        /\ DOMAIN s = 1 .. Len(s) /\ r \in Nat
    BY Weights DEF DigitsOf
  <1>2. \A i \in 1 .. n : i <= Len(s) =>
            /\ s[i] % r = d[i]
            /\ Continues(s[i]) <=> i < n
    <2> SUFFICES ASSUME NEW i \in 1 .. n, i <= Len(s)
                 PROVE  s[i] % r = d[i] /\ (Continues(s[i]) <=> i < n)
      OBVIOUS
    <2>1. d[i] \in 0 .. r - 1
      BY <1>1
    <2>2. /\ ~Continues(d[i]) /\ d[i] % r = d[i]
          /\ Continues(d[i] + r) /\ (d[i] + r) % r = d[i]
      BY <2>1, Digits
    <2> QED
      BY <2>2
  <1>3. CASE n <= Len(s)
    <2>1. n \in ends /\ ends \subseteq Nat
      BY <1>1, <1>2, <1>3
    <2>2. \A m \in ends : n <= m
      <3> SUFFICES ASSUME NEW m \in ends, ~(n <= m) PROVE FALSE
        OBVIOUS
      <3>1. m \in 1 .. n /\ m <= Len(s) /\ m < n /\ ~Continues(s[m])
        BY <1>1
      <3> QED
        BY <1>2, <3>1
    <2>3. ends # {}
      BY <2>1
    <2>4. Min(ends) = n
      <3> HIDE DEF ends
      <3> QED
        BY <2>1, <2>2, LeastIs
    <2> DEFINE Part(i) == IF i <= n THEN (s[i] % r) * Weight[i] ELSE 0
    <2>5. ReadLength(s) = [bytes |-> n, len |-> Part(1) + Part(2) + Part(3)]
      <3>1. ReadLength(s) =
              IF ends # {}
              THEN [bytes |-> Min(ends),
                    len |-> (IF 1 <= Min(ends) THEN (s[1] % r) * Weight[1] ELSE 0)
                          + (IF 2 <= Min(ends) THEN (s[2] % r) * Weight[2] ELSE 0)
                          + (IF 3 <= Min(ends) THEN (s[3] % r) * Weight[3] ELSE 0)]
              ELSE [bytes |-> IF Len(s) >= 3 THEN -2 ELSE -1, len |-> 0]
        BY DEF ReadLength
      <3> HIDE DEF ends
      <3> QED
        BY <2>3, <2>4, <3>1
    <2>6. /\ Part(1) = d[1] /\ Part(2) = (IF n >= 2 THEN d[2] * r ELSE 0)
          /\ Part(3) = (IF n = 3 THEN d[3] * Weight[3] ELSE 0)
      <3>1. s[1] % r = d[1] /\ Weight[1] = 1 /\ Weight[2] = r /\ d[1] \in Nat
            /\ 1 <= n /\ n <= 3
        BY <1>1, <1>2, <1>3, Weights
      <3>2. Part(1) = d[1]
        BY <3>1
      <3>3. Part(2) = (IF n >= 2 THEN d[2] * r ELSE 0)
        <4>1. n >= 2 => s[2] % r = d[2]
          BY <1>1, <1>2, <1>3
        <4> QED
          BY <1>1, <3>1, <4>1
      <3>4. Part(3) = (IF n = 3 THEN d[3] * Weight[3] ELSE 0)
        <4>1. n = 3 => s[3] % r = d[3]
          BY <1>1, <1>2, <1>3
        <4>2. 3 <= n <=> n = 3
          BY <1>1
        <4> QED
          BY <4>1, <4>2
      <3> QED
        BY <3>2, <3>3, <3>4
    <2> HIDE DEF Part
    <2>7. len = Part(1) + Part(2) + Part(3)
      BY <2>6 DEF DigitsOf
    <2> QED
      BY <1>1, <1>3, <2>5, <2>7
  <1>4. CASE n > Len(s)
    <2>1. ends = {}
      <3> SUFFICES ASSUME NEW m \in ends PROVE FALSE
        OBVIOUS
      <3>1. m \in 1 .. n /\ m <= Len(s) /\ m < n /\ ~Continues(s[m])
        BY <1>1, <1>4
      <3> QED
        BY <1>2, <3>1
    <2>2. ~(Len(s) >= 3)
      BY <1>1, <1>4
    <2> QED
      BY <1>1, <1>4, <2>1, <2>2 DEF ReadLength
  <1> QED
    BY <1>1, <1>3, <1>4

\* Whatever is read, a length is a number.
LEMMA ReadTypes ==
    ASSUME NEW s \in Seq(Byte8)
    PROVE  /\ ReadLength(s).bytes \in {-2, -1, 1, 2, 3} /\ ReadLength(s).len \in Nat
           /\ ReadLength(s).bytes > 0 => ReadLength(s).bytes <= Len(s)
  <1> DEFINE r == DigitRadix
             ends == {i \in DOMAIN s : i <= 3 /\ ~Continues(s[i])}
             n == Min(ends)
             Part(i) == IF i <= n THEN (s[i] % r) * Weight[i] ELSE 0
  <1>1. /\ r \in Nat /\ r > 0 /\ Weight[1] \in Nat /\ Weight[2] \in Nat /\ Weight[3] \in Nat
        /\ Len(s) \in Nat /\ DOMAIN s = 1 .. Len(s)
        /\ \A i \in 1 .. Len(s) : s[i] \in Nat
    <2>1. /\ r \in Nat /\ r > 0 /\ Weight[1] \in Nat /\ Weight[2] \in Nat
          /\ Weight[3] \in Nat
      BY Weights
    <2>2. Byte8 \subseteq Nat
      BY DEF Byte8, Base
    <2>3. /\ Len(s) \in Nat /\ DOMAIN s = 1 .. Len(s)
          /\ \A i \in 1 .. Len(s) : s[i] \in Byte8
      OBVIOUS
    <2>4. \A i \in 1 .. Len(s) : s[i] \in Nat
      BY <2>2, <2>3
    <2> QED
      BY <2>1, <2>3, <2>4
  <1>2. CASE ends # {}
    <2>1. ends \subseteq Nat
      BY <1>1
    <2>2. n \in ends
      <3>1. PICK m \in ends : \A k \in ends : m <= k
        <4> HIDE DEF ends
        <4> QED
          BY <1>2, <2>1, NatMin
      <3> HIDE DEF ends
      <3>2. Min(ends) = m
        BY <2>1, <3>1, LeastIs
      <3> QED
        BY <3>1, <3>2
    <2>3. n \in 1 .. Len(s) /\ n \in {1, 2, 3}
      BY <1>1, <2>2
    <2>4. ReadLength(s) = [bytes |-> n, len |-> Part(1) + Part(2) + Part(3)]
      BY <1>2 DEF ReadLength
    <2>5. Part(1) \in Nat /\ Part(2) \in Nat /\ Part(3) \in Nat
      <3> HIDE DEF n
      <3>1. \A i \in 1 .. 3 : Part(i) \in Nat
        <4> SUFFICES ASSUME NEW i \in 1 .. 3, i <= n PROVE (s[i] % r) * Weight[i] \in Nat
          OBVIOUS
        <4>1. s[i] \in Nat
          BY <1>1, <2>3
        <4>2. s[i] % r \in Nat
          BY <1>1, <4>1, Divided
        <4>3. Weight[i] \in Nat
          BY <1>1
        <4> DEFINE a == s[i] % r
                   b == Weight[i]
        <4> HIDE DEF a, b
        <4>4. a * b \in Nat
          BY <4>2, <4>3 DEF a, b
        <4> QED
          BY <4>4 DEF a, b
      <3> QED
        BY <3>1
    <2> HIDE DEF Part, n
    <2> QED
      BY <2>3, <2>4, <2>5
  <1>3. CASE ends = {}
    BY <1>1, <1>3 DEF ReadLength
  <1> QED
    BY <1>2, <1>3

-----------------------------------------------------------------------------
(* Sequences, put together and cut.                                        *)

LEMMA JoinIs ==
    ASSUME NEW S, NEW s \in Seq(S), NEW t \in Seq(S)
    PROVE  /\ s \o t \in Seq(S) /\ Len(s \o t) = Len(s) + Len(t)
           /\ Len(s) \in Nat /\ Len(t) \in Nat
           /\ \A i \in 1 .. Len(s) : (s \o t)[i] = s[i]
           /\ \A i \in 1 .. Len(t) : (s \o t)[Len(s) + i] = t[i]
  OBVIOUS

LEMMA Cut ==
    ASSUME NEW S, NEW s \in Seq(S), NEW a \in Nat, NEW b \in Nat,
           a >= 1, b <= Len(s), a <= b + 1
    PROVE  /\ SubSeq(s, a, b) \in Seq(S) /\ Len(SubSeq(s, a, b)) = b + 1 - a
           /\ \A i \in 1 .. b + 1 - a : SubSeq(s, a, b)[i] = s[a + i - 1]
  OBVIOUS

\* z is s before t, of n elements and m.
Chains(S, s, t, z, n, m) ==
    /\ z \in Seq(S) /\ n \in Nat /\ m \in Nat /\ Len(z) = n + m
    /\ \A i \in 1 .. n : z[i] = s[i]
    /\ \A i \in 1 .. m : z[n + i] = t[i]

LEMMA Chained ==
    ASSUME NEW S, NEW s \in Seq(S), NEW t \in Seq(S)
    PROVE  Chains(S, s, t, s \o t, Len(s), Len(t))
  BY DEF Chains

\* z is s with c behind it.
Appends(S, s, c, z, n) ==
    /\ z \in Seq(S) /\ n \in Nat /\ Len(z) = n + 1
    /\ \A i \in 1 .. n : z[i] = s[i]
    /\ z[n + 1] = c

LEMMA Appended ==
    ASSUME NEW S, NEW s \in Seq(S), NEW c \in S
    PROVE  Appends(S, s, c, Append(s, c), Len(s))
  BY DEF Appends

\* Of bytes.
Glues(s, t, z, n, m) ==
    /\ z \in Seq(Byte8) /\ n \in Nat /\ m \in Nat /\ Len(z) = n + m
    /\ \A i \in 1 .. n : z[i] = s[i]
    /\ \A i \in 1 .. m : z[n + i] = t[i]

LEMMA Glued ==
    ASSUME NEW s \in Seq(Byte8), NEW t \in Seq(Byte8)
    PROVE  Glues(s, t, s \o t, Len(s), Len(t))
  BY DEF Glues

\* The same for a part, n its length.
MqttTakes(s, a, n, z) ==
    z \in Seq(Byte8) /\ Len(z) = n /\ \A i \in 1 .. n : z[i] = s[a + i]

LEMMA TakenOff ==
    ASSUME NEW s \in Seq(Byte8), NEW a \in Nat, NEW n \in Nat, a + n <= Len(s)
    PROVE  MqttTakes(s, a, n, SubSeq(s, a + 1, a + n))
  <1>1. PICK x \in Nat, y \in Nat : x = a + 1 /\ y = a + n
    OBVIOUS
  <1>2. /\ SubSeq(s, x, y) \in Seq(Byte8) /\ Len(SubSeq(s, x, y)) = y + 1 - x
        /\ \A i \in 1 .. y + 1 - x : SubSeq(s, x, y)[i] = s[x + i - 1]
    BY <1>1, Cut
  <1>3. y + 1 - x = n /\ \A i \in 1 .. n : x + i - 1 = a + i
    BY <1>1
  <1>4. MqttTakes(s, a, n, SubSeq(s, x, y))
    BY <1>2, <1>3 DEF MqttTakes
  <1> QED
    BY <1>1, <1>4

LEMMA SameSeq ==
    ASSUME NEW S, NEW s \in Seq(S), NEW t \in Seq(S), Len(s) = Len(t),
           \A i \in 1 .. Len(s) : s[i] = t[i]
    PROVE  s = t
  OBVIOUS

\* The length as DumpLength lays it out, whole or cut.
LEMMA ReadDump ==
    ASSUME NEW len \in 0 .. MaxLength, NEW D, D = DumpLength(len)
    PROVE  /\ D \in Seq(Byte8) /\ Len(D) \in 1 .. 3
           /\ \A s \in Seq(Byte8) :
                 (\A i \in 1 .. Len(D) : i <= Len(s) => s[i] = D[i]) =>
                    /\ Len(D) <= Len(s) => ReadLength(s) = [bytes |-> Len(D), len |-> len]
                    /\ Len(D) > Len(s) => ReadLength(s) = [bytes |-> -1, len |-> 0]
  <1>1. PICK n, d : DigitsOf(len, n, d)
    BY DumpIs
  <1>3. /\ n \in 1 .. 3 /\ d \in [1 .. 3 -> 0 .. DigitRadix - 1]
        /\ D = [i \in 1 .. n |-> IF i < n THEN d[i] + DigitRadix ELSE d[i]]
    BY <1>1 DEF DigitsOf
  <1>4. D \in Seq(Byte8) /\ Len(D) = n /\ n \in Nat
    <2>1. \A i \in 1 .. n : (IF i < n THEN d[i] + DigitRadix ELSE d[i]) \in Byte8
      <3> SUFFICES ASSUME NEW i \in 1 .. n
                   PROVE  d[i] + DigitRadix \in Byte8 /\ d[i] \in Byte8
        OBVIOUS
      <3>1. d[i] \in 0 .. DigitRadix - 1
        BY <1>3
      <3> QED
        BY <3>1, Digits
    <2>2. D \in [1 .. n -> Byte8] /\ n \in Nat
      BY <1>3, <2>1
    <2> QED
      BY <2>2
  <1>5. \A i \in 1 .. n : D[i] = IF i < n THEN d[i] + DigitRadix ELSE d[i]
    BY <1>3
  <1>6. ASSUME NEW s \in Seq(Byte8), \A i \in 1 .. n : i <= Len(s) => s[i] = D[i]
        PROVE  /\ n <= Len(s) => ReadLength(s) = [bytes |-> n, len |-> len]
               /\ n > Len(s) => ReadLength(s) = [bytes |-> -1, len |-> 0]
    <2>1. \A i \in 1 .. n : i <= Len(s) => s[i] = IF i < n THEN d[i] + DigitRadix ELSE d[i]
      BY <1>5, <1>6
    <2> QED
      BY <1>1, <2>1, ReadIs
  <1> QED
    BY <1>3, <1>4, <1>6

-----------------------------------------------------------------------------
(* A packet on the wire, and what a reader of the wire makes of it.        *)

\* A packet as it is passed, and one as it is taken out of the buffer.
Short == {b \in Seq(Byte8) : Len(b) <= MaxLength}
ShortPacket == [fh : Byte8, body : Short]
AnyPacket == [fh : Byte8, body : Seq(Byte8)]

\* The length D, then the body b.
Laid(p, D, b, z) ==
    /\ p = [fh |-> p.fh, body |-> b] /\ p.fh \in Byte8
    /\ b \in Seq(Byte8) /\ Len(b) \in 0 .. MaxLength
    /\ D = DumpLength(Len(b)) /\ D \in Seq(Byte8) /\ Len(D) \in 1 .. 3
    /\ z \in Seq(Byte8) /\ Len(z) = 1 + Len(D) + Len(b) /\ z[1] = p.fh
    /\ \A i \in 1 .. Len(D) : z[1 + i] = D[i]
    /\ \A i \in 1 .. Len(b) : z[1 + Len(D) + i] = b[i]

LEMMA WireIs ==
    ASSUME NEW p \in ShortPacket
    PROVE  \E D, b : Laid(p, D, b, OnTheWire(p))
  <1>1. PICK b \in Seq(Byte8), len \in Nat : b = p.body /\ len = Len(b)
    BY DEF ShortPacket, Short
  <1>2. p.fh \in Byte8 /\ len \in 0 .. MaxLength /\ p = [fh |-> p.fh, body |-> b]
    BY <1>1, Weights DEF ShortPacket, Short
  <1>3. PICK D : D = DumpLength(len)
    OBVIOUS
  <1>4. D \in Seq(Byte8) /\ Len(D) \in 1 .. 3
    BY <1>2, <1>3, ReadDump
  <1>5. PICK n \in Nat : n = Len(D)
    BY <1>4
  <1>6. PICK h : h = <<p.fh>> \o D
    OBVIOUS
  <1>7. h \in Seq(Byte8) /\ Len(h) = 1 + n /\ h[1] = p.fh /\ \A i \in 1 .. n : h[1 + i] = D[i]
    BY <1>2, <1>4, <1>5, <1>6
  <1>8. PICK z : z = h \o b
    OBVIOUS
  <1>9. OnTheWire(p) = z
    BY <1>1, <1>3, <1>6, <1>8 DEF OnTheWire
  <1>10. PICK k \in Nat : k = 1 + n
    OBVIOUS
  <1>11. /\ z \in Seq(Byte8) /\ Len(z) = k + len
         /\ \A i \in 1 .. k : z[i] = h[i]
         /\ \A i \in 1 .. len : z[k + i] = b[i]
    <2>1. Len(h) = k /\ Len(b) = len
      BY <1>1, <1>7, <1>10
    <2>2. Glues(h, b, z, k, len)
      BY <1>1, <1>7, <1>8, <2>1, Glued
    <2> QED
      BY <2>2 DEF Glues
  <1>12. 1 \in 1 .. k /\ \A i \in 1 .. n : 1 + i \in 1 .. k
    BY <1>10
  <1>13. z[1] = p.fh /\ \A i \in 1 .. n : z[1 + i] = D[i]
    BY <1>7, <1>11, <1>12
  <1>14. Laid(p, D, b, z)
    BY <1>1, <1>2, <1>3, <1>4, <1>5, <1>10, <1>11, <1>13 DEF Laid
  <1> QED
    BY <1>9, <1>14

\* Two ways to cut the same bytes: z is whole in what has arrived.
Arrives(rest, W, z, Y, N, Z) ==
    /\ \A i \in 1 .. N : i <= Z => rest[i] = z[i]
    /\ Z <= N => SubSeq(rest, Z + 1, N) \o W = Y

LEMMA Arrived ==
    ASSUME NEW z \in Seq(Byte8), NEW Y \in Seq(Byte8), NEW rest \in Seq(Byte8),
           NEW W \in Seq(Byte8), rest \o W = z \o Y
    PROVE  Arrives(rest, W, z, Y, Len(rest), Len(z))
  <1>0. PICK N \in Nat, Z \in Nat : N = Len(rest) /\ Z = Len(z)
    OBVIOUS
  <1>1. PICK M \in Nat, K \in Nat : M = Len(W) /\ K = Len(Y)
    OBVIOUS
  <1>3. PICK all : all = rest \o W /\ all = z \o Y
    OBVIOUS
  <1>2. /\ Len(all) = N + M
        /\ \A i \in 1 .. N : all[i] = rest[i]
        /\ \A i \in 1 .. M : all[N + i] = W[i]
    <2>1. Glues(rest, W, all, N, M)
      BY <1>0, <1>1, <1>3, Glued
    <2> QED
      BY <2>1 DEF Glues
  <1>4. /\ Len(all) = Z + K
        /\ \A i \in 1 .. Z : all[i] = z[i]
        /\ \A i \in 1 .. K : all[Z + i] = Y[i]
    <2>1. Glues(z, Y, all, Z, K)
      BY <1>0, <1>1, <1>3, Glued
    <2> QED
      BY <2>1 DEF Glues
  <1>5. \A i \in 1 .. N : i <= Z => rest[i] = z[i]
    <2> SUFFICES ASSUME NEW i \in 1 .. N, i <= Z PROVE rest[i] = z[i]
      OBVIOUS
    <2>1. i \in 1 .. Z
      OBVIOUS
    <2> QED
      BY <1>2, <1>4, <2>1
  <1>6. ASSUME Z <= N PROVE SubSeq(rest, Z + 1, N) \o W = Y
    <2>1. PICK T \in Nat : T = N - Z /\ Z + T = N
      BY <1>6
    <2>2. PICK t : t = SubSeq(rest, Z + 1, Z + T)
      OBVIOUS
    <2>3. t \in Seq(Byte8) /\ Len(t) = T /\ \A i \in 1 .. T : t[i] = rest[Z + i]
      <3>1. Z + T <= Len(rest)
        BY <1>0, <2>1
      <3> QED
        BY <2>2, <3>1, TakenOff DEF MqttTakes
    <2>4. PICK u : u = t \o W
      OBVIOUS
    <2>5. /\ u \in Seq(Byte8) /\ Len(u) = T + M
          /\ \A i \in 1 .. T : u[i] = t[i]
          /\ \A i \in 1 .. M : u[T + i] = W[i]
      <3>1. Glues(t, W, u, T, M)
        BY <1>1, <2>3, <2>4, Glued
      <3> QED
        BY <3>1 DEF Glues
    <2>6. T + M = K
      <3>1. N + M = Z + K
        BY <1>2, <1>4
      <3> QED
        BY <2>1, <3>1
    <2>7. ASSUME NEW i \in 1 .. K PROVE u[i] = Y[i]
      <3>1. all[Z + i] = Y[i]
        BY <1>4
      <3>2. CASE i <= T
        <4>1. i \in 1 .. T /\ Z + i \in 1 .. N
          BY <2>1, <3>2
        <4> QED
          BY <1>2, <2>3, <2>5, <3>1, <4>1
      <3>3. CASE i > T
        <4>1. PICK k \in Nat : k = i - T
          BY <3>3
        <4>2. k \in 1 .. M /\ i = T + k /\ N + k = Z + i
          BY <2>1, <2>6, <3>3, <4>1
        <4> QED
          BY <1>2, <2>5, <3>1, <4>2
      <3> QED
        BY <3>2, <3>3
    <2>8. u = Y
      <3>1. Len(u) = Len(Y) /\ \A i \in 1 .. Len(u) : u[i] = Y[i]
        BY <1>1, <2>5, <2>6, <2>7
      <3> QED
        BY <2>5, <3>1, SameSeq
    <2> QED
      BY <2>1, <2>2, <2>4, <2>8
  <1>7. Arrives(rest, W, z, Y, N, Z)
    BY <1>5, <1>6 DEF Arrives
  <1> QED
    BY <1>0, <1>7

\* The bytes that arrived, before those of the packets behind.
\* A whole packet at the start of rest, and Y behind it.
Finds(rest, W, Y, p, r, size) ==
    /\ [fh |-> rest[1], body |-> SubSeq(rest, size - r.len + 1, size)] = p
    /\ SubSeq(rest, size + 1, Len(rest)) \o W = Y

LEMMA TakenIs ==
    ASSUME NEW p \in ShortPacket, NEW rest \in Seq(Byte8), NEW W \in Seq(Byte8),
           NEW Y \in Seq(Byte8), rest \o W = OnTheWire(p) \o Y, Len(rest) >= 2,
           NEW r, r = ReadLength(Tail(rest)), NEW size, size = 1 + r.bytes + r.len,
           ~(r.bytes = -1 \/ size > Len(rest))
    PROVE  Finds(rest, W, Y, p, r, size)
  <1>1. PICK D, b : Laid(p, D, b, OnTheWire(p))
    BY WireIs
  <1>2. PICK z : z = OnTheWire(p)
    OBVIOUS
  <1>3. PICK len \in Nat, n \in Nat : len = Len(b) /\ n = Len(D)
    <2>1. Len(b) \in 0 .. MaxLength /\ Len(D) \in 1 .. 3
      BY <1>1 DEF Laid
    <2>2. Len(b) \in Nat /\ Len(D) \in Nat
      BY <2>1, Weights
    <2> QED
      BY <2>2
  <1>4. /\ p = [fh |-> p.fh, body |-> b] /\ b \in Seq(Byte8)
        /\ z \in Seq(Byte8) /\ Len(z) = 1 + n + len /\ z[1] = p.fh
        /\ \A i \in 1 .. n : z[1 + i] = D[i]
        /\ \A i \in 1 .. len : z[1 + n + i] = b[i]
    BY <1>1, <1>2, <1>3 DEF Laid
  <1>5. n \in 1 .. 3 /\ \A s \in Seq(Byte8) :
           (\A i \in 1 .. n : i <= Len(s) => s[i] = D[i]) =>
              /\ n <= Len(s) => ReadLength(s) = [bytes |-> n, len |-> len]
              /\ n > Len(s) => ReadLength(s) = [bytes |-> -1, len |-> 0]
    BY <1>1, <1>3, ReadDump DEF Laid
  <1>6. PICK N \in Nat, Z \in Nat : N = Len(rest) /\ Z = Len(z) /\ N >= 2 /\ Z = 1 + n + len
    <2>1. Len(rest) \in Nat /\ Len(z) \in Nat /\ Len(z) = 1 + n + len /\ Len(rest) >= 2
      BY <1>4
    <2> QED
      BY <2>1
  <1>7. /\ \A i \in 1 .. N : i <= Z => rest[i] = z[i]
        /\ Z <= N => SubSeq(rest, Z + 1, N) \o W = Y
    <2>1. rest \o W = z \o Y /\ N = Len(rest) /\ Z = Len(z) /\ z \in Seq(Byte8)
      BY <1>2, <1>4, <1>6
    <2>2. Arrives(rest, W, z, Y, N, Z)
      BY <2>1, Arrived
    <2> QED
      BY <2>2 DEF Arrives
  <1>8. PICK s : s = Tail(rest)
    OBVIOUS
  <1>9. s \in Seq(Byte8) /\ Len(s) = N - 1 /\ \A i \in 1 .. N - 1 : s[i] = rest[1 + i]
    <2>1. rest # <<>>
      BY <1>6
    <2> QED
      BY <1>6, <1>8, <2>1
  <1>10. ASSUME NEW i \in 1 .. n, i <= Len(s) PROVE s[i] = D[i]
    <2>1. 1 + i \in 1 .. N /\ i \in 1 .. N - 1 /\ 1 + i <= Z
      BY <1>6, <1>9, <1>10
    <2>2. s[i] = rest[1 + i] /\ rest[1 + i] = z[1 + i] /\ z[1 + i] = D[i]
      BY <1>4, <1>7, <1>9, <2>1
    <2> QED
      BY <2>2
  <1>11. r = ReadLength(s)
    BY <1>8
  <1>12. /\ n <= N - 1 => r = [bytes |-> n, len |-> len]
         /\ n > N - 1 => r = [bytes |-> -1, len |-> 0]
    BY <1>5, <1>9, <1>10, <1>11
  <1>13. CASE n <= N - 1
    <2>1. r.bytes = n /\ r.len = len
      BY <1>12, <1>13
    <2>2. r.bytes # -2 /\ r.bytes # -1 /\ 1 + r.bytes + r.len = Z
      BY <1>6, <2>1
    <2>3. ASSUME Z <= N
          PROVE  [fh |-> rest[1], body |-> SubSeq(rest, Z - len + 1, Z)] = p
      <3>1. rest[1] = p.fh
        <4>1. 1 \in 1 .. N /\ 1 <= Z
          BY <1>6
        <4> QED
          BY <1>4, <1>7, <4>1
      <3>2. PICK a \in Nat : a = 1 + n
        OBVIOUS
      <3>3. Z - len + 1 = a + 1 /\ Z = a + len
        BY <1>6, <3>2
      <3>4. PICK e : e = SubSeq(rest, a + 1, a + len)
        OBVIOUS
      <3>5. e \in Seq(Byte8) /\ Len(e) = len /\ \A i \in 1 .. len : e[i] = rest[a + i]
        <4>1. a + len <= Len(rest)
          BY <1>6, <2>3, <3>3
        <4> QED
          BY <3>4, <4>1, TakenOff DEF MqttTakes
      <3>6. ASSUME NEW i \in 1 .. len PROVE e[i] = b[i]
        <4>1. a + i \in 1 .. N /\ a + i <= Z
          BY <2>3, <3>3
        <4>2. e[i] = rest[a + i] /\ rest[a + i] = z[a + i]
          BY <1>7, <3>5, <4>1
        <4>3. z[a + i] = b[i]
          BY <1>4, <3>2
        <4> QED
          BY <4>2, <4>3
      <3>7. e = b
        BY <1>3, <1>4, <3>5, <3>6, SameSeq
      <3> QED
        BY <1>4, <3>1, <3>3, <3>4, <3>7
    <2>4. size = Z /\ Z <= N
      BY <1>6, <2>2
    <2>5. SubSeq(rest, Z + 1, N) \o W = Y
      BY <1>7, <2>4
    <2>6. [fh |-> rest[1], body |-> SubSeq(rest, Z - r.len + 1, Z)] = p
      BY <2>1, <2>3, <2>4, Zenon
    <2> QED
      BY <1>6, <2>4, <2>5, <2>6, Zenon DEF Finds
  <1>14. CASE n > N - 1
    <2>1. r.bytes = -1
      BY <1>12, <1>14
    <2> QED
      BY <2>1
  <1>15. n <= N - 1 \/ n > N - 1
    OBVIOUS
  <1> QED
    BY <1>13, <1>14, <1>15

-----------------------------------------------------------------------------
(* Packing: what the extents hold, gathered, is the packet on the wire.    *)

LEMMA Associated ==
    ASSUME NEW s \in Seq(Byte8), NEW t \in Seq(Byte8), NEW u \in Seq(Byte8)
    PROVE  (s \o t) \o u = s \o (t \o u)
  <1>1. PICK n \in Nat, m \in Nat, k \in Nat : n = Len(s) /\ m = Len(t) /\ k = Len(u)
    <2>1. Len(s) \in Nat /\ Len(t) \in Nat /\ Len(u) \in Nat
      OBVIOUS
    <2> QED
      BY <2>1
  <1>2. PICK v, w : v = s \o t /\ w = t \o u
    OBVIOUS
  <1>3. PICK x, y : x = v \o u /\ y = s \o w
    OBVIOUS
  <1>4. Glues(s, t, v, n, m) /\ Glues(t, u, w, m, k)
    BY <1>1, <1>2, Glued
  <1>5. v \in Seq(Byte8) /\ w \in Seq(Byte8) /\ Len(v) = n + m /\ Len(w) = m + k
    BY <1>4 DEF Glues
  <1>6. PICK a \in Nat, b \in Nat : a = n + m /\ b = m + k
    OBVIOUS
  <1>7. Glues(v, u, x, a, k) /\ Glues(s, w, y, n, b)
    BY <1>1, <1>3, <1>5, <1>6, Glued
  <1>8. /\ x \in Seq(Byte8) /\ y \in Seq(Byte8) /\ Len(x) = a + k /\ Len(y) = n + b
        /\ a + k = n + b
    BY <1>6, <1>7 DEF Glues
  <1>9. ASSUME NEW i \in 1 .. n PROVE x[i] = y[i]
    <2>1. i \in 1 .. a
      BY <1>6
    <2>2. x[i] = v[i] /\ v[i] = s[i] /\ y[i] = s[i]
      BY <1>4, <1>7, <2>1 DEF Glues
    <2> QED
      BY <2>2
  <1>10. ASSUME NEW j \in 1 .. m PROVE x[n + j] = y[n + j]
    <2>1. PICK i \in Nat : i = n + j
      OBVIOUS
    <2>2. i \in 1 .. a /\ j \in 1 .. b
      BY <1>6, <2>1
    <2>3. x[i] = v[i] /\ v[i] = t[j] /\ y[i] = w[j] /\ w[j] = t[j]
      BY <1>4, <1>7, <2>1, <2>2 DEF Glues
    <2> QED
      BY <2>1, <2>3
  <1>11. ASSUME NEW j \in 1 .. k PROVE x[a + j] = y[a + j]
    <2>1. PICK i \in Nat, h \in Nat : i = a + j /\ h = m + j
      OBVIOUS
    <2>2. i = n + h /\ h \in 1 .. b
      BY <1>6, <2>1
    <2>3. x[i] = u[j] /\ y[i] = w[h] /\ w[h] = u[j]
      BY <1>4, <1>7, <2>1, <2>2 DEF Glues
    <2> QED
      BY <2>1, <2>3
  <1>12. ASSUME NEW i \in 1 .. a + k PROVE x[i] = y[i]
    <2>1. CASE i <= n
      BY <1>9, <2>1
    <2>2. CASE i > n /\ i <= a
      <3>1. PICK j \in Nat : j = i - n
        BY <2>2
      <3>2. j \in 1 .. m /\ i = n + j
        BY <1>6, <2>2, <3>1
      <3> QED
        BY <1>10, <3>2
    <2>3. CASE i > a
      <3>1. PICK j \in Nat : j = i - a
        BY <2>3
      <3>2. j \in 1 .. k /\ i = a + j
        BY <1>6, <2>3, <3>1
      <3> QED
        BY <1>11, <3>2
    <2> QED
      BY <2>1, <2>2, <2>3
  <1>13. x = y
    <2>1. Len(x) = Len(y) /\ \A i \in 1 .. Len(x) : x[i] = y[i]
      BY <1>8, <1>12
    <2> QED
      BY <1>8, <2>1, SameSeq
  <1> QED
    BY <1>2, <1>3, <1>13

\* k extents.
Gathers(e, k, z) ==
    /\ k = 1 => z = e[1]
    /\ k = 2 => z = e[1] \o e[2]
    /\ k = 3 => z = (e[1] \o e[2]) \o e[3]

LEMMA Gathered ==
    ASSUME NEW e, Len(e) \in 1 .. 3
    PROVE  Gathers(e, Len(e), Gather(e))
  <1>1. Len(e) \in Nat /\ Len(e) >= 1
    OBVIOUS
  <1>2. PICK w : /\ FlattenSeq(e) = w[Len(e)] /\ w[1] = e[1]
                 /\ \A i \in 2 .. Len(e) : w[i] = w[i - 1] \o e[i]
    BY <1>1, FlattenIs, Zenon
  <1>3. PICK k \in 1 .. 3 : k = Len(e)
    OBVIOUS
  <1>4. /\ FlattenSeq(e) = w[k] /\ w[1] = e[1]
        /\ \A i \in 2 .. k : w[i] = w[i - 1] \o e[i]
    BY <1>2, <1>3
  <1>5. k >= 2 => w[2] = w[1] \o e[2]
    <2>1. k >= 2 => 2 \in 2 .. k
      OBVIOUS
    <2>2. 2 - 1 = 1
      OBVIOUS
    <2> QED
      BY <1>4, <2>1, <2>2
  <1>6. k = 3 => w[3] = w[2] \o e[3]
    <2>1. k = 3 => 3 \in 2 .. k
      OBVIOUS
    <2>2. 3 - 1 = 2
      OBVIOUS
    <2> QED
      BY <1>4, <2>1, <2>2
  <1>7. Gathers(e, k, Gather(e))
    <2>1. Gather(e) = w[k]
      BY <1>4 DEF Gather
    <2>5. w[1] = e[1]
      BY <1>4
    <2>2. CASE k = 1
      BY <2>1, <2>2, <2>5 DEF Gathers
    <2>3. CASE k = 2
      <3>1. w[2] = e[1] \o e[2]
        <4>1. k >= 2
          BY <2>3
        <4> QED
          BY <1>5, <2>5, <4>1, Zenon
      <3>2. Gather(e) = e[1] \o e[2]
        BY <2>1, <2>3, <3>1
      <3> QED
        BY <2>3, <3>2 DEF Gathers
    <2>4. CASE k = 3
      <3>1. w[2] = e[1] \o e[2] /\ w[3] = w[2] \o e[3]
        <4>1. k >= 2
          BY <2>4
        <4> QED
          BY <1>5, <1>6, <2>4, <2>5, <4>1, Zenon
      <3>2. Gather(e) = (e[1] \o e[2]) \o e[3]
        BY <2>1, <2>4, <3>1
      <3> QED
        BY <2>4, <3>2 DEF Gathers
    <2> QED
      BY <2>2, <2>3, <2>4
  <1> QED
    BY <1>3, <1>7

\* An extent of the size of what is written into it.
LEMMA AllocIs ==
    ASSUME NEW s \in Seq(Byte8), NEW n, n = Len(s)
    PROVE  AllocExtent(n, s) = s
  <1>1. n \in Nat /\ s = [i \in 1 .. n |-> s[i]]
    OBVIOUS
  <1>2. AllocExtent(n, s) = [i \in 1 .. n |-> s[i]]
    BY <1>1 DEF AllocExtent
  <1> QED
    BY <1>1, <1>2

LEMMA Word ==
    ASSUME NEW v \in Nat
    PROVE  WB16(v) \in Seq(Byte8) /\ Len(WB16(v)) = 2
  <1>1. v % Base \in Byte8 /\ v \div Base \in Nat
    BY Divided DEF Base, Byte8
  <1>2. (v \div Base) % Base \in Byte8
    BY <1>1, Divided DEF Base, Byte8
  <1> QED
    BY <1>1, <1>2 DEF WB16

\* A number read is written back as it was.
LEMMA WordRead ==
    ASSUME NEW s \in Seq(Byte8), Len(s) = 2
    PROVE  RB16(s) \in Nat /\ WB16(RB16(s)) = s
  <1>1. PICK a \in Byte8, b \in Byte8 : a = s[1] /\ b = s[2]
    <2>1. s[1] \in Byte8 /\ s[2] \in Byte8
      OBVIOUS
    <2> QED
      BY <2>1
  <1>2. s = <<a, b>>
    BY <1>1
  <1>3. a \in 0 .. 255 /\ b \in 0 .. 255 /\ Base = 256 /\ Base > 0
    BY DEF Byte8, Base
  <1>4. (256 * a + b) \div 256 = a /\ (256 * a + b) % 256 = b
    BY <1>3
  <1>5. a % 256 = a
    BY <1>3
  <1>6. RB16(s) = 256 * a + b
    BY <1>1, <1>3 DEF RB16
  <1> QED
    BY <1>2, <1>3, <1>4, <1>5, <1>6 DEF WB16

LEMMA TextIs ==
    ASSUME NEW t \in Seq(Byte8)
    PROVE  /\ PktWriteString(t, Len(t)) = Text(t)
           /\ Text(t) \in Seq(Byte8) /\ Len(Text(t)) = 2 + Len(t)
  <1>1. Len(t) \in Nat /\ SubSeq(t, 1, Len(t)) = t
    OBVIOUS
  <1>2. WB16(Len(t)) \in Seq(Byte8) /\ Len(WB16(Len(t))) = 2
    BY <1>1, Word
  <1>3. PktWriteString(t, Len(t)) = Text(t)
    BY <1>1 DEF PktWriteString, Text
  <1>4. Text(t) \in Seq(Byte8) /\ Len(Text(t)) = 2 + Len(t)
    BY <1>2, JoinIs DEF Text
  <1> QED
    BY <1>3, <1>4

\* A packet whose body is b, of length n, behind its head.
Heads(type, flags, b, n) ==
    /\ Packet(type, flags, b) \in ShortPacket
    /\ FixHead(type, flags, n) \o b = OnTheWire(Packet(type, flags, b))
    /\ FixHead(type, flags, n) \in Seq(Byte8)
    /\ FixHead(type, flags, n)[1] = type * 16 + flags
    /\ Tail(FixHead(type, flags, n)) = DumpLength(n)

LEMMA Packed ==
    ASSUME NEW type \in 0 .. 15, NEW flags \in 0 .. 15, NEW b \in Seq(Byte8),
           Len(b) <= MaxLength
    PROVE  Heads(type, flags, b, Len(b))
  <1>0. PICK n \in Nat : n = Len(b) /\ n <= MaxLength
    OBVIOUS
  <1>1. type * 16 + flags \in Byte8
    BY DEF Byte8, Base
  <1>2. PICK f \in Byte8 : f = type * 16 + flags
    BY <1>1
  <1>3. Packet(type, flags, b) = [fh |-> f, body |-> b]
    BY <1>2 DEF Packet
  <1>4. n \in 0 .. MaxLength
    BY <1>0, Weights
  <1>5. PICK D \in Seq(Byte8) : D = DumpLength(n)
    BY <1>4, ReadDump
  <1>6. FixHead(type, flags, n) = <<f>> \o D
    BY <1>2, <1>5 DEF FixHead
  <1>7. <<f>> \o D \in Seq(Byte8) /\ (<<f>> \o D)[1] = f /\ Tail(<<f>> \o D) = D
    OBVIOUS
  <1>8. OnTheWire([fh |-> f, body |-> b]) = (<<f>> \o D) \o b
    BY <1>0, <1>5 DEF OnTheWire
  <1>9. [fh |-> f, body |-> b] \in ShortPacket
    BY DEF ShortPacket, Short
  <1>10. Heads(type, flags, b, n)
    BY <1>2, <1>3, <1>5, <1>6, <1>7, <1>8, <1>9 DEF Heads
  <1> QED
    BY <1>0, <1>10

\* Extents that hold the packet that is meant.
Packs(extents, ask) ==
    ask \in ShortPacket /\ Gather(extents) = OnTheWire(ask)

LEMMA PackedOnce ==
    ASSUME NEW type \in 0 .. 15, NEW flags \in 0 .. 15, NEW b \in Seq(Byte8), NEW n,
           n = Len(b), Len(b) <= MaxLength
    PROVE  Packs(<<FixHead(type, flags, n), b>>, Packet(type, flags, b))
  <1>1. /\ Packet(type, flags, b) \in ShortPacket
        /\ FixHead(type, flags, n) \o b = OnTheWire(Packet(type, flags, b))
    BY Packed DEF Heads
  <1>2. PICK e : e = <<FixHead(type, flags, n), b>>
    OBVIOUS
  <1>3. Gather(<<FixHead(type, flags, n), b>>) = FixHead(type, flags, n) \o b
    <2>1. Len(e) = 2 /\ Len(e) \in 1 .. 3 /\ e[1] = FixHead(type, flags, n) /\ e[2] = b
      BY <1>2
    <2>2. Gathers(e, Len(e), Gather(e))
      BY <2>1, Gathered, Zenon
    <2> QED
      BY <1>2, <2>1, <2>2 DEF Gathers
  <1> QED
    BY <1>1, <1>3 DEF Packs

LEMMA PackedTwice ==
    ASSUME NEW type \in 0 .. 15, NEW flags \in 0 .. 15, NEW b \in Seq(Byte8),
           NEW c \in Seq(Byte8), NEW n, n = Len(b) + Len(c), n <= MaxLength
    PROVE  Packs(<<FixHead(type, flags, n), b, c>>, Packet(type, flags, b \o c))
  <1>1. PICK d : d = b \o c
    OBVIOUS
  <1>2. d \in Seq(Byte8) /\ Len(d) = n
    <2>1. Glues(b, c, d, Len(b), Len(c))
      BY <1>1, Glued
    <2> QED
      BY <2>1 DEF Glues
  <1>3. PICK h : h = FixHead(type, flags, n)
    OBVIOUS
  <1>4. /\ Packet(type, flags, d) \in ShortPacket
        /\ h \o d = OnTheWire(Packet(type, flags, d)) /\ h \in Seq(Byte8)
    <2>1. Heads(type, flags, d, n)
      BY <1>2, Packed
    <2> QED
      BY <1>3, <2>1 DEF Heads
  <1>5. Gather(<<h, b, c>>) = (h \o b) \o c
    <2>1. PICK e : e = <<h, b, c>>
      OBVIOUS
    <2>2. Len(e) = 3 /\ Len(e) \in 1 .. 3 /\ e[1] = h /\ e[2] = b /\ e[3] = c
      BY <2>1
    <2>3. Gathers(e, Len(e), Gather(e))
      BY <2>2, Gathered, Zenon
    <2> QED
      BY <2>1, <2>2, <2>3 DEF Gathers
  <1>6. (h \o b) \o c = h \o d
    BY <1>1, <1>4, Associated
  <1> QED
    BY <1>1, <1>3, <1>4, <1>5, <1>6 DEF Packs

\* A length of one digit.
LEMMA OneDigit ==
    ASSUME NEW len \in Nat, len < DigitRadix
    PROVE  DumpLength(len) = <<len>>
  <1> DEFINE fits == {n \in 1 .. 4 : len < Weight[n + 1]}
             Digit(i) == (len \div Weight[i]) % DigitRadix
  <1>1. 1 \in fits /\ fits \subseteq Nat /\ \A m \in fits : 1 <= m
    BY Weights
  <1>2. Min(fits) = 1 /\ fits # {}
    <2> HIDE DEF fits
    <2> QED
      BY <1>1, LeastIs
  <1>3. Digit(1) = len
    <2>1. len \div 1 = len /\ Weight[1] = 1 /\ DigitRadix \in Nat
      BY Weights
    <2>2. len % DigitRadix = len
      BY <2>1
    <2> QED
      BY <2>1, <2>2
  <1>4. DumpLength(len) =
          IF fits = {} THEN <<>>
          ELSE [i \in 1 .. Min(fits) |->
                  IF i < Min(fits) THEN Digit(i) + DigitRadix ELSE Digit(i)]
    BY DEF DumpLength
  <1> HIDE DEF fits
  <1>5. DumpLength(len) = [i \in 1 .. 1 |-> IF i < 1 THEN Digit(i) + DigitRadix ELSE Digit(i)]
    BY <1>2, <1>4
  <1>6. [i \in 1 .. 1 |-> IF i < 1 THEN Digit(i) + DigitRadix ELSE Digit(i)]
          = [i \in 1 .. 1 |-> len]
    <2> HIDE DEF Digit
    <2>1. \A i \in 1 .. 1 : i = 1 /\ ~(i < 1)
      OBVIOUS
    <2> QED
      BY <1>3, <2>1
  <1>7. [i \in 1 .. 1 |-> len] = <<len>>
    OBVIOUS
  <1> QED
    BY <1>5, <1>6, <1>7

LEMMA Pair ==
    ASSUME NEW a \in Byte8, NEW b \in Byte8
    PROVE  <<a>> \o <<b>> = <<a, b>> /\ <<a, b>> \in Seq(Byte8) /\ Len(<<a, b>>) = 2
  <1>1. PICK s \in Seq(Byte8), t \in Seq(Byte8) : s = <<a>> /\ t = <<b>>
    <2>1. <<a>> \in Seq(Byte8) /\ <<b>> \in Seq(Byte8)
      OBVIOUS
    <2> QED
      BY <2>1
  <1>2. Len(s) = 1 /\ Len(t) = 1 /\ s[1] = a /\ t[1] = b
    BY <1>1
  <1>3. PICK z : z = s \o t
    OBVIOUS
  <1>4. Glues(s, t, z, 1, 1)
    BY <1>2, <1>3, Glued
  <1>5. z \in Seq(Byte8) /\ Len(z) = 2 /\ z[1] = a /\ z[2] = b
    <2>1. z[1 + 1] = t[1] /\ 1 + 1 = 2 /\ z[1] = s[1]
      BY <1>4 DEF Glues
    <2> QED
      BY <1>2, <1>4, <2>1 DEF Glues
  <1>6. z = <<a, b>>
    BY <1>5
  <1> QED
    BY <1>1, <1>3, <1>5, <1>6

\* Extents put together.
LEMMA Couples ==
    ASSUME NEW x, NEW y, NEW z
    PROVE  /\ <<x>> \o <<y>> = <<x, y>> /\ <<x>> \o <<y, z>> = <<x, y, z>>
           /\ <<x, y>> \o <<z>> = <<x, y, z>> /\ <<x, y>> \o <<>> = <<x, y>>
  <1> DEFINE S == {x, y, z}
  <1>1. <<x>> \o <<y>> = <<x, y>>
    <2>1. PICK s \in Seq(S), t \in Seq(S), u \in Seq(S) :
              s = <<x>> /\ t = <<y>> /\ u = <<x, y>>
      <3>1. <<x>> \in Seq(S) /\ <<y>> \in Seq(S) /\ <<x, y>> \in Seq(S)
        OBVIOUS
      <3> QED
        BY <3>1
    <2>2. /\ Len(s) = 1 /\ Len(t) = 1 /\ Len(u) = 2
          /\ s[1] = x /\ t[1] = y /\ u[1] = x /\ u[2] = y
      BY <2>1
    <2>3. PICK v : v = s \o t
      OBVIOUS
    <2>4. Chains(S, s, t, v, 1, 1)
      BY <2>2, <2>3, Chained
    <2>5. v \in Seq(S) /\ Len(v) = 2 /\ v[1] = s[1] /\ v[1 + 1] = t[1]
      BY <2>4 DEF Chains
    <2>6. v = u
      BY <2>2, <2>5
    <2> QED
      BY <2>1, <2>3, <2>6
  <1>2. <<x>> \o <<y, z>> = <<x, y, z>>
    <2>1. PICK s \in Seq(S), t \in Seq(S), u \in Seq(S) :
              s = <<x>> /\ t = <<y, z>> /\ u = <<x, y, z>>
      <3>1. <<x>> \in Seq(S) /\ <<y, z>> \in Seq(S) /\ <<x, y, z>> \in Seq(S)
        OBVIOUS
      <3> QED
        BY <3>1
    <2>2. /\ Len(s) = 1 /\ Len(t) = 2 /\ Len(u) = 3
          /\ s[1] = x /\ t[1] = y /\ t[2] = z /\ u[1] = x /\ u[2] = y /\ u[3] = z
      BY <2>1
    <2>3. PICK v : v = s \o t
      OBVIOUS
    <2>4. Chains(S, s, t, v, 1, 2)
      BY <2>2, <2>3, Chained
    <2>5. v \in Seq(S) /\ Len(v) = 3 /\ v[1] = s[1] /\ v[1 + 1] = t[1] /\ v[1 + 2] = t[2]
      BY <2>4 DEF Chains
    <2>6. v = u
      BY <2>2, <2>5
    <2> QED
      BY <2>1, <2>3, <2>6
  <1>3. <<x, y>> \o <<z>> = <<x, y, z>>
    <2>1. PICK s \in Seq(S), t \in Seq(S), u \in Seq(S) :
              s = <<x, y>> /\ t = <<z>> /\ u = <<x, y, z>>
      <3>1. <<x, y>> \in Seq(S) /\ <<z>> \in Seq(S) /\ <<x, y, z>> \in Seq(S)
        OBVIOUS
      <3> QED
        BY <3>1
    <2>2. /\ Len(s) = 2 /\ Len(t) = 1 /\ Len(u) = 3
          /\ s[1] = x /\ s[2] = y /\ t[1] = z /\ u[1] = x /\ u[2] = y /\ u[3] = z
      BY <2>1
    <2>3. PICK v : v = s \o t
      OBVIOUS
    <2>4. Chains(S, s, t, v, 2, 1)
      BY <2>2, <2>3, Chained
    <2>5. v \in Seq(S) /\ Len(v) = 3 /\ v[1] = s[1] /\ v[2] = s[2] /\ v[2 + 1] = t[1]
      BY <2>4 DEF Chains
    <2>6. v = u
      BY <2>2, <2>5
    <2> QED
      BY <2>1, <2>3, <2>6
  <1>4. <<x, y>> \o <<>> = <<x, y>>
    <2>1. PICK s \in Seq(S) : s = <<x, y>>
      <3>1. <<x, y>> \in Seq(S)
        OBVIOUS
      <3> QED
        BY <3>1
    <2>2. s \o <<>> = s
      OBVIOUS
    <2> QED
      BY <2>1, <2>2
  <1> QED
    BY <1>1, <1>2, <1>3, <1>4

\* The packets of two bytes behind the head, and those of none.
LEMMA Acknowledged ==
    ASSUME NEW type \in 0 .. 15, NEW flags \in 0 .. 15, NEW s \in Seq(Byte8), Len(s) = 2
    PROVE  /\ Packs(<<<<type * 16 + flags, 2>> \o WB16(RB16(s))>>, Packet(type, flags, s))
           /\ Len(Gather(<<<<type * 16 + flags, 2>> \o WB16(RB16(s))>>)) = 4
  <1>1. PICK f \in Byte8 : f = type * 16 + flags
    <2>1. type * 16 + flags \in Byte8
      BY DEF Byte8, Base
    <2> QED
      BY <2>1
  <1>2. WB16(RB16(s)) = s /\ 2 <= MaxLength
    BY WordRead, Weights
  <1>3. FixHead(type, flags, 2) = <<f>> \o <<2>>
    <2>1. DumpLength(2) = <<2>>
      BY Weights, OneDigit
    <2> QED
      BY <1>1, <2>1 DEF FixHead
  <1>4. <<f>> \o <<2>> = <<f, 2>> /\ <<f, 2>> \in Seq(Byte8) /\ Len(<<f, 2>>) = 2
    <2>1. 2 \in Byte8
      BY DEF Byte8, Base
    <2> QED
      BY <2>1, Pair
  <1>5. /\ Packet(type, flags, s) \in ShortPacket
        /\ FixHead(type, flags, 2) \o s = OnTheWire(Packet(type, flags, s))
    BY <1>2, Packed DEF Heads
  <1>6. Gather(<<<<f, 2>> \o s>>) = <<f, 2>> \o s
    <2>1. PICK g, e : g = <<f, 2>> \o s /\ e = <<g>>
      OBVIOUS
    <2>2. Len(e) = 1 /\ Len(e) \in 1 .. 3 /\ e[1] = g
      BY <2>1
    <2>3. Gathers(e, Len(e), Gather(e))
      BY <2>2, Gathered, Zenon
    <2> QED
      BY <2>1, <2>2, <2>3 DEF Gathers
  <1>7. Len(<<f, 2>> \o s) = 4
    <2>1. PICK d : d = <<f, 2>>
      OBVIOUS
    <2>2. Glues(d, s, d \o s, 2, 2)
      BY <1>4, <2>1, Glued
    <2> QED
      BY <2>1, <2>2 DEF Glues
  <1> QED
    BY <1>1, <1>2, <1>3, <1>4, <1>5, <1>6, <1>7 DEF Packs

LEMMA Bare ==
    ASSUME NEW type \in 0 .. 15
    PROVE  Packs(<<<<type * 16, 0>>>>, Packet(type, 0, <<>>))
  <1>1. PICK f \in Byte8 : f = type * 16 + 0 /\ f = type * 16
    <2>1. type * 16 \in Byte8 /\ type * 16 + 0 = type * 16
      BY DEF Byte8, Base
    <2> QED
      BY <2>1
  <1>2. FixHead(type, 0, 0) = <<f>> \o <<0>>
    <2>1. DumpLength(0) = <<0>>
      BY Weights, OneDigit
    <2> QED
      BY <1>1, <2>1 DEF FixHead
  <1>3. <<f>> \o <<0>> = <<f, 0>>
    <2>1. 0 \in Byte8
      BY DEF Byte8, Base
    <2> QED
      BY <2>1, Pair
  <1>4. <<>> \in Seq(Byte8) /\ Len(<<>>) = 0 /\ 0 <= MaxLength
    BY Weights
  <1>5. /\ Packet(type, 0, <<>>) \in ShortPacket
        /\ FixHead(type, 0, 0) \o <<>> = OnTheWire(Packet(type, 0, <<>>))
        /\ FixHead(type, 0, 0) \in Seq(Byte8)
    <2>1. PICK e \in Seq(Byte8) : e = <<>> /\ Len(e) = 0 /\ Len(e) <= MaxLength
      BY <1>4
    <2>2. 0 \in 0 .. 15
      OBVIOUS
    <2>3. /\ Packet(type, 0, e) \in ShortPacket
          /\ FixHead(type, 0, 0) \o e = OnTheWire(Packet(type, 0, e))
          /\ FixHead(type, 0, 0) \in Seq(Byte8)
      <3>1. Heads(type, 0, e, Len(e))
        BY <2>1, <2>2, Packed, Zenon
      <3>2. Heads(type, 0, e, 0)
        BY <2>1, <3>1
      <3> QED
        BY <3>2 DEF Heads
    <2> QED
      BY <2>1, <2>3
  <1>6. FixHead(type, 0, 0) \o <<>> = FixHead(type, 0, 0)
    BY <1>5
  <1>7. Gather(<<<<f, 0>>>>) = <<f, 0>>
    <2>1. PICK g, e : g = <<f, 0>> /\ e = <<g>>
      OBVIOUS
    <2>2. Len(e) = 1 /\ Len(e) \in 1 .. 3 /\ e[1] = g
      BY <2>1
    <2>3. Gathers(e, Len(e), Gather(e))
      BY <2>2, Gathered, Zenon
    <2> QED
      BY <2>1, <2>2, <2>3 DEF Gathers
  <1> QED
    BY <1>1, <1>2, <1>3, <1>5, <1>6, <1>7 DEF Packs

\* Type and flags out of the first byte.
LEMMA FirstIs ==
    ASSUME NEW type \in 0 .. 15, NEW flags \in 0 .. 15, NEW b
    PROVE  /\ Type(Packet(type, flags, b)) = type /\ Flags(Packet(type, flags, b)) = flags
           /\ Packet(type, flags, b).body = b
  <1>1. (16 * type + flags) \div 16 = type /\ (16 * type + flags) % 16 = flags
    BY Division
  <1>2. 16 * type + flags = type * 16 + flags
    OBVIOUS
  <1> QED
    BY <1>1, <1>2 DEF Type, Flags, Packet

\* What the broker and the answers need of a packet the agent meant.
Meant(p) ==
    /\ p \in ShortPacket
    /\ Type(p) \in {SUBSCRIBE, UNSUBSCRIBE} => Len(p.body) >= 2
    /\ (Type(p) = PUBLISH /\ (Flags(p) \div 2) % 4 \in {1, 2}) =>
          RB16(p.body) \in Nat /\ RB16(p.body) + 4 <= Len(p.body)

\* The parts of a message.
LEMMA MessageIs ==
    ASSUME NEW m \in Messages
    PROVE  /\ m.topic \in Seq(Byte8) /\ m.payload \in Seq(Byte8) /\ m.qos \in 0 .. 2
           /\ m.dup \in BOOLEAN /\ m.retain \in 0 .. 1
           /\ Len(m.topic) + Len(m.payload) + 4 <= MaxLength
  <1>1. m \in [topic : Bytes, payload : Bytes, qos : 0 .. 2, dup : BOOLEAN, retain : 0 .. 1]
    BY MqttAssumption
  <1>2. Len(m.topic) + Len(m.payload) + 4 <= MaxLength
    BY MqttAssumption
  <1> QED
    BY <1>1, <1>2 DEF Bytes

PublishFlags(m) == m.retain + 2 * m.qos + (IF m.dup THEN 8 ELSE 0)

LEMMA FlagsAre ==
    ASSUME NEW m \in Messages
    PROVE  /\ PublishFlags(m) \in 0 .. 15
           /\ (PublishFlags(m) \div 2) % 4 = m.qos
           /\ PublishFlags(m) = (2 * m.qos + m.retain) + (IF m.dup THEN 8 ELSE 0)
           /\ 2 * m.qos + m.retain \in 0 .. 7
  <1>1. PICK q \in 0 .. 2, r \in 0 .. 1, d \in {0, 8} :
            q = m.qos /\ r = m.retain /\ d = IF m.dup THEN 8 ELSE 0
    BY MessageIs
  <1>2. q \in {0, 1, 2} /\ r \in {0, 1} /\ d \in {0, 8}
    OBVIOUS
  <1>3. r + 2 * q + d \in 0 .. 15 /\ ((r + 2 * q + d) \div 2) % 4 = q
        /\ r + 2 * q + d = (2 * q + r) + d /\ 2 * q + r \in 0 .. 7
    BY <1>2
  <1> QED
    BY <1>1, <1>3 DEF PublishFlags

\* The identifier's part of a PUBLISH, and its first extent.
IdPart(qos, id) == IF qos > 0 THEN WB16(id) ELSE <<>>

LEMMA IdIs ==
    ASSUME NEW qos \in 0 .. 2, NEW id \in Nat
    PROVE  /\ IdPart(qos, id) \in Seq(Byte8)
           /\ Len(IdPart(qos, id)) = IF qos > 0 THEN 2 ELSE 0
  <1>1. WB16(id) \in Seq(Byte8) /\ Len(WB16(id)) = 2
    BY Word
  <1>2. <<>> \in Seq(Byte8) /\ Len(<<>>) = 0
    OBVIOUS
  <1>3. CASE qos > 0
    BY <1>1, <1>3 DEF IdPart
  <1>4. CASE ~(qos > 0)
    BY <1>2, <1>4 DEF IdPart
  <1> QED
    BY <1>3, <1>4

\* A text read from the start of a body is at most as long as it is.
LEMMA TextRead ==
    ASSUME NEW t \in Seq(Byte8), NEW u \in Seq(Byte8)
    PROVE  RB16(Text(t) \o u) \in 0 .. Len(t)
  <1>1. PICK n \in Nat : n = Len(t)
    OBVIOUS
  <1>2. PICK a \in Nat, b \in 0 .. 255 : a = n \div 256 /\ b = n % 256 /\ n = 256 * a + b
    <2>1. n \div 256 \in Nat /\ n % 256 \in 0 .. 255 /\ n = 256 * (n \div 256) + (n % 256)
      BY Divided
    <2> QED
      BY <2>1
  <1>3. a % 256 \in Nat /\ a % 256 <= a
    OBVIOUS
  <1>4. PICK c \in Nat : c = a % 256 /\ c <= a
    BY <1>3
  <1>5. WB16(n) = <<c, b>>
    BY <1>2, <1>4 DEF WB16, Base
  <1>6. WB16(n) \in Seq(Byte8) /\ Len(WB16(n)) = 2
    BY Word
  <1>7. PICK v \in Seq(Byte8) : v = Text(t) /\ Len(v) = 2 + n
    BY <1>1, TextIs
  <1>8. v[1] = c /\ v[2] = b
    <2>1. PICK w \in Seq(Byte8) : w = <<c, b>> /\ Len(w) = 2
      BY <1>5, <1>6
    <2>2. v = w \o t
      BY <1>1, <1>5, <1>7, <2>1 DEF Text
    <2>3. Glues(w, t, v, 2, n)
      BY <1>1, <2>1, <2>2, Glued
    <2>4. v[1] = w[1] /\ v[2] = w[2]
      BY <2>3 DEF Glues
    <2> QED
      BY <2>1, <2>4
  <1>9. PICK z : z = v \o u
    OBVIOUS
  <1>10. z[1] = v[1] /\ z[2] = v[2]
    <2>1. PICK k \in Nat : k = 2 + n
      OBVIOUS
    <2>2. Glues(v, u, z, k, Len(u))
      BY <1>7, <1>9, <2>1, Glued
    <2>3. 1 \in 1 .. k /\ 2 \in 1 .. k
      BY <2>1
    <2> QED
      BY <2>2, <2>3 DEF Glues
  <1>11. RB16(z) = c * 256 + b
    BY <1>8, <1>10 DEF RB16, Base
  <1>12. c * 256 + b \in 0 .. n
    BY <1>2, <1>4
  <1> QED
    BY <1>1, <1>7, <1>9, <1>11, <1>12

\* The body of a PUBLISH, in two parts.
LEMMA PublishBody ==
    ASSUME NEW m \in Messages, NEW id \in Nat
    PROVE  \E b \in Seq(Byte8), c \in Seq(Byte8) :
              /\ b = Text(m.topic) \o IdPart(m.qos, id) /\ c = m.payload
              /\ Len(b) = Len(m.topic) + 2 + (IF m.qos > 0 THEN 2 ELSE 0)
              /\ b \o c \in Seq(Byte8) /\ Len(b \o c) = Len(b) + Len(c)
              /\ Len(b \o c) <= MaxLength
              /\ Publish(m, id) = Packet(PUBLISH, PublishFlags(m), b \o c)
              /\ RB16(b \o c) \in 0 .. Len(m.topic)
  <1>1. PICK t \in Seq(Byte8), c \in Seq(Byte8), q \in 0 .. 2 :
            t = m.topic /\ c = m.payload /\ q = m.qos
    BY MessageIs
  <1>2. PICK v \in Seq(Byte8), w \in Seq(Byte8) : v = Text(t) /\ w = IdPart(q, id)
    BY TextIs, IdIs
  <1>3. PICK n \in Nat, k \in Nat, j \in {0, 2} :
            n = Len(t) /\ k = Len(c) /\ j = IF q > 0 THEN 2 ELSE 0
    OBVIOUS
  <1>4. Len(v) = 2 + n /\ Len(w) = j
    BY <1>2, <1>3, TextIs, IdIs
  <1>5. n + k + 4 <= MaxLength
    BY <1>1, <1>3, MessageIs
  <1>6. PICK b : b = v \o w
    OBVIOUS
  <1>7. Glues(v, w, b, Len(v), Len(w))
    BY <1>6, Glued
  <1>8. b \in Seq(Byte8) /\ Len(b) = 2 + n + j
    BY <1>4, <1>7 DEF Glues
  <1>9. PICK z : z = b \o c
    OBVIOUS
  <1>10. Glues(b, c, z, Len(b), Len(c))
    BY <1>8, <1>9, Glued
  <1>11. z \in Seq(Byte8) /\ Len(z) = Len(b) + Len(c) /\ Len(z) = 2 + n + j + k
    BY <1>3, <1>8, <1>10 DEF Glues
  <1>12. Len(z) <= MaxLength
    BY <1>3, <1>5, <1>11, Weights
  <1>13. Publish(m, id) = Packet(PUBLISH, PublishFlags(m), z)
    BY <1>1, <1>2, <1>6, <1>9 DEF Publish, PublishFlags, IdPart
  <1>14. RB16(z) \in 0 .. n
    <2>1. v \o (w \o c) = z
      BY <1>6, <1>9, Associated
    <2>2. PICK u \in Seq(Byte8) : u = w \o c
      BY JoinIs
    <2>3. RB16(Text(t) \o u) \in 0 .. Len(t)
      BY TextRead
    <2> QED
      BY <1>2, <1>3, <2>1, <2>2, <2>3
  <1>15. Len(b) = n + 2 + j
    BY <1>8
  <1> QED
    BY <1>1, <1>2, <1>3, <1>6, <1>8, <1>9, <1>11, <1>12, <1>13, <1>14, <1>15

LEMMA PublishMeant ==
    ASSUME NEW m \in Messages, NEW id \in Nat
    PROVE  Publish(m, id) \in ShortPacket /\ Meant(Publish(m, id))
  <1>1. PICK b \in Seq(Byte8), c \in Seq(Byte8) :
            /\ Len(b) = Len(m.topic) + 2 + (IF m.qos > 0 THEN 2 ELSE 0)
            /\ b \o c \in Seq(Byte8) /\ Len(b \o c) = Len(b) + Len(c)
            /\ Len(b \o c) <= MaxLength
            /\ Publish(m, id) = Packet(PUBLISH, PublishFlags(m), b \o c)
            /\ RB16(b \o c) \in 0 .. Len(m.topic)
    BY PublishBody
  <1>2. PICK z \in Seq(Byte8), p \in {Publish(m, id)} : z = b \o c /\ p = Publish(m, id)
    BY <1>1
  <1>3. PUBLISH \in 0 .. 15 /\ PUBLISH \notin {SUBSCRIBE, UNSUBSCRIBE}
    BY DEF PUBLISH, SUBSCRIBE, UNSUBSCRIBE
  <1>4. PICK f \in 0 .. 15 : f = PublishFlags(m) /\ (f \div 2) % 4 = m.qos
    BY FlagsAre
  <1>5. p = Packet(PUBLISH, f, z)
    BY <1>1, <1>2, <1>4
  <1>6. p \in ShortPacket
    <2>1. Len(z) <= MaxLength
      BY <1>1, <1>2
    <2>2. Heads(PUBLISH, f, z, Len(z))
      BY <1>3, <2>1, Packed
    <2> QED
      BY <1>5, <2>2 DEF Heads
  <1>7. Type(p) = PUBLISH /\ Flags(p) = f /\ p.body = z
    BY <1>3, <1>5, FirstIs
  <1>8. m.qos \in {1, 2} => RB16(z) \in Nat /\ RB16(z) + 4 <= Len(z)
    <2>1. PICK n \in Nat, k \in Nat, j \in Nat :
              n = Len(m.topic) /\ k = Len(c) /\ j = RB16(z) /\ j <= n
      <3>1. Len(m.topic) \in Nat /\ Len(c) \in Nat
        BY MessageIs
      <3>2. RB16(z) \in 0 .. Len(m.topic)
        BY <1>1, <1>2
      <3> QED
        BY <3>1, <3>2
    <2>2. m.qos \in {1, 2} => m.qos > 0
      OBVIOUS
    <2>3. m.qos \in {1, 2} => Len(z) = n + 2 + 2 + k
      BY <1>1, <1>2, <2>1, <2>2
    <2> QED
      BY <2>1, <2>3
  <1> QED
    BY <1>2, <1>3, <1>4, <1>6, <1>7, <1>8 DEF Meant

\* A PUBLISH as it is packed, with its flag set when it is passed again.
LEMMA PublishPacked ==
    ASSUME NEW m \in Messages, NEW id \in Nat
    PROVE  LET fresh == PackPublishPkt(id, m.topic, m.payload, m.qos, m.retain)
           IN  Packs(IF m.dup THEN SetPktDup(fresh) ELSE fresh, Publish(m, id))
  <1>1. PICK b \in Seq(Byte8), c \in Seq(Byte8) :
            /\ b = Text(m.topic) \o IdPart(m.qos, id) /\ c = m.payload
            /\ Len(b) = Len(m.topic) + 2 + (IF m.qos > 0 THEN 2 ELSE 0)
            /\ b \o c \in Seq(Byte8) /\ Len(b \o c) = Len(b) + Len(c)
            /\ Len(b \o c) <= MaxLength
            /\ Publish(m, id) = Packet(PUBLISH, PublishFlags(m), b \o c)
            /\ RB16(b \o c) \in 0 .. Len(m.topic)
    BY PublishBody
  <1>2. PICK n \in Nat, k \in Nat, j \in {0, 2}, l \in Nat :
            /\ n = Len(m.topic) /\ k = Len(c) /\ j = (IF m.qos > 0 THEN 2 ELSE 0)
            /\ l = n + k + 2 + j
    <2>1. Len(m.topic) \in Nat /\ Len(c) \in Nat
      BY MessageIs
    <2> QED
      BY <2>1
  <1>3. Len(b) = l - k /\ l = Len(b) + Len(c) /\ l <= MaxLength
    <2>1. Len(b) = n + 2 + j
      <3>1. Len(b) = Len(m.topic) + 2 + (IF m.qos > 0 THEN 2 ELSE 0)
        BY <1>1
      <3> QED
        BY <1>2, <3>1
    <2>2. Len(b \o c) = Len(b) + Len(c) /\ Len(b \o c) <= MaxLength
      BY <1>1
    <2>3. k = Len(c) /\ l = n + k + 2 + j /\ j \in Nat
      BY <1>2
    <2>4. Len(b) = l - k /\ l = Len(b) + Len(c)
      BY <2>1, <2>3
    <2> QED
      BY <2>2, <2>4
  <1>4. PUBLISH \in 0 .. 15
    BY DEF PUBLISH
  <1>5. PICK f \in 0 .. 7 : f = 2 * m.qos + m.retain
    BY FlagsAre
  <1>6. PICK g \in 0 .. 15 : g = PublishFlags(m) /\ g = f + (IF m.dup THEN 8 ELSE 0)
    BY <1>5, FlagsAre
  <1>7. PICK h, i : h = FixHead(PUBLISH, f, l) /\ i = FixHead(PUBLISH, g, l)
    OBVIOUS
  <1>8. AllocExtent(l - k, PktWriteString(m.topic, Len(m.topic)) \o IdPart(m.qos, id)) = b
    <2>1. PktWriteString(m.topic, Len(m.topic)) = Text(m.topic)
      BY MessageIs, TextIs
    <2> QED
      BY <1>1, <1>3, <2>1, AllocIs
  <1>9. PICK fresh : fresh = PackPublishPkt(id, m.topic, m.payload, m.qos, m.retain)
    OBVIOUS
  <1>10. fresh = IF c # <<>> THEN <<h, b, c>> ELSE <<h, b>>
    <2>1. fresh = <<h, b>> \o (IF c # <<>> THEN <<c>> ELSE <<>>)
      <3>1. Len(m.topic) + Len(m.payload) + 2 + (IF m.qos > 0 THEN 2 ELSE 0) = l
            /\ Len(m.payload) = k
        BY <1>1, <1>2
      <3> QED
        BY <1>1, <1>5, <1>7, <1>8, <1>9, <3>1 DEF PackPublishPkt, IdPart
    <2>2. <<h, b>> \o <<c>> = <<h, b, c>> /\ <<h, b>> \o <<>> = <<h, b>>
      BY Couples, Zenon
    <2> QED
      BY <2>1, <2>2
  <1>11. PICK e : e = IF m.dup THEN SetPktDup(fresh) ELSE fresh
    OBVIOUS
  <1>12. e = IF c # <<>> THEN <<i, b, c>> ELSE <<i, b>>
    <2>1. CASE ~m.dup
      <3>1. g = f
        BY <1>6, <2>1
      <3> QED
        BY <1>7, <1>10, <1>11, <2>1, <3>1
    <2>2. CASE m.dup
      <3>1. <<h[1] + 8>> \o Tail(h) = i
        <4>1. l \in 0 .. MaxLength
          BY <1>3, Weights
        <4>2. PICK D \in Seq(Byte8) : D = DumpLength(l)
          BY <4>1, ReadDump
        <4>3. PICK x \in Nat : x = PUBLISH * 16 + f
          BY <1>4
        <4>4. h = <<x>> \o D
          BY <1>7, <4>2, <4>3 DEF FixHead
        <4>5. h[1] = x /\ Tail(h) = D
          BY <4>2, <4>4
        <4>6. x + 8 = PUBLISH * 16 + g
          BY <1>4, <1>6, <2>2, <4>3
        <4>7. i = <<x + 8>> \o D
          BY <1>7, <4>2, <4>6 DEF FixHead
        <4> QED
          BY <4>5, <4>7
      <3>2. CASE c # <<>>
        <4>1. fresh[1] = h /\ Tail(fresh) = <<b, c>>
          BY <1>10, <3>2
        <4>2. e = <<i>> \o <<b, c>>
          BY <1>11, <2>2, <3>1, <4>1 DEF SetPktDup
        <4>3. e = <<i, b, c>>
          BY <4>2, Couples, Zenon
        <4> QED
          BY <3>2, <4>3
      <3>3. CASE c = <<>>
        <4>1. fresh[1] = h /\ Tail(fresh) = <<b>>
          BY <1>10, <3>3
        <4>2. e = <<i>> \o <<b>>
          BY <1>11, <2>2, <3>1, <4>1 DEF SetPktDup
        <4>3. e = <<i, b>>
          BY <4>2, Couples, Zenon
        <4> QED
          BY <3>3, <4>3
      <3> QED
        BY <3>2, <3>3
    <2> QED
      BY <2>1, <2>2
  <1>13. Packs(e, Packet(PUBLISH, g, b \o c))
    <2>1. CASE c # <<>>
      <3>1. Packs(<<i, b, c>>, Packet(PUBLISH, g, b \o c))
        BY <1>3, <1>4, <1>7, PackedTwice
      <3> QED
        BY <1>12, <2>1, <3>1
    <2>2. CASE c = <<>>
      <3>1. b \o c = b /\ Len(b) = l
        BY <1>2, <1>3, <2>2
      <3>2. Packs(<<i, b>>, Packet(PUBLISH, g, b))
        BY <1>3, <1>4, <1>7, <3>1, PackedOnce
      <3> QED
        BY <1>12, <2>2, <3>1, <3>2
    <2> QED
      BY <2>1, <2>2
  <1> QED
    BY <1>1, <1>6, <1>9, <1>11, <1>13

\* A head whose length grows by n.
Regrows(type, flags, l, n, b, c) ==
    Append(Regrown(<<FixHead(type, flags, l), b>>, n), c) = <<FixHead(type, flags, l + n), b, c>>

LEMMA RegrownIs ==
    ASSUME NEW type \in 0 .. 15, NEW flags \in 0 .. 15, NEW l \in Nat, NEW n \in Nat,
           l + n <= MaxLength, NEW b, NEW c
    PROVE  Regrows(type, flags, l, n, b, c)
  <1>1. l \in 0 .. MaxLength /\ l + n \in Nat
    BY Weights
  <1>2. PICK D \in Seq(Byte8) : D = DumpLength(l) /\ Len(D) \in 1 .. 3
    BY <1>1, ReadDump
  <1>3. ReadLength(D).len = l
    <2>1. ReadLength(D) = [bytes |-> Len(D), len |-> l]
      BY <1>1, <1>2, ReadDump
    <2> QED
      BY <2>1
  <1>4. PICK x \in Nat : x = type * 16 + flags
    OBVIOUS
  <1>5. PICK h, i : h = FixHead(type, flags, l) /\ i = FixHead(type, flags, l + n)
    OBVIOUS
  <1>6. h = <<x>> \o D /\ i = <<x>> \o DumpLength(l + n)
    BY <1>2, <1>4, <1>5 DEF FixHead
  <1>7. h[1] = x /\ Tail(h) = D
    BY <1>2, <1>6
  <1>8. PICK e : e = <<h, b>>
    OBVIOUS
  <1>9. e[1] = h /\ Tail(e) = <<b>>
    BY <1>8
  <1>10. <<e[1][1]>> \o DumpLength(l + n) = i
    BY <1>6, <1>7, <1>9
  <1>11. Regrown(e, n) = <<i>> \o <<b>>
    BY <1>3, <1>7, <1>9, <1>10 DEF Regrown
  <1>12. Regrown(e, n) = <<i, b>>
    BY <1>11, Couples, Zenon
  <1>13. Append(<<i, b>>, c) = <<i, b, c>>
    <2> DEFINE S == {i, b, c}
    <2>1. PICK s \in Seq(S), u \in Seq(S) : s = <<i, b>> /\ u = <<i, b, c>>
      <3>1. <<i, b>> \in Seq(S) /\ <<i, b, c>> \in Seq(S)
        OBVIOUS
      <3> QED
        BY <3>1
    <2>2. Len(s) = 2 /\ Len(u) = 3 /\ s[1] = i /\ s[2] = b /\ u[1] = i /\ u[2] = b /\ u[3] = c
      BY <2>1
    <2>3. PICK v : v = Append(s, c)
      OBVIOUS
    <2>4. v \in Seq(S) /\ Len(v) = 3 /\ v[1] = s[1] /\ v[2] = s[2] /\ v[2 + 1] = c
      <3>1. Appends(S, s, c, v, 2)
        BY <2>2, <2>3, Appended
      <3> QED
        BY <3>1 DEF Appends
    <2>5. v = u
      BY <2>2, <2>4
    <2> QED
      BY <2>1, <2>3, <2>5
  <1> QED
    BY <1>5, <1>8, <1>12, <1>13 DEF Regrows

LEMMA TopicIs ==
    ASSUME NEW t \in Topics
    PROVE  t \in Seq(Byte8) /\ Len(t) \in Nat /\ 2 * Len(t) + 8 <= MaxLength
  <1>1. t \in Seq(Byte8) /\ 2 * Len(t) + 8 <= MaxLength
    BY MqttAssumption DEF Bytes
  <1> QED
    BY <1>1

\* A body that is long enough, whatever the topics are.
LEMMA RequestMeant ==
    ASSUME NEW type \in {SUBSCRIBE, UNSUBSCRIBE}, NEW b \in Seq(Byte8),
           Len(b) <= MaxLength, Len(b) >= 2
    PROVE  Packet(type, 2, b) \in ShortPacket /\ Meant(Packet(type, 2, b))
  <1>1. type \in 0 .. 15 /\ 2 \in 0 .. 15 /\ type # PUBLISH
    BY DEF SUBSCRIBE, UNSUBSCRIBE, PUBLISH
  <1>2. PICK p : p = Packet(type, 2, b)
    OBVIOUS
  <1>3. Heads(type, 2, b, Len(b))
    BY <1>1, Packed
  <1>4. p \in ShortPacket
    BY <1>2, <1>3 DEF Heads
  <1>5. Type(p) = type /\ p.body = b
    BY <1>1, <1>2, FirstIs
  <1> QED
    BY <1>1, <1>2, <1>4, <1>5 DEF Meant

LEMMA SubscribePacked ==
    ASSUME NEW t \in Topics, NEW id \in Nat
    PROVE  LET first == PackSubscribePkt(id, t, 1)
               body == WB16(id) \o Text(t) \o <<1>>
               more == body \o Text(t) \o <<0>>
           IN  /\ Packs(first, Packet(SUBSCRIBE, 2, body))
               /\ Packs(AppendSubscribeTopic(first, t, 0), Packet(SUBSCRIBE, 2, more))
               /\ Meant(Packet(SUBSCRIBE, 2, body)) /\ Meant(Packet(SUBSCRIBE, 2, more))
  <1>1. PICK n \in Nat : n = Len(t) /\ 2 * n + 8 <= MaxLength
    BY TopicIs
  <1>2. PICK w \in Seq(Byte8), v \in Seq(Byte8), x \in Seq(Byte8), y \in Seq(Byte8) :
            /\ w = WB16(id) /\ v = Text(t) /\ x = <<1>> /\ y = <<0>>
            /\ Len(w) = 2 /\ Len(v) = 2 + n /\ Len(x) = 1 /\ Len(y) = 1
            /\ PktWriteString(t, Len(t)) = v
    <2>1. WB16(id) \in Seq(Byte8) /\ Len(WB16(id)) = 2
      BY Word
    <2>2. Text(t) \in Seq(Byte8) /\ Len(Text(t)) = 2 + n /\ PktWriteString(t, Len(t)) = Text(t)
      BY <1>1, TopicIs, TextIs
    <2>3. <<1>> \in Seq(Byte8) /\ <<0>> \in Seq(Byte8) /\ Len(<<1>>) = 1 /\ Len(<<0>>) = 1
      BY DEF Byte8, Base
    <2> QED
      BY <2>1, <2>2, <2>3
  <1>3. PICK a, b : a = w \o v /\ b = a \o x
    OBVIOUS
  <1>4. a \in Seq(Byte8) /\ Len(a) = n + 4
    <2>1. Glues(w, v, a, Len(w), Len(v))
      BY <1>3, Glued
    <2> QED
      BY <1>2, <2>1 DEF Glues
  <1>5. b \in Seq(Byte8) /\ Len(b) = n + 5
    <2>1. Glues(a, x, b, Len(a), Len(x))
      BY <1>3, <1>4, Glued
    <2> QED
      BY <1>2, <1>4, <2>1 DEF Glues
  <1>6. PICK c : c = v \o y
    OBVIOUS
  <1>7. c \in Seq(Byte8) /\ Len(c) = n + 3
    <2>1. Glues(v, y, c, Len(v), Len(y))
      BY <1>6, Glued
    <2> QED
      BY <1>2, <2>1 DEF Glues
  <1>8. PICK d : d = b \o c
    OBVIOUS
  <1>9. d \in Seq(Byte8) /\ Len(d) = 2 * n + 8
    <2>1. Glues(b, c, d, Len(b), Len(c))
      BY <1>5, <1>7, <1>8, Glued
    <2> QED
      BY <1>5, <1>7, <2>1 DEF Glues
  <1>10. d = (b \o v) \o y
    BY <1>2, <1>5, <1>6, <1>8, Associated
  <1>11. SUBSCRIBE \in 0 .. 15 /\ 2 \in 0 .. 15
    BY DEF SUBSCRIBE
  <1>12. PICK l \in Nat, k \in Nat : l = n + 5 /\ k = n + 3
    OBVIOUS
  <1>13. PICK first : first = PackSubscribePkt(id, t, 1)
    OBVIOUS
  <1>14. first = <<FixHead(SUBSCRIBE, 2, l), b>>
    <2>1. AllocExtent(l, b) = b
      BY <1>5, <1>12, AllocIs
    <2>2. 5 + Len(t) = l
      BY <1>1, <1>12
    <2> QED
      BY <1>2, <1>3, <1>13, <2>1, <2>2 DEF PackSubscribePkt
  <1>15. Packs(first, Packet(SUBSCRIBE, 2, b))
    <2>1. l = Len(b) /\ Len(b) <= MaxLength
      BY <1>1, <1>5, <1>12, Weights
    <2> QED
      BY <1>5, <1>11, <1>14, <2>1, PackedOnce
  <1>16. AppendSubscribeTopic(first, t, 0) = <<FixHead(SUBSCRIBE, 2, l + k), b, c>>
    <2>1. AllocExtent(k, c) = c
      BY <1>7, <1>12, AllocIs
    <2>2. Len(t) + 3 = k
      BY <1>1, <1>12
    <2>3. AppendSubscribeTopic(first, t, 0) = Append(Regrown(first, k), c)
      BY <1>2, <1>6, <2>1, <2>2 DEF AppendSubscribeTopic
    <2>4. l + k <= MaxLength
      BY <1>1, <1>12
    <2>5. Regrows(SUBSCRIBE, 2, l, k, b, c)
      BY <1>11, <2>4, RegrownIs
    <2>6. first = <<FixHead(SUBSCRIBE, 2, l), b>>
      BY <1>14
    <2> QED
      BY <2>3, <2>5, <2>6 DEF Regrows
  <1>17. Packs(AppendSubscribeTopic(first, t, 0), Packet(SUBSCRIBE, 2, d))
    <2>1. PICK j \in Nat : j = l + k /\ j = Len(b) + Len(c) /\ j <= MaxLength
      <3>1. l + k = 2 * n + 8 /\ Len(b) + Len(c) = 2 * n + 8
        BY <1>5, <1>7, <1>12
      <3> QED
        BY <1>1, <3>1
    <2>2. Packs(<<FixHead(SUBSCRIBE, 2, j), b, c>>, Packet(SUBSCRIBE, 2, b \o c))
      BY <1>5, <1>7, <1>11, <2>1, PackedTwice
    <2> QED
      BY <1>8, <1>16, <2>1, <2>2
  <1>18. Meant(Packet(SUBSCRIBE, 2, b)) /\ Meant(Packet(SUBSCRIBE, 2, d))
    <2>1. Len(b) <= MaxLength /\ Len(b) >= 2 /\ Len(d) <= MaxLength /\ Len(d) >= 2
      BY <1>1, <1>5, <1>9, Weights
    <2> QED
      BY <1>5, <1>9, <2>1, RequestMeant
  <1>19. b = WB16(id) \o Text(t) \o <<1>> /\ d = WB16(id) \o Text(t) \o <<1>> \o Text(t) \o <<0>>
    BY <1>2, <1>3, <1>10
  <1> QED
    BY <1>13, <1>15, <1>17, <1>18, <1>19

LEMMA UnsubscribePacked ==
    ASSUME NEW t \in Topics, NEW id \in Nat
    PROVE  LET first == PackUnsubscribePkt(id, t)
               body == WB16(id) \o Text(t)
               more == body \o Text(t)
           IN  /\ Packs(first, Packet(UNSUBSCRIBE, 2, body))
               /\ Packs(AppendUnsubscribeTopic(first, t), Packet(UNSUBSCRIBE, 2, more))
               /\ Meant(Packet(UNSUBSCRIBE, 2, body)) /\ Meant(Packet(UNSUBSCRIBE, 2, more))
  <1>1. PICK n \in Nat : n = Len(t) /\ 2 * n + 8 <= MaxLength
    BY TopicIs
  <1>2. PICK w \in Seq(Byte8), v \in Seq(Byte8) :
            /\ w = WB16(id) /\ v = Text(t) /\ Len(w) = 2 /\ Len(v) = 2 + n
            /\ PktWriteString(t, Len(t)) = v
    <2>1. WB16(id) \in Seq(Byte8) /\ Len(WB16(id)) = 2
      BY Word
    <2>2. Text(t) \in Seq(Byte8) /\ Len(Text(t)) = 2 + n /\ PktWriteString(t, Len(t)) = Text(t)
      BY <1>1, TopicIs, TextIs
    <2> QED
      BY <2>1, <2>2
  <1>3. PICK b : b = w \o v
    OBVIOUS
  <1>4. b \in Seq(Byte8) /\ Len(b) = n + 4
    <2>1. Glues(w, v, b, Len(w), Len(v))
      BY <1>3, Glued
    <2> QED
      BY <1>2, <2>1 DEF Glues
  <1>5. PICK d : d = b \o v
    OBVIOUS
  <1>6. d \in Seq(Byte8) /\ Len(d) = 2 * n + 6
    <2>1. Glues(b, v, d, Len(b), Len(v))
      BY <1>4, <1>5, Glued
    <2> QED
      BY <1>2, <1>4, <2>1 DEF Glues
  <1>7. UNSUBSCRIBE \in 0 .. 15 /\ 2 \in 0 .. 15
    BY DEF UNSUBSCRIBE
  <1>8. PICK l \in Nat, k \in Nat : l = n + 4 /\ k = n + 2
    OBVIOUS
  <1>9. PICK first : first = PackUnsubscribePkt(id, t)
    OBVIOUS
  <1>10. first = <<FixHead(UNSUBSCRIBE, 2, l), b>>
    <2>1. AllocExtent(l, b) = b
      BY <1>4, <1>8, AllocIs
    <2>2. Len(t) + 4 = l
      BY <1>1, <1>8
    <2> QED
      BY <1>2, <1>3, <1>9, <2>1, <2>2 DEF PackUnsubscribePkt
  <1>11. Packs(first, Packet(UNSUBSCRIBE, 2, b))
    <2>1. l = Len(b) /\ Len(b) <= MaxLength
      BY <1>1, <1>4, <1>8, Weights
    <2> QED
      BY <1>4, <1>7, <1>10, <2>1, PackedOnce
  <1>12. AppendUnsubscribeTopic(first, t) = <<FixHead(UNSUBSCRIBE, 2, l + k), b, v>>
    <2>1. AllocExtent(k, v) = v
      <3>1. k = Len(v)
        BY <1>2, <1>8
      <3> QED
        BY <3>1, AllocIs
    <2>2. Len(t) + 2 = k
      BY <1>1, <1>8
    <2>3. AppendUnsubscribeTopic(first, t) = Append(Regrown(first, k), v)
      BY <1>2, <2>1, <2>2 DEF AppendUnsubscribeTopic
    <2>4. l + k <= MaxLength
      BY <1>1, <1>8, Weights
    <2>5. Regrows(UNSUBSCRIBE, 2, l, k, b, v)
      BY <1>7, <2>4, RegrownIs
    <2>6. first = <<FixHead(UNSUBSCRIBE, 2, l), b>>
      BY <1>10
    <2> QED
      BY <2>3, <2>5, <2>6 DEF Regrows
  <1>13. Packs(AppendUnsubscribeTopic(first, t), Packet(UNSUBSCRIBE, 2, d))
    <2>1. PICK j \in Nat : j = l + k /\ j = Len(b) + Len(v) /\ j <= MaxLength
      <3>1. l + k = 2 * n + 6 /\ Len(b) + Len(v) = 2 * n + 6 /\ 2 * n + 6 <= MaxLength
        BY <1>1, <1>2, <1>4, <1>8, Weights
      <3> QED
        BY <3>1
    <2>2. Packs(<<FixHead(UNSUBSCRIBE, 2, j), b, v>>, Packet(UNSUBSCRIBE, 2, b \o v))
      BY <1>4, <1>7, <2>1, PackedTwice
    <2> QED
      BY <1>5, <1>12, <2>1, <2>2
  <1>14. Meant(Packet(UNSUBSCRIBE, 2, b)) /\ Meant(Packet(UNSUBSCRIBE, 2, d))
    <2>1. Len(b) <= MaxLength /\ Len(b) >= 2 /\ Len(d) <= MaxLength /\ Len(d) >= 2
      BY <1>1, <1>4, <1>6, Weights
    <2> QED
      BY <1>4, <1>6, <2>1, RequestMeant
  <1>15. b = WB16(id) \o Text(t) /\ d = WB16(id) \o Text(t) \o Text(t)
    BY <1>2, <1>3, <1>5
  <1> QED
    BY <1>9, <1>11, <1>13, <1>14, <1>15

LEMMA ConnectAskIs ==
    ASSUME NEW a \in ConnectAsks
    PROVE  /\ a.id \in Seq(Byte8) /\ a.willTopic \in Seq(Byte8) /\ a.willMsg \in Seq(Byte8)
           /\ a.msgLen \in Nat /\ a.qos \in 0 .. 2 /\ a.willRetain \in 0 .. 1
           /\ a.user \in Seq(Byte8) /\ a.password \in Seq(Byte8)
           /\ a.msgLen <= Len(a.willMsg)
           /\ Len(a.id) + Len(a.willTopic) + a.msgLen + Len(a.user) + Len(a.password) + 13
                <= MaxLength
  <1>1. a \in [id : Bytes, willTopic : Bytes, willMsg : Bytes, msgLen : Nat, qos : 0 .. 2,
               willRetain : 0 .. 1, user : Bytes, password : Bytes]
    BY MqttAssumption
  <1>2. /\ a.msgLen <= Len(a.willMsg)
        /\ Len(a.id) + Len(a.willTopic) + a.msgLen + Len(a.user) + Len(a.password) + 13
             <= MaxLength
    BY MqttAssumption
  <1> QED
    BY <1>1, <1>2 DEF Bytes

LEMMA ConnectFlagsAre ==
    ASSUME NEW a \in ConnectAsks
    PROVE  ConnectFlags(a) \in Byte8
  <1>1. PICK q \in 0 .. 2, r \in 0 .. 1, x \in {0, 4}, y \in {0, 64}, z \in {0, 128} :
            /\ q = a.qos /\ r = a.willRetain /\ x = IF WillFlag(a) THEN 4 ELSE 0
            /\ y = IF a.password # <<>> THEN 64 ELSE 0
            /\ z = IF a.user # <<>> THEN 128 ELSE 0
    <2>1. a.qos \in 0 .. 2 /\ a.willRetain \in 0 .. 1
      BY ConnectAskIs
    <2> QED
      BY <2>1
  <1>2. ConnectFlags(a) = 2 + x + 8 * q + 32 * r + y + z
    BY <1>1 DEF ConnectFlags
  <1>3. 2 + x + 8 * q + 32 * r + y + z \in 0 .. 255
    OBVIOUS
  <1> QED
    BY <1>2, <1>3 DEF Byte8, Base

LEMMA OptTextIs ==
    ASSUME NEW t \in Seq(Byte8)
    PROVE  /\ OptText(t) \in Seq(Byte8)
           /\ Len(OptText(t)) = IF t # <<>> THEN Len(t) + 2 ELSE 0
           /\ OptText(t) = IF t # <<>> THEN PktWriteString(t, Len(t)) ELSE <<>>
  <1>1. /\ PktWriteString(t, Len(t)) = Text(t)
        /\ Text(t) \in Seq(Byte8) /\ Len(Text(t)) = 2 + Len(t)
    BY TextIs
  <1>2. <<>> \in Seq(Byte8) /\ Len(<<>>) = 0 /\ Len(t) \in Nat
    OBVIOUS
  <1>3. CASE t = <<>>
    BY <1>2, <1>3 DEF OptText
  <1>4. CASE t # <<>>
    BY <1>1, <1>2, <1>4 DEF OptText
  <1> QED
    BY <1>3, <1>4

\* The will in a CONNECT.
WillText(a) ==
    IF WillFlag(a) THEN Text(a.willTopic) \o Text(SubSeq(a.willMsg, 1, a.msgLen)) ELSE <<>>

LEMMA WillIs ==
    ASSUME NEW a \in ConnectAsks
    PROVE  /\ WillText(a) \in Seq(Byte8)
           /\ Len(WillText(a)) = IF WillFlag(a) THEN 4 + Len(a.willTopic) + a.msgLen ELSE 0
           /\ WillText(a) = IF WillFlag(a)
                            THEN PktWriteString(a.willTopic, Len(a.willTopic))
                                 \o PktWriteString(a.willMsg, IF a.willMsg = <<>>
                                                              THEN 0 ELSE a.msgLen)
                            ELSE <<>>
  <1>1. PICK t \in Seq(Byte8), m \in Seq(Byte8), k \in Nat :
            t = a.willTopic /\ m = a.willMsg /\ k = a.msgLen /\ k <= Len(m)
    BY ConnectAskIs
  <1>2. (IF m = <<>> THEN 0 ELSE k) = k
    BY <1>1
  <1>3. PICK u : u = SubSeq(m, 1, k)
    OBVIOUS
  <1>4. u \in Seq(Byte8) /\ Len(u) = k
    <2>1. 0 + k <= Len(m) /\ 0 + 1 = 1 /\ 0 + k = k
      BY <1>1
    <2>2. MqttTakes(m, 0, k, SubSeq(m, 0 + 1, 0 + k))
      BY <2>1, TakenOff
    <2> QED
      BY <1>3, <2>1, <2>2 DEF MqttTakes
  <1>5. PktWriteString(m, k) = Text(u)
    BY <1>3, <1>4 DEF PktWriteString, Text
  <1>6. PICK v \in Seq(Byte8), w \in Seq(Byte8) :
            /\ v = Text(t) /\ w = Text(u) /\ Len(v) = 2 + Len(t) /\ Len(w) = 2 + k
            /\ PktWriteString(t, Len(t)) = v
    <2>1. Text(t) \in Seq(Byte8) /\ Len(Text(t)) = 2 + Len(t) /\ PktWriteString(t, Len(t)) = Text(t)
      BY TextIs
    <2>2. Text(u) \in Seq(Byte8) /\ Len(Text(u)) = 2 + k
      BY <1>4, TextIs
    <2> QED
      BY <2>1, <2>2
  <1>7. PICK z : z = v \o w
    OBVIOUS
  <1>8. z \in Seq(Byte8) /\ Len(z) = 4 + Len(t) + k
    <2>1. Glues(v, w, z, Len(v), Len(w))
      BY <1>7, Glued
    <2>2. z \in Seq(Byte8) /\ Len(z) = Len(v) + Len(w)
      BY <2>1 DEF Glues
    <2>3. Len(t) \in Nat
      OBVIOUS
    <2> QED
      BY <1>6, <2>2, <2>3
  <1>9. WillText(a) = IF WillFlag(a) THEN z ELSE <<>>
    BY <1>1, <1>3, <1>6, <1>7 DEF WillText
  <1>10. PktWriteString(a.willTopic, Len(a.willTopic))
            \o PktWriteString(a.willMsg, IF a.willMsg = <<>> THEN 0 ELSE a.msgLen) = z
    BY <1>1, <1>2, <1>5, <1>6, <1>7
  <1>11. <<>> \in Seq(Byte8) /\ Len(<<>>) = 0
    OBVIOUS
  <1>12. CASE WillFlag(a)
    BY <1>1, <1>8, <1>9, <1>10, <1>12
  <1>13. CASE ~WillFlag(a)
    BY <1>9, <1>11, <1>13
  <1> QED
    BY <1>12, <1>13

\* A CONNECT in three extents: head, variable head, texts.
LEMMA ConnectPacked ==
    ASSUME NEW a \in ConnectAsks, PackConnectPkt(a) # <<>>
    PROVE  /\ Packs(PackConnectPkt(a), Packet(CONNECT, 0, ConnectBody(a)))
           /\ Meant(Packet(CONNECT, 0, ConnectBody(a)))
  <1>1. PICK i \in Seq(Byte8), s \in Seq(Byte8), u \in Seq(Byte8), v \in Seq(Byte8) :
            /\ i = Text(a.id) /\ s = WillText(a)
            /\ u = OptText(a.user) /\ v = OptText(a.password)
    <2>1. /\ Text(a.id) \in Seq(Byte8) /\ WillText(a) \in Seq(Byte8)
          /\ OptText(a.user) \in Seq(Byte8) /\ OptText(a.password) \in Seq(Byte8)
      BY ConnectAskIs, TextIs, WillIs, OptTextIs
    <2> QED
      BY <2>1
  <1>2. PICK ni \in Nat, ns \in Nat, nu \in Nat, nv \in Nat :
            ni = Len(i) /\ ns = Len(s) /\ nu = Len(u) /\ nv = Len(v)
    OBVIOUS
  <1>3. /\ ni = 2 + Len(a.id)
        /\ ns = (IF WillFlag(a) THEN 4 + Len(a.willTopic) + a.msgLen ELSE 0)
        /\ nu = (IF a.user # <<>> THEN Len(a.user) + 2 ELSE 0)
        /\ nv = (IF a.password # <<>> THEN Len(a.password) + 2 ELSE 0)
    <2>1. ni = 2 + Len(a.id)
      BY <1>1, <1>2, ConnectAskIs, TextIs
    <2>2. ns = (IF WillFlag(a) THEN 4 + Len(a.willTopic) + a.msgLen ELSE 0)
      BY <1>1, <1>2, WillIs
    <2>3. nu = (IF a.user # <<>> THEN Len(a.user) + 2 ELSE 0)
      BY <1>1, <1>2, ConnectAskIs, OptTextIs
    <2>4. nv = (IF a.password # <<>> THEN Len(a.password) + 2 ELSE 0)
      BY <1>1, <1>2, ConnectAskIs, OptTextIs
    <2> QED
      BY <2>1, <2>2, <2>3, <2>4
  <1>4. PICK total \in Nat : /\ total = 3 + ni + ns + nu + nv
    OBVIOUS
  <1>5. total <= MaxLength
    <2>1. PICK x1 \in Nat, x2 \in Nat, x3 \in Nat, x4 \in Nat, x5 \in Nat :
              /\ x1 = Len(a.id) /\ x2 = Len(a.willTopic) /\ x3 = a.msgLen /\ x4 = Len(a.user)
              /\ x5 = Len(a.password)
      <3>1. /\ Len(a.id) \in Nat /\ Len(a.willTopic) \in Nat /\ a.msgLen \in Nat
            /\ Len(a.user) \in Nat /\ Len(a.password) \in Nat
        <4>1. /\ a.id \in Seq(Byte8) /\ a.willTopic \in Seq(Byte8) /\ a.msgLen \in Nat
              /\ a.user \in Seq(Byte8) /\ a.password \in Seq(Byte8)
          BY ConnectAskIs
        <4> QED
          BY <4>1
      <3> QED
        BY <3>1
    <2>2. x1 + x2 + x3 + x4 + x5 + 13 <= MaxLength
      <3>1. Len(a.id) + Len(a.willTopic) + a.msgLen + Len(a.user) + Len(a.password) + 13
              <= MaxLength
        BY ConnectAskIs
      <3> QED
        BY <2>1, <3>1
    <2>3. ni <= 2 + x1 /\ ns <= 4 + x2 + x3 /\ nu <= x4 + 2 /\ nv <= x5 + 2
      <3>1. ni = 2 + x1
        BY <1>3, <2>1
      <3>2. ns = IF WillFlag(a) THEN 4 + x2 + x3 ELSE 0
        BY <1>3, <2>1
      <3>3. nu = IF a.user # <<>> THEN x4 + 2 ELSE 0
        BY <1>3, <2>1
      <3>4. nv = IF a.password # <<>> THEN x5 + 2 ELSE 0
        BY <1>3, <2>1
      <3>5. ns <= 4 + x2 + x3
        BY <3>2
      <3>6. nu <= x4 + 2
        BY <3>3
      <3>7. nv <= x5 + 2
        BY <3>4
      <3> QED
        BY <3>1, <3>5, <3>6, <3>7
    <2>4. MaxLength \in Nat
      BY Weights
    <2>5. total <= x1 + x2 + x3 + x4 + x5 + 13
      BY <1>4, <2>3
    <2> QED
      BY <2>2, <2>4, <2>5
  <1>6. PICK p \in Seq(Byte8) : p = <<0, 3, ConnectFlags(a)>> /\ Len(p) = 3
    <2>1. ConnectFlags(a) \in Byte8
      BY ConnectFlagsAre
    <2>2. PICK f \in Byte8 : f = ConnectFlags(a)
      BY <2>1
    <2>3. <<0, 3, f>> \in Seq(Byte8) /\ Len(<<0, 3, f>>) = 3
      BY DEF Byte8, Base
    <2> QED
      BY <2>2, <2>3
  <1>7. PICK t2, t3, t4 : t2 = i \o s /\ t3 = t2 \o u /\ t4 = t3 \o v
    OBVIOUS
  <1>8. t2 \in Seq(Byte8) /\ Len(t2) = ni + ns
    <2>1. Glues(i, s, t2, ni, ns)
      BY <1>2, <1>7, Glued
    <2> QED
      BY <2>1 DEF Glues
  <1>9. t3 \in Seq(Byte8) /\ Len(t3) = ni + ns + nu
    <2>1. Glues(t2, u, t3, Len(t2), nu)
      BY <1>2, <1>7, <1>8, Glued
    <2> QED
      BY <1>8, <2>1 DEF Glues
  <1>10. t4 \in Seq(Byte8) /\ Len(t4) = ni + ns + nu + nv
    <2>1. Glues(t3, v, t4, Len(t3), nv)
      BY <1>2, <1>7, <1>9, Glued
    <2> QED
      BY <1>9, <2>1 DEF Glues
  <1>11. ConnectBody(a) = p \o t4
    <2>1. ConnectBody(a) = (((p \o i) \o s) \o u) \o v
      <3>1. ConnectBody(a) = (((<<0, 3, ConnectFlags(a)>> \o Text(a.id)) \o WillText(a))
                                \o OptText(a.user)) \o OptText(a.password)
        BY Zenon DEF ConnectBody, WillText
      <3> QED
        BY <1>1, <1>6, <3>1, Zenon
    <2>2. PICK q1, q2 : q1 = (p \o i) \o s /\ q2 = q1 \o u
      OBVIOUS
    <2>3. q1 = p \o t2
      BY <1>7, <2>2, Associated
    <2>4. q2 = p \o t3
      <3>1. (p \o t2) \o u = p \o t3
        BY <1>7, <1>8, Associated
      <3> QED
        <4>1. q2 = q1 \o u
          BY <2>2
        <4>2. q2 = (p \o t2) \o u
          BY <2>3, <4>1, Zenon
        <4> QED
          BY <3>1, <4>2, Zenon
    <2>5. q2 \o v = p \o t4
      <3>1. (p \o t3) \o v = p \o t4
        <4>1. t3 \in Seq(Byte8) /\ t4 = t3 \o v
          BY <1>7, <1>9
        <4> QED
          BY <4>1, Associated
      <3> QED
        BY <2>4, <3>1
    <2> QED
      BY <2>1, <2>2, <2>5, Zenon
  <1>12. PICK l \in Nat : l = total - 3 /\ l = Len(t4)
    BY <1>4, <1>10
  <1>13. PackConnectPkt(a) = <<FixHead(CONNECT, 0, total), p, t4>>
    <2>1. AllocExtent(l, t4) = t4
      BY <1>10, <1>12, AllocIs
    <2>2. MQTT_VARIABLE_HEAD + Len(a.id) + 2
             + (IF WillFlag(a) THEN 4 + Len(a.willTopic) + a.msgLen ELSE 0)
             + (IF a.user # <<>> THEN Len(a.user) + 2 ELSE 0)
             + (IF a.password # <<>> THEN Len(a.password) + 2 ELSE 0) = total
      <3>1. PICK x \in Nat : x = Len(a.id) /\ ni = 2 + x
        <4>1. Len(a.id) \in Nat
          BY ConnectAskIs
        <4> QED
          BY <1>3, <4>1
      <3>2. 3 + x + 2 + ns + nu + nv = total
        BY <1>4, <3>1
      <3> QED
        BY <1>3, <3>1, <3>2 DEF MQTT_VARIABLE_HEAD
    <2>3. /\ PktWriteString(a.id, Len(a.id)) = i
          /\ (IF WillFlag(a)
              THEN PktWriteString(a.willTopic, Len(a.willTopic))
                   \o PktWriteString(a.willMsg, IF a.willMsg = <<>> THEN 0 ELSE a.msgLen)
              ELSE <<>>) = s
          /\ (IF a.user # <<>> THEN PktWriteString(a.user, Len(a.user)) ELSE <<>>) = u
          /\ (IF a.password # <<>> THEN PktWriteString(a.password, Len(a.password))
              ELSE <<>>) = v
      BY <1>1, ConnectAskIs, TextIs, WillIs, OptTextIs
    <2>4. PICK tt, xx : /\ tt = MQTT_VARIABLE_HEAD + Len(a.id) + 2
                              + (IF WillFlag(a) THEN 4 + Len(a.willTopic) + a.msgLen ELSE 0)
                              + (IF a.user # <<>> THEN Len(a.user) + 2 ELSE 0)
                              + (IF a.password # <<>> THEN Len(a.password) + 2 ELSE 0)
                        /\ xx = PktWriteString(a.id, Len(a.id))
                               \o (IF WillFlag(a)
                                   THEN PktWriteString(a.willTopic, Len(a.willTopic))
                                        \o PktWriteString(a.willMsg, IF a.willMsg = <<>>
                                                                     THEN 0 ELSE a.msgLen)
                                   ELSE <<>>)
                               \o (IF a.user # <<>> THEN PktWriteString(a.user, Len(a.user))
                                   ELSE <<>>)
                               \o (IF a.password # <<>>
                                   THEN PktWriteString(a.password, Len(a.password))
                                   ELSE <<>>)
      OBVIOUS
    <2>5. PackConnectPkt(a) = IF (a.willMsg # <<>> /\ a.willTopic = <<>>)
                                 \/ (a.user = <<>> /\ a.password # <<>>)
                              THEN <<>>
                              ELSE <<FixHead(CONNECT, 0, tt), <<0, 3, ConnectFlags(a)>>,
                                     AllocExtent(tt - MQTT_VARIABLE_HEAD, xx)>>
      BY <2>4, Zenon DEF PackConnectPkt
    <2>6. tt = total /\ xx = t4
      BY <1>7, <2>2, <2>3, <2>4, Zenon
    <2>7. tt - MQTT_VARIABLE_HEAD = l
      BY <1>12, <2>6 DEF MQTT_VARIABLE_HEAD
    <2>8. AllocExtent(tt - MQTT_VARIABLE_HEAD, xx) = t4
      BY <2>1, <2>6, <2>7
    <2>9. PackConnectPkt(a) = <<FixHead(CONNECT, 0, tt), <<0, 3, ConnectFlags(a)>>,
                                AllocExtent(tt - MQTT_VARIABLE_HEAD, xx)>>
      BY <2>5, Zenon
    <2> QED
      BY <1>6, <2>6, <2>8, <2>9, Zenon
  <1>14. CONNECT \in 0 .. 15 /\ 0 \in 0 .. 15 /\ CONNECT \notin {SUBSCRIBE, UNSUBSCRIBE, PUBLISH}
    BY DEF CONNECT, SUBSCRIBE, UNSUBSCRIBE, PUBLISH
  <1>15. total = Len(p) + Len(t4)
    BY <1>4, <1>6, <1>10
  <1>16. PICK ask : ask = Packet(CONNECT, 0, ConnectBody(a))
    OBVIOUS
  <1>17. Packs(PackConnectPkt(a), ask)
    <2>1. Packs(<<FixHead(CONNECT, 0, total), p, t4>>, Packet(CONNECT, 0, p \o t4))
      BY <1>5, <1>10, <1>14, <1>15, PackedTwice
    <2> QED
      BY <1>11, <1>13, <1>16, <2>1
  <1>18. ask \in ShortPacket
    BY <1>17 DEF Packs
  <1>19. Type(ask) = CONNECT
    BY <1>14, <1>16, FirstIs
  <1> QED
    BY <1>14, <1>16, <1>17, <1>18, <1>19 DEF Meant

-----------------------------------------------------------------------------
(* What was written, and what the broker makes of it.                      *)

\* A packet that was written, whole or not, is the one that was meant.
OutEntry ==
    {w \in [ask : ShortPacket, bytes : Seq(Byte8), answer : BOOLEAN, written : Int] :
        Meant(w.ask) /\ w.bytes = OnTheWire(w.ask) /\ w.written <= Len(w.bytes)}

LEMMA WireTypes ==
    ASSUME NEW p \in ShortPacket
    PROVE  OnTheWire(p) \in Seq(Byte8) /\ Len(OnTheWire(p)) >= 2
  <1>1. PICK D, b : Laid(p, D, b, OnTheWire(p))
    BY WireIs
  <1>2. PICK z \in Seq(Byte8) : z = OnTheWire(p) /\ Len(z) = 1 + Len(D) + Len(b)
    BY <1>1 DEF Laid
  <1>3. Len(D) \in 1 .. 3 /\ Len(b) \in Nat
    BY <1>1, Weights DEF Laid
  <1> QED
    BY <1>2, <1>3

LEMMA Wrote ==
    ASSUME NEW ask, NEW extents, NEW answer \in BOOLEAN, Packs(extents, ask), Meant(ask),
           NEW n \in SendResults(extents)
    PROVE  Written(ask, extents, answer, n) \in OutEntry
  <1>1. PICK z \in Seq(Byte8) : z = Gather(extents) /\ z = OnTheWire(ask)
    BY WireTypes DEF Packs
  <1>2. n \in Int /\ n <= Len(z)
    BY <1>1 DEF SendResults
  <1>3. ask \in ShortPacket
    BY DEF Packs
  <1>4. PICK w : w = [ask |-> ask, bytes |-> z, answer |-> answer, written |-> n]
    OBVIOUS
  <1>5. Written(ask, extents, answer, n) = w
    BY <1>1, <1>4 DEF Written
  <1>6. w \in [ask : ShortPacket, bytes : Seq(Byte8), answer : BOOLEAN, written : Int]
    BY <1>2, <1>3, <1>4
  <1>7. Meant(w.ask) /\ w.bytes = OnTheWire(w.ask) /\ w.written <= Len(w.bytes)
    BY <1>1, <1>2, <1>4
  <1> QED
    BY <1>5, <1>6, <1>7 DEF OutEntry

\* What a reader of the standard finds in a packet on the wire.
LEMMA WholeIs ==
    ASSUME NEW p \in ShortPacket, NEW z, z = OnTheWire(p)
    PROVE  LET r == ReadLength(Tail(z))
           IN  /\ z[1] = p.fh
               /\ r.bytes > 0 /\ Len(z) = 1 + r.bytes + r.len
               /\ SubSeq(z, r.bytes + 2, Len(z)) = p.body
  <1>1. PICK D, b : Laid(p, D, b, z)
    BY WireIs
  <1>A. PICK n \in 1 .. 3 : n = Len(D)
    BY <1>1 DEF Laid
  <1>B. PICK len \in Nat : len = Len(b)
    BY <1>1, Weights DEF Laid
  <1>2. n \in Nat /\ len \in Nat /\ n = Len(D) /\ len = Len(b) /\ n \in 1 .. 3
    BY <1>A, <1>B
  <1>3. /\ z \in Seq(Byte8) /\ Len(z) = 1 + n + len /\ z[1] = p.fh /\ p.body = b
        /\ b \in Seq(Byte8)
        /\ \A i \in 1 .. n : z[1 + i] = D[i]
        /\ \A i \in 1 .. len : z[1 + n + i] = b[i]
    BY <1>1, <1>2 DEF Laid
  <1>4. PICK s : s = Tail(z)
    OBVIOUS
  <1>5. PICK Z \in Nat : Z = Len(z) /\ Z = 1 + n + len
    BY <1>3
  <1>6. s \in Seq(Byte8) /\ Len(s) = Z - 1 /\ \A i \in 1 .. Z - 1 : s[i] = z[1 + i]
    <2>1. z # <<>> /\ z \in Seq(Byte8) /\ Len(z) = Z /\ Z >= 1
      BY <1>2, <1>3, <1>5
    <2> QED
      BY <1>4, <2>1
  <1>7. \A i \in 1 .. n : i <= Len(s) => s[i] = D[i]
    <2> SUFFICES ASSUME NEW i \in 1 .. n PROVE s[i] = D[i]
      OBVIOUS
    <2>1. i \in 1 .. Z - 1
      BY <1>5
    <2> QED
      BY <1>3, <1>6, <2>1
  <1>8. ReadLength(s) = [bytes |-> n, len |-> len]
    <2>1. n <= Len(s)
      BY <1>5, <1>6
    <2>2. Len(b) \in 0 .. MaxLength /\ D = DumpLength(Len(b))
      BY <1>1 DEF Laid
    <2>3. Len(D) <= Len(s) => ReadLength(s) = [bytes |-> Len(D), len |-> Len(b)]
      BY <1>2, <1>6, <1>7, <2>2, ReadDump
    <2> QED
      BY <1>2, <2>1, <2>3
  <1>9. SubSeq(z, n + 2, Z) = b
    <2>1. PICK a \in Nat : a = 1 + n /\ a + 1 = n + 2 /\ a + len = Z
      BY <1>5
    <2>2. MqttTakes(z, a, len, SubSeq(z, a + 1, a + len))
      BY <1>3, <1>5, <2>1, TakenOff
    <2>3. PICK e : e = SubSeq(z, a + 1, a + len)
      OBVIOUS
    <2>4. e \in Seq(Byte8) /\ Len(e) = len /\ \A i \in 1 .. len : e[i] = z[a + i]
      BY <2>2, <2>3 DEF MqttTakes
    <2>5. \A i \in 1 .. len : e[i] = b[i]
      BY <1>3, <2>1, <2>4
    <2>6. e = b
      BY <1>2, <1>3, <2>4, <2>5, SameSeq
    <2> QED
      BY <2>1, <2>3, <2>6
  <1>10. PICK r : r = ReadLength(Tail(z)) /\ r.bytes = n /\ r.len = len
    BY <1>4, <1>8
  <1>11. z[1] = p.fh /\ r.bytes > 0 /\ Len(z) = 1 + r.bytes + r.len
    <2>1. r.bytes > 0
      BY <1>2, <1>10
    <2>2. Len(z) = 1 + r.bytes + r.len
      BY <1>3, <1>10
    <2> QED
      BY <1>3, <2>1, <2>2
  <1>12. SubSeq(z, r.bytes + 2, Len(z)) = p.body
    <2>1. r.bytes + 2 = n + 2 /\ Len(z) = Z
      BY <1>5, <1>10
    <2> QED
      BY <1>3, <1>9, <2>1
  <1> QED
    BY <1>10, <1>11, <1>12

LEMMA ShortIs ==
    ASSUME NEW type \in 0 .. 15, NEW flags \in 0 .. 15, NEW b \in Short
    PROVE  Packet(type, flags, b) \in ShortPacket
  <1>1. b \in Seq(Byte8) /\ Len(b) <= MaxLength
    BY DEF Short
  <1> QED
    BY <1>1, Packed DEF Heads

\* The identifier in a PUBLISH that has one.
LEMMA IdRead ==
    ASSUME NEW b \in Seq(Byte8), NEW p, b = p.body, RB16(b) \in Nat, RB16(b) + 4 <= Len(b)
    PROVE  PublishId(p) \in Seq(Byte8) /\ Len(PublishId(p)) = 2
  <1>1. PICK n \in Nat : n = RB16(b) + 2 /\ n + 2 <= Len(b)
    BY DEF RB16
  <1>2. MqttTakes(b, n, 2, SubSeq(b, n + 1, n + 2))
    BY <1>1, TakenOff
  <1>3. RB16(b) + 3 = n + 1 /\ RB16(b) + 4 = n + 2
    BY <1>1
  <1> QED
    BY <1>2, <1>3 DEF PublishId, MqttTakes

LEMMA ReachedIs ==
    ASSUME NEW type, mqttOut \in Seq(OutEntry), NEW p \in Reached(type)
    PROVE  Type(p) = type /\ Meant(p) /\ p \in ShortPacket
           /\ p.body \in Seq(Byte8) /\ Len(p.body) <= MaxLength
  <1>1. PICK i \in DOMAIN mqttOut : p = mqttOut[i].ask /\ Type(p) = type
    BY DEF Reached, Range
  <1>2. mqttOut[i] \in OutEntry
    BY <1>1
  <1>3. Meant(p)
    BY <1>1, <1>2 DEF OutEntry
  <1>4. p \in ShortPacket
    BY <1>3 DEF Meant
  <1> QED
    BY <1>1, <1>3, <1>4 DEF ShortPacket, Short

LEMMA RepliesAre ==
    ASSUME mqttOut \in Seq(OutEntry), NEW p \in Replies \cup Publishes
    PROVE  p \in ShortPacket
  <1>1. /\ CONNACK \in 0 .. 15 /\ PINGRESP \in 0 .. 15 /\ SUBACK \in 0 .. 15
        /\ UNSUBACK \in 0 .. 15 /\ PUBACK \in 0 .. 15 /\ PUBREC \in 0 .. 15
        /\ PUBCOMP \in 0 .. 15 /\ PUBREL \in 0 .. 15 /\ 0 \in 0 .. 15 /\ 2 \in 0 .. 15
    BY DEF CONNACK, PINGRESP, SUBACK, UNSUBACK, PUBACK, PUBREC, PUBCOMP, PUBREL
  <1>2. \A t \in 0 .. 15, f \in 0 .. 15, b \in Short : Packet(t, f, b) \in ShortPacket
    BY ShortIs
  <1>3. \A b \in Seq(Byte8) : Len(b) <= 3 => b \in Short
    BY Weights DEF Short
  <1>4. CASE p \in {Packet(CONNACK, 0, <<0, c>>) :
                      c \in IF Reached(CONNECT) = {} THEN {} ELSE {0, 5}}
    <2>1. PICK c \in {0, 5} : p = Packet(CONNACK, 0, <<0, c>>)
      BY <1>4
    <2>2. 0 \in Byte8 /\ c \in Byte8
      BY DEF Byte8, Base
    <2>3. <<0, c>> \in Seq(Byte8) /\ Len(<<0, c>>) = 2
      BY <2>2
    <2>4. <<0, c>> \in Short
      BY <1>3, <2>3, 2 <= 3, Zenon
    <2> QED
      BY <1>1, <1>2, <2>1, <2>4, Zenon
  <1>5. CASE p \in {Packet(PINGRESP, 0, <<>>) : q \in Reached(PINGREQ)}
    <2>1. p = Packet(PINGRESP, 0, <<>>)
      BY <1>5
    <2>2. <<>> \in Seq(Byte8) /\ Len(<<>>) = 0
      OBVIOUS
    <2>3. <<>> \in Short
      BY <1>3, <2>2, 0 <= 3, Zenon
    <2> QED
      BY <1>1, <1>2, <2>1, <2>3, Zenon
  <1>6. ASSUME NEW type, NEW q \in Reached(type), type \in {SUBSCRIBE, UNSUBSCRIBE}
        PROVE  /\ SubSeq(q.body, 1, 2) \in Seq(Byte8) /\ Len(SubSeq(q.body, 1, 2)) = 2
               /\ SubSeq(q.body, 1, 2) \in Short
    <2>1. q.body \in Seq(Byte8) /\ Meant(q) /\ Type(q) = type
      BY ReachedIs
    <2>2. Len(q.body) >= 2
      BY <1>6, <2>1 DEF Meant
    <2>3. PICK a \in Nat : a = 0 /\ a + 2 <= Len(q.body)
      BY <2>2
    <2>4. MqttTakes(q.body, a, 2, SubSeq(q.body, a + 1, a + 2))
      BY <2>1, <2>3, TakenOff
    <2>5. a + 1 = 1 /\ a + 2 = 2
      BY <2>3
    <2>6. SubSeq(q.body, 1, 2) \in Seq(Byte8) /\ Len(SubSeq(q.body, 1, 2)) = 2
      BY <2>4, <2>5 DEF MqttTakes
    <2> QED
      BY <1>3, <2>6, 2 <= 3, Zenon
  <1>7. CASE p \in {Packet(SUBACK, 0, SubSeq(q.body, 1, 2) \o <<1>>) : q \in Reached(SUBSCRIBE)}
    <2>1. PICK q \in Reached(SUBSCRIBE) : p = Packet(SUBACK, 0, SubSeq(q.body, 1, 2) \o <<1>>)
      BY <1>7
    <2>2. PICK s : s = SubSeq(q.body, 1, 2)
      OBVIOUS
    <2>3. s \in Seq(Byte8) /\ Len(s) = 2
      BY <1>6, <2>2
    <2>4. <<1>> \in Seq(Byte8) /\ Len(<<1>>) = 1
      <3>1. 1 \in Byte8
        BY DEF Byte8, Base
      <3> QED
        BY <3>1
    <2>5. Glues(s, <<1>>, s \o <<1>>, Len(s), Len(<<1>>))
      BY <2>3, <2>4, Glued
    <2>6. s \o <<1>> \in Seq(Byte8) /\ Len(s \o <<1>>) = 3
      BY <2>3, <2>4, <2>5 DEF Glues
    <2>7. s \o <<1>> \in Short
      BY <1>3, <2>6, 3 <= 3, Zenon
    <2> QED
      BY <1>1, <1>2, <2>1, <2>2, <2>7, Zenon
  <1>8. CASE p \in {Packet(UNSUBACK, 0, SubSeq(q.body, 1, 2)) : q \in Reached(UNSUBSCRIBE)}
    <2>1. PICK q \in Reached(UNSUBSCRIBE) : p = Packet(UNSUBACK, 0, SubSeq(q.body, 1, 2))
      BY <1>8
    <2>2. SubSeq(q.body, 1, 2) \in Short
      BY <1>6
    <2> QED
      BY <1>1, <1>2, <2>1, <2>2, Zenon
  <1>9. ASSUME NEW qos \in {1, 2}, NEW q \in ReachedPublish(qos)
        PROVE  PublishId(q) \in Short
    <2>1. q \in Reached(PUBLISH) /\ (Flags(q) \div 2) % 4 \in {1, 2}
      BY DEF ReachedPublish
    <2>2. Type(q) = PUBLISH /\ Meant(q) /\ q.body \in Seq(Byte8)
      BY <2>1, ReachedIs
    <2>3. RB16(q.body) \in Nat /\ RB16(q.body) + 4 <= Len(q.body)
      BY <2>1, <2>2 DEF Meant
    <2>4. PublishId(q) \in Seq(Byte8) /\ Len(PublishId(q)) = 2
      BY <2>2, <2>3, IdRead
    <2> QED
      BY <1>3, <2>4, 2 <= 3, Zenon
  <1>10. CASE p \in {Packet(PUBACK, 0, PublishId(q)) : q \in ReachedPublish(1)}
    <2>1. PICK q \in ReachedPublish(1) : p = Packet(PUBACK, 0, PublishId(q))
      BY <1>10
    <2>2. PublishId(q) \in Short
      BY <1>9
    <2> QED
      BY <1>1, <1>2, <2>1, <2>2, Zenon
  <1>11. CASE p \in {Packet(PUBREC, 0, PublishId(q)) : q \in ReachedPublish(2)}
    <2>1. PICK q \in ReachedPublish(2) : p = Packet(PUBREC, 0, PublishId(q))
      BY <1>11
    <2>2. PublishId(q) \in Short
      BY <1>9
    <2> QED
      BY <1>1, <1>2, <2>1, <2>2, Zenon
  <1>12. CASE p \in {Packet(PUBCOMP, 0, q.body) : q \in Reached(PUBREL)}
    <2>1. PICK q \in Reached(PUBREL) : p = Packet(PUBCOMP, 0, q.body)
      BY <1>12
    <2>2. q.body \in Short
      BY ReachedIs DEF Short
    <2> QED
      BY <1>1, <1>2, <2>1, <2>2, Zenon
  <1>13. CASE p \in {Packet(PUBREL, 2, q.body) : q \in Reached(PUBREC)}
    <2>1. PICK q \in Reached(PUBREC) : p = Packet(PUBREL, 2, q.body)
      BY <1>13
    <2>2. q.body \in Short
      BY ReachedIs DEF Short
    <2> QED
      BY <1>1, <1>2, <2>1, <2>2, Zenon
  <1>14. CASE p \in Publishes
    <2>1. PICK m \in Messages : p = Publish(m, 1)
      BY <1>14 DEF Publishes
    <2>2. 1 \in Nat
      OBVIOUS
    <2> QED
      BY <2>1, <2>2, PublishMeant
  <1> QED
    BY <1>4, <1>5, <1>7, <1>8, <1>10, <1>11, <1>12, <1>13, <1>14 DEF Replies

-----------------------------------------------------------------------------
(* Answers.                                                                *)

LEMMA ByteIs ==
    ASSUME NEW x \in Byte8
    PROVE  x \in Nat
  BY DEF Byte8, Base

LEMMA AnswerWritten ==
    ASSUME NEW type \in {PUBACK, PUBREC, PUBREL, PUBCOMP}, NEW flags \in {0, 2},
           NEW s \in Seq(Byte8), Len(s) = 2, NEW e,
           e = <<<<type * 16 + flags, 2>> \o WB16(RB16(s))>>, NEW n \in {3, 4}
    PROVE  /\ Written(Packet(type, flags, s), e, TRUE, n) \in OutEntry
           /\ Len(Gather(e)) = 4
  <1>1. type \in 0 .. 15 /\ flags \in 0 .. 15
    BY DEF PUBACK, PUBREC, PUBREL, PUBCOMP
  <1>2. Packs(e, Packet(type, flags, s)) /\ Len(Gather(e)) = 4
    BY <1>1, Acknowledged
  <1>3. PICK ask : ask = Packet(type, flags, s)
    OBVIOUS
  <1>4. Type(ask) = type
    BY <1>1, <1>3, FirstIs
  <1>5. type \notin {SUBSCRIBE, UNSUBSCRIBE, PUBLISH}
    BY DEF PUBACK, PUBREC, PUBREL, PUBCOMP, SUBSCRIBE, UNSUBSCRIBE, PUBLISH
  <1>6. Packs(e, ask)
    BY <1>2, <1>3
  <1>7. Meant(ask)
    BY <1>4, <1>5, <1>6 DEF Meant, Packs
  <1>8. n \in SendResults(e)
    <2>1. SendResults(e) = {Len(Gather(e)) - 1, Len(Gather(e))}
      BY Zenon DEF SendResults
    <2>2. SendResults(e) = {4 - 1, 4}
      BY <1>2, <2>1, Zenon
    <2>3. 4 - 1 = 3
      OBVIOUS
    <2> QED
      BY <2>2, <2>3, Zenon
  <1>9. Written(ask, e, TRUE, n) \in OutEntry
    BY <1>6, <1>7, <1>8, Wrote
  <1> QED
    BY <1>2, <1>3, <1>9

\* What is packed for an answer, and the four bytes it has.
Replied(p, ask, e, n) ==
    /\ Response(p) = <<ask, e>> /\ Len(Gather(e)) = 4
    /\ Written(ask, e, TRUE, n) \in OutEntry

LEMMA AnswerIs ==
    ASSUME NEW p \in AnyPacket, Dispatch(p), Response(p) # <<>>, NEW n \in {3, 4}
    PROVE  \E ask, e : Replied(p, ask, e, n)
  <1>1. PICK b \in Seq(Byte8) : b = p.body
    BY DEF AnyPacket
  <1>2. /\ PUBACK * 16 = PUBACK * 16 + 0 /\ PUBREC * 16 = PUBREC * 16 + 0
        /\ PUBCOMP * 16 = PUBCOMP * 16 + 0 /\ PUBREL * 16 + 2 = PUBREL * 16 + 2
        /\ PUBLISH # PUBREC /\ PUBLISH # PUBREL /\ PUBREC # PUBREL
    BY DEF PUBACK, PUBREC, PUBREL, PUBCOMP, PUBLISH
  <1>3. CASE Type(p) = PUBLISH /\ (Flags(p) \div 2) % 4 \in {1, 2}
    <2>1. HandlePublish(p)
      BY <1>3 DEF Dispatch, PUBLISH, PINGRESP, CONNACK, PUBACK, PUBREC, PUBCOMP, UNSUBACK,
                  PUBREL, SUBACK
    <2>2. Len(b) >= 2 /\ RB16(b) + 4 <= Len(b)
      BY <1>1, <1>3, <2>1 DEF HandlePublish
    <2>3. RB16(b) \in Nat
      <3>1. b[1] \in Byte8 /\ b[2] \in Byte8
        BY <2>2
      <3>2. PICK x \in Nat : x = b[1]
        BY <3>1, ByteIs
      <3>4. PICK y \in Nat : y = b[2]
        BY <3>1, ByteIs
      <3>3. RB16(b) = x * 256 + y
        BY <3>2, <3>4, Zenon DEF RB16, Base
      <3> QED
        BY <3>3
    <2>4. PICK s \in Seq(Byte8) : s = PublishId(p) /\ Len(s) = 2
      BY <1>1, <2>2, <2>3, IdRead
    <2>5. CASE (Flags(p) \div 2) % 4 = 1
      <3>1. Response(p) = <<Packet(PUBACK, 0, s), PackPubAckPkt(RB16(s))>>
        <4>1. (Flags(p) \div 2) % 4 # 2
          BY <2>5
        <4> QED
          BY <1>2, <1>3, <2>4, <2>5, <4>1, Zenon DEF Response
      <3>2. PICK e : e = PackPubAckPkt(RB16(s))
        OBVIOUS
      <3>3. e = <<<<PUBACK * 16 + 0, 2>> \o WB16(RB16(s))>>
        BY <1>2, <3>2, Zenon DEF PackPubAckPkt
      <3>4. Written(Packet(PUBACK, 0, s), e, TRUE, n) \in OutEntry /\ Len(Gather(e)) = 4
        BY <2>4, <3>3, AnswerWritten
      <3>5. Replied(p, Packet(PUBACK, 0, s), e, n)
        BY <3>1, <3>2, <3>4, Zenon DEF Replied
      <3> QED
        BY <3>5
    <2>6. CASE (Flags(p) \div 2) % 4 = 2
      <3>1. Response(p) = <<Packet(PUBREC, 0, s), PackPubRecPkt(RB16(s))>>
        <4>1. (Flags(p) \div 2) % 4 # 1
          BY <2>6
        <4> QED
          BY <1>2, <1>3, <2>4, <2>6, <4>1, Zenon DEF Response
      <3>2. PICK e : e = PackPubRecPkt(RB16(s))
        OBVIOUS
      <3>3. e = <<<<PUBREC * 16 + 0, 2>> \o WB16(RB16(s))>>
        BY <1>2, <3>2, Zenon DEF PackPubRecPkt
      <3>4. Written(Packet(PUBREC, 0, s), e, TRUE, n) \in OutEntry /\ Len(Gather(e)) = 4
        BY <2>4, <3>3, AnswerWritten
      <3>5. Replied(p, Packet(PUBREC, 0, s), e, n)
        BY <3>1, <3>2, <3>4, Zenon DEF Replied
      <3> QED
        BY <3>5
    <2> QED
      BY <1>3, <2>5, <2>6
  <1>4. CASE Type(p) = PUBREC
    <2>1. HandleId(p, 0)
      BY <1>4 DEF Dispatch, PUBLISH, PINGRESP, CONNACK, PUBACK, PUBREC, PUBCOMP, UNSUBACK,
                  PUBREL, SUBACK
    <2>2. Len(b) = 2
      BY <1>1, <2>1 DEF HandleId
    <2>3. Response(p) = <<Packet(PUBREL, 2, b), PackPubRelPkt(RB16(b))>>
      BY <1>1, <1>2, <1>4, Zenon DEF Response
    <2>4. PICK e : e = PackPubRelPkt(RB16(b))
      OBVIOUS
    <2>5. e = <<<<PUBREL * 16 + 2, 2>> \o WB16(RB16(b))>>
      BY <2>4, Zenon DEF PackPubRelPkt
    <2>6. Written(Packet(PUBREL, 2, b), e, TRUE, n) \in OutEntry /\ Len(Gather(e)) = 4
      BY <2>2, <2>5, AnswerWritten
    <2>7. Replied(p, Packet(PUBREL, 2, b), e, n)
      BY <2>3, <2>4, <2>6, Zenon DEF Replied
    <2> QED
      BY <2>7
  <1>5. CASE Type(p) = PUBREL
    <2>1. HandleId(p, 2)
      BY <1>5 DEF Dispatch, PUBLISH, PINGRESP, CONNACK, PUBACK, PUBREC, PUBCOMP, UNSUBACK,
                  PUBREL, SUBACK
    <2>2. Len(b) = 2
      BY <1>1, <2>1 DEF HandleId
    <2>3. Response(p) = <<Packet(PUBCOMP, 0, b), PackPubCompPkt(RB16(b))>>
      BY <1>1, <1>2, <1>5, Zenon DEF Response
    <2>4. PICK e : e = PackPubCompPkt(RB16(b))
      OBVIOUS
    <2>5. e = <<<<PUBCOMP * 16 + 0, 2>> \o WB16(RB16(b))>>
      BY <1>2, <2>4, Zenon DEF PackPubCompPkt
    <2>6. Written(Packet(PUBCOMP, 0, b), e, TRUE, n) \in OutEntry /\ Len(Gather(e)) = 4
      BY <2>2, <2>5, AnswerWritten
    <2>7. Replied(p, Packet(PUBCOMP, 0, b), e, n)
      BY <2>3, <2>4, <2>6, Zenon DEF Replied
    <2> QED
      BY <2>7
  <1>6. \/ Type(p) = PUBLISH /\ (Flags(p) \div 2) % 4 \in {1, 2}
        \/ Type(p) = PUBREC \/ Type(p) = PUBREL
    <2> SUFFICES ASSUME ~(Type(p) = PUBLISH /\ (Flags(p) \div 2) % 4 \in {1, 2}),
                        Type(p) # PUBREC, Type(p) # PUBREL
                 PROVE  FALSE
      OBVIOUS
    <2>1. Response(p) = <<>>
      BY Zenon DEF Response
    <2> QED
      BY <2>1
  <1> QED
    BY <1>3, <1>4, <1>5, <1>6

-----------------------------------------------------------------------------
(* The answers due and the answers given.                                  *)

Due(seen) == FlattenSeq([i \in 1 .. Len(seen) |-> AnswerTo(seen[i])])
Acted(out) == FlattenSeq([i \in 1 .. Len(out) |-> AnswerIn(out[i])])

Flattens(a, b, x, n) == FlattenSeq(b) = FlattenSeq(a) \o x

LEMMA FlattenGrows ==
    ASSUME NEW n \in Nat, NEW a, NEW b, NEW x, <<>> \o x = x,
           a = [i \in 1 .. n |-> a[i]], b = [i \in 1 .. n + 1 |-> b[i]],
           \A i \in 1 .. n : b[i] = a[i], b[n + 1] = x
    PROVE  Flattens(a, b, x, n)
  <1>1. Len(a) = n /\ Len(b) = n + 1
    OBVIOUS
  <1>2. PICK v : /\ FlattenSeq(b) = v[Len(b)] /\ v[1] = b[1]
                 /\ \A i \in 2 .. Len(b) : v[i] = v[i - 1] \o b[i]
    <2>1. Len(b) \in Nat /\ Len(b) >= 1
      BY <1>1
    <2> QED
      BY <2>1, FlattenIs
  <1>3. CASE n = 0
    <2>1. a = <<>>
      BY <1>3
    <2>2. FlattenSeq(a) = a
      BY <2>1 DEF FlattenSeq
    <2>3. FlattenSeq(b) = x
      BY <1>1, <1>2, <1>3
    <2> QED
      BY <2>1, <2>2, <2>3, Zenon DEF Flattens
  <1>4. CASE n > 0
    <2>1. PICK w : /\ FlattenSeq(a) = w[Len(a)] /\ w[1] = a[1]
                   /\ \A i \in 2 .. Len(a) : w[i] = w[i - 1] \o a[i]
      <3>1. Len(a) \in Nat /\ Len(a) >= 1
        BY <1>1, <1>4
      <3> QED
        BY <3>1, FlattenIs
    <2> DEFINE N == {i \in Nat : i + 1 <= n => v[i + 1] = w[i + 1]}
    <2>2. 0 \in N
      <3>1. v[1] = w[1]
        <4>1. 1 \in 1 .. n
          BY <1>4
        <4> QED
          BY <1>2, <2>1, <4>1, Zenon
      <3>2. 0 + 1 = 1
        OBVIOUS
      <3> QED
        BY <3>1, <3>2
    <2>3. ASSUME NEW i \in N PROVE i + 1 \in N
      <3>1. PICK k \in Nat : k = i + 1
        OBVIOUS
      <3>2. ASSUME k + 1 <= n PROVE v[k + 1] = w[k + 1]
        <4>1. v[k] = w[k]
          BY <3>1, <3>2
        <4>2. k + 1 \in 2 .. Len(a) /\ k + 1 \in 2 .. Len(b) /\ (k + 1) - 1 = k
              /\ k + 1 \in 1 .. n
          BY <1>1, <3>1, <3>2
        <4>3. v[k + 1] = v[k] \o b[k + 1]
          BY <1>2, <4>2
        <4>4. w[k + 1] = w[k] \o a[k + 1]
          BY <2>1, <4>2
        <4>5. b[k + 1] = a[k + 1]
          BY <4>2
        <4> QED
          BY <4>1, <4>3, <4>4, <4>5, Zenon
      <3> QED
        BY <3>1, <3>2
    <2>4. N = Nat
      <3>1. N \subseteq Nat
        OBVIOUS
      <3> HIDE DEF N
      <3> QED
        BY <2>2, <2>3, <3>1, NatSetInduction
    <2>5. v[n] = w[n]
      <3>1. n - 1 \in N /\ (n - 1) + 1 = n
        <4> HIDE DEF N
        <4> QED
          BY <1>4, <2>4
      <3> QED
        BY <3>1
    <2>6. v[n + 1] = v[n] \o b[n + 1]
      <3>1. n + 1 \in 2 .. Len(b) /\ (n + 1) - 1 = n
        BY <1>1, <1>4
      <3> QED
        BY <1>2, <3>1
    <2>7. FlattenSeq(b) = v[n + 1] /\ FlattenSeq(a) = w[n]
      BY <1>1, <1>2, <2>1
    <2> QED
      BY <2>5, <2>6, <2>7, Zenon DEF Flattens
  <1>5. n = 0 \/ n > 0
    OBVIOUS
  <1> QED
    BY <1>3, <1>4, <1>5, Zenon

Grows(seen, p, d) == Due(Append(seen, p)) = d \o AnswerTo(p)

LEMMA DueGrows ==
    ASSUME NEW seen \in Seq(AnyPacket), NEW p \in AnyPacket, <<>> \o AnswerTo(p) = AnswerTo(p)
    PROVE  Grows(seen, p, Due(seen))
  <1>1. PICK n \in Nat : n = Len(seen)
    OBVIOUS
  <1>2. PICK z : z = Append(seen, p)
    OBVIOUS
  <1>3. /\ Len(z) = n + 1 /\ z[n + 1] = p
        /\ \A i \in 1 .. n : z[i] = seen[i]
    <2>1. Appends(AnyPacket, seen, p, Append(seen, p), Len(seen))
      BY Appended
    <2> QED
      BY <1>1, <1>2, <2>1 DEF Appends
  <1>4. PICK a : a = [i \in 1 .. n |-> AnswerTo(seen[i])]
    OBVIOUS
  <1>5. PICK b : b = [i \in 1 .. n + 1 |-> AnswerTo(z[i])]
    OBVIOUS
  <1>6. FlattenSeq(b) = FlattenSeq(a) \o AnswerTo(p)
    <2>1. b[n + 1] = AnswerTo(p)
      <3>1. n + 1 \in 1 .. n + 1
        OBVIOUS
      <3> QED
        BY <1>3, <1>5, <3>1
    <2>2. \A i \in 1 .. n : b[i] = a[i]
      BY <1>3, <1>4, <1>5
    <2>3. a = [i \in 1 .. n |-> a[i]] /\ b = [i \in 1 .. n + 1 |-> b[i]]
      BY <1>4, <1>5
    <2>4. Flattens(a, b, AnswerTo(p), n)
      BY <2>1, <2>2, <2>3, FlattenGrows
    <2> QED
      BY <2>4, Zenon DEF Flattens
  <1>7. Due(z) = FlattenSeq(b) /\ Due(seen) = FlattenSeq(a)
    BY <1>1, <1>3, <1>4, <1>5, Zenon DEF Due
  <1> QED
    BY <1>2, <1>6, <1>7, Zenon DEF Grows

Fills(out, w, d) == Acted(Append(out, w)) = d \o AnswerIn(w)

LEMMA DoneGrows ==
    ASSUME NEW out \in Seq(OutEntry), NEW w \in OutEntry
    PROVE  Fills(out, w, Acted(out))
  <1>1. PICK n \in Nat : n = Len(out)
    OBVIOUS
  <1>2. PICK z : z = Append(out, w)
    OBVIOUS
  <1>3. /\ Len(z) = n + 1 /\ z[n + 1] = w
        /\ \A i \in 1 .. n : z[i] = out[i]
    <2>1. Appends(OutEntry, out, w, Append(out, w), Len(out))
      BY Appended
    <2> QED
      BY <1>1, <1>2, <2>1 DEF Appends
  <1>4. PICK a : a = [i \in 1 .. n |-> AnswerIn(out[i])]
    OBVIOUS
  <1>5. PICK b : b = [i \in 1 .. n + 1 |-> AnswerIn(z[i])]
    OBVIOUS
  <1>6. FlattenSeq(b) = FlattenSeq(a) \o AnswerIn(w)
    <2>1. b[n + 1] = AnswerIn(w)
      <3>1. n + 1 \in 1 .. n + 1
        OBVIOUS
      <3> QED
        BY <1>3, <1>5, <3>1
    <2>2. \A i \in 1 .. n : b[i] = a[i]
      BY <1>3, <1>4, <1>5
    <2>3. a = [i \in 1 .. n |-> a[i]] /\ b = [i \in 1 .. n + 1 |-> b[i]]
      BY <1>4, <1>5
    <2>4. AnswerIn(w) \in Seq(ShortPacket)
      <3>1. w.ask \in ShortPacket
        BY DEF OutEntry
      <3> QED
        BY <3>1 DEF AnswerIn
    <2>5. <<>> \o AnswerIn(w) = AnswerIn(w)
      BY <2>4
    <2>6. Flattens(a, b, AnswerIn(w), n)
      BY <2>1, <2>2, <2>3, <2>5, FlattenGrows
    <2> QED
      BY <2>6, Zenon DEF Flattens
  <1>7. Acted(z) = FlattenSeq(b) /\ Acted(out) = FlattenSeq(a)
    BY <1>1, <1>3, <1>4, <1>5, Zenon DEF Acted
  <1> QED
    BY <1>2, <1>6, <1>7, Zenon DEF Fills

-----------------------------------------------------------------------------
(* A turn of the loop.                                                     *)

State(b, k, s, o, f, l, d) ==
    [buf |-> b, cursor |-> k, seen |-> s, handed |-> d, out |-> o, spoilt |-> f, is |-> l]

\* The loop's state, with N bytes in its buffer.
Stands(st, N) ==
    /\ st = State(st.buf, st.cursor, st.seen, st.out, st.spoilt, st.is, st.handed)
    /\ st.buf \in Seq(Byte8) /\ Len(st.buf) = N /\ st.cursor \in 0 .. N
    /\ st.seen \in Seq(AnyPacket) /\ st.out \in Seq(OutEntry) /\ st.spoilt \in BOOLEAN

LEMMA StateIs ==
    ASSUME NEW b, NEW k, NEW s, NEW o, NEW f, NEW l, NEW d
    PROVE  LET st == State(b, k, s, o, f, l, d)
           IN  /\ st.buf = b /\ st.cursor = k /\ st.seen = s /\ st.out = o
               /\ st.spoilt = f /\ st.is = l /\ st.handed = d
  BY DEF State

LEMMA StateChanges ==
    ASSUME NEW b, NEW k, NEW s, NEW o, NEW f, NEW l, NEW d, NEW x
    PROVE  LET st == State(b, k, s, o, f, l, d)
           IN  /\ [st EXCEPT !.cursor = x] = State(b, x, s, o, f, l, d)
               /\ [st EXCEPT !.seen = Append(@, x)] = State(b, k, Append(s, x), o, f, l, d)
               /\ [st EXCEPT !.out = Append(@, x)] = State(b, k, s, Append(o, x), f, l, d)
               /\ [st EXCEPT !.is = x] = State(b, k, s, o, f, x, d)
  <1> DEFINE st == State(b, k, s, o, f, l, d)
  <1>1. [st EXCEPT !.cursor = x] = State(b, x, s, o, f, l, d)
    BY DEF State
  <1>2. [st EXCEPT !.is = x] = State(b, k, s, o, f, x, d)
    BY DEF State
  <1>3. PICK y, z : y = Append(s, x) /\ z = Append(o, x)
    OBVIOUS
  <1>4. [st EXCEPT !.seen = Append(@, x)] = State(b, k, y, o, f, l, d)
    <2>1. st.seen = s
      BY DEF State
    <2>2. [st EXCEPT !.seen = Append(@, x)] = [st EXCEPT !.seen = Append(st.seen, x)]
      OBVIOUS
    <2>3. [st EXCEPT !.seen = Append(@, x)] = [st EXCEPT !.seen = y]
      BY <1>3, <2>1, <2>2, Zenon
    <2>4. [st EXCEPT !.seen = y] = State(b, k, y, o, f, l, d)
      BY DEF State
    <2> QED
      BY <2>3, <2>4, Zenon
  <1>5. [st EXCEPT !.out = Append(@, x)] = State(b, k, s, z, f, l, d)
    <2>1. st.out = o
      BY DEF State
    <2>2. [st EXCEPT !.out = Append(@, x)] = [st EXCEPT !.out = Append(st.out, x)]
      OBVIOUS
    <2>3. [st EXCEPT !.out = Append(@, x)] = [st EXCEPT !.out = z]
      BY <1>3, <2>1, <2>2, Zenon
    <2>4. [st EXCEPT !.out = z] = State(b, k, s, z, f, l, d)
      BY DEF State
    <2> QED
      BY <2>3, <2>4, Zenon
  <1> QED
    BY <1>1, <1>2, <1>3, <1>4, <1>5, Zenon

Spoils(st, c, g, k, s, o, l, d) ==
    [st EXCEPT !.buf = c, !.spoilt = g] = State(c, k, s, o, g, l, d)

LEMMA StateSpoils ==
    ASSUME NEW b, NEW k, NEW s, NEW o, NEW f, NEW l, NEW d, NEW c, NEW g, NEW st,
           st = State(b, k, s, o, f, l, d)
    PROVE  Spoils(st, c, g, k, s, o, l, d)
  <1>2. PICK t : t = [st EXCEPT !.buf = c]
    OBVIOUS
  <1>3. t = State(c, k, s, o, f, l, d)
    BY <1>2 DEF State
  <1>4. [st EXCEPT !.buf = c, !.spoilt = g] = [t EXCEPT !.spoilt = g]
    BY <1>2
  <1>5. [t EXCEPT !.spoilt = g] = State(c, k, s, o, g, l, d)
    BY <1>3 DEF State
  <1> QED
    BY <1>4, <1>5, Zenon DEF Spoils

\* c is b behind its first k bytes.
SameBehind(c, b, k) == SubSeq(c, k + 1, Len(c)) = SubSeq(b, k + 1, Len(b))

LEMMA Overwritten ==
    ASSUME NEW s \in Seq(Byte8), NEW k
    PROVE  [s EXCEPT ![k] = 0] \in Seq(Byte8) /\ Len([s EXCEPT ![k] = 0]) = Len(s)
  <1>1. PICK n \in Nat : n = Len(s)
    OBVIOUS
  <1>2. PICK f : f = [i \in 1 .. n |-> IF i = k THEN 0 ELSE s[i]]
    OBVIOUS
  <1>3. f \in Seq(Byte8) /\ Len(f) = n
    <2>1. 0 \in Byte8 /\ \A i \in 1 .. n : s[i] \in Byte8
      BY <1>1 DEF Byte8, Base
    <2>2. f \in [1 .. n -> Byte8]
      BY <1>2, <2>1
    <2> QED
      BY <1>2, <2>2
  <1>4. [s EXCEPT ![k] = 0] = f
    <2>1. s = [i \in 1 .. n |-> s[i]]
      BY <1>1
    <2> QED
      BY <1>2, <2>1
  <1> QED
    BY <1>1, <1>3, <1>4

LEMMA OverwrittenBefore ==
    ASSUME NEW s \in Seq(Byte8), NEW k, NEW cursor \in Nat, ~(k > cursor)
    PROVE  SameBehind([s EXCEPT ![k] = 0], s, cursor)
  <1>1. PICK n \in Nat : n = Len(s)
    OBVIOUS
  <1>2. PICK c \in Seq(Byte8) : c = [s EXCEPT ![k] = 0] /\ Len(c) = n
    BY <1>1, Overwritten
  <1>3. ASSUME NEW i \in cursor + 1 .. n PROVE c[i] = s[i]
    <2>1. i # k
      BY <1>3
    <2>2. i \in 1 .. n
      OBVIOUS
    <2> QED
      BY <1>1, <1>2, <2>1, <2>2
  <1>4. SubSeq(c, cursor + 1, n) = SubSeq(s, cursor + 1, n)
    <2>1. CASE cursor >= n
      <3>1. ASSUME NEW x \in Seq(Byte8) PROVE SubSeq(x, cursor + 1, n) = <<>>
        BY <2>1
      <3>2. SubSeq(c, cursor + 1, n) = <<>> /\ SubSeq(s, cursor + 1, n) = <<>>
        BY <3>1
      <3> QED
        BY <3>2, Zenon
    <2>2. CASE cursor < n
      <3>A. n - cursor \in Nat
        BY <1>1, <2>2
      <3>1. PICK m \in Nat : m = n - cursor
        BY <3>A
      <3>2. cursor + m = n
        BY <3>1
      <3>3. MqttTakes(c, cursor, m, SubSeq(c, cursor + 1, cursor + m))
        <4>1. Len(c) = n
          BY <1>2
        <4>2. cursor + m <= Len(c)
          BY <3>2, <4>1
        <4> QED
          BY <4>2, TakenOff
      <3>4. MqttTakes(s, cursor, m, SubSeq(s, cursor + 1, cursor + m))
        <4>1. cursor + m <= Len(s)
          BY <1>1, <3>2
        <4> QED
          BY <4>1, TakenOff
      <3>5. PICK x, y : x = SubSeq(c, cursor + 1, cursor + m)
                        /\ y = SubSeq(s, cursor + 1, cursor + m)
        OBVIOUS
      <3>6. /\ x \in Seq(Byte8) /\ y \in Seq(Byte8) /\ Len(x) = m /\ Len(y) = m
            /\ \A i \in 1 .. m : x[i] = c[cursor + i] /\ y[i] = s[cursor + i]
        BY <3>3, <3>4, <3>5 DEF MqttTakes
      <3>7. \A i \in 1 .. m : x[i] = y[i]
        <4> SUFFICES ASSUME NEW i \in 1 .. m PROVE x[i] = y[i]
          OBVIOUS
        <4>1. cursor + i \in cursor + 1 .. n
          BY <3>2
        <4> QED
          BY <1>3, <3>6, <4>1
      <3>8. x = y
        BY <3>6, <3>7, SameSeq
      <3> QED
        BY <3>2, <3>5, <3>8
    <2> QED
      BY <2>1, <2>2
  <1> QED
    BY <1>1, <1>2, <1>4 DEF SameBehind

\* What handing a message on does to the state.
Cut1(b, k, s, o, f, l, u, N, cursor, c, g, d) ==
    /\ u = State(c, k, s, o, g, l, d) /\ c \in Seq(Byte8) /\ Len(c) = N
    /\ g \in BOOLEAN /\ (~g => ~f /\ SameBehind(c, b, cursor))

Cuts(b, k, s, o, f, l, u, N, cursor) ==
    \E c, g, d : Cut1(b, k, s, o, f, l, u, N, cursor, c, g, d)

LEMMA Uncut ==
    ASSUME NEW b \in Seq(Byte8), NEW k, NEW s, NEW o, NEW f \in BOOLEAN, NEW l, NEW d,
           NEW cursor, NEW st, st = State(b, k, s, o, f, l, d)
    PROVE  Cuts(b, k, s, o, f, l, st, Len(b), cursor)
  <1>1. SameBehind(b, b, cursor)
    BY DEF SameBehind
  <1>2. Cut1(b, k, s, o, f, l, st, Len(b), cursor, b, f, d)
    BY <1>1 DEF Cut1
  <1> QED
    BY <1>2, Zenon DEF Cuts

LEMMA TerminateIs ==
    ASSUME NEW b \in Seq(Byte8), NEW k, NEW s, NEW o, NEW f \in BOOLEAN, NEW l, NEW d,
           NEW p, NEW cursor \in Nat, NEW st, st = State(b, k, s, o, f, l, d)
    PROVE  Cuts(b, k, s, o, f, l, TerminateTopic(st, p, cursor), Len(b), cursor)
  <1>1. st.buf = b /\ st.spoilt = f
    BY StateIs
  <1>2. PICK end : end = cursor - Len(p.body) + Behind(p)
    OBVIOUS
  <1>3. CASE end > Len(st.buf)
    <2>1. TerminateTopic(st, p, cursor) = st
      BY <1>2, <1>3, Zenon DEF TerminateTopic
    <2>2. Cuts(b, k, s, o, f, l, st, Len(b), cursor)
      BY Uncut
    <2> QED
      BY <2>1, <2>2, Zenon
  <1>4. CASE ~(end > Len(st.buf))
    <2>1. TerminateTopic(st, p, cursor)
            = [st EXCEPT !.buf[end] = 0, !.spoilt = st.spoilt \/ end > cursor]
      BY <1>2, <1>4, Zenon DEF TerminateTopic
    <2>2. PICK c : c = [b EXCEPT ![end] = 0]
      OBVIOUS
    <2>3. PICK g \in BOOLEAN : g = (f \/ end > cursor)
      OBVIOUS
    <2>4. [st EXCEPT !.buf[end] = 0, !.spoilt = st.spoilt \/ end > cursor]
            = State(c, k, s, o, g, l, d)
      <3>1. [st EXCEPT !.buf[end] = 0, !.spoilt = st.spoilt \/ end > cursor]
              = [st EXCEPT !.buf = [st.buf EXCEPT ![end] = 0],
                           !.spoilt = st.spoilt \/ end > cursor]
        OBVIOUS
      <3>2. (st.spoilt \/ end > cursor) = g
        BY <1>1, <2>3
      <3>3. [st EXCEPT !.buf[end] = 0, !.spoilt = st.spoilt \/ end > cursor]
              = [st EXCEPT !.buf = c, !.spoilt = g]
        BY <1>1, <2>2, <3>1, <3>2, Zenon
      <3>4. Spoils(st, c, g, k, s, o, l, d)
        BY StateSpoils
      <3> QED
        BY <3>3, <3>4, Zenon DEF Spoils
    <2>5. c \in Seq(Byte8) /\ Len(c) = Len(b)
      BY <2>2, Overwritten
    <2>6. ~g => ~f /\ SameBehind(c, b, cursor)
      <3> SUFFICES ASSUME ~g PROVE ~f /\ SameBehind(c, b, cursor)
        OBVIOUS
      <3>1. ~f /\ ~(end > cursor)
        BY <2>3
      <3>2. SameBehind([b EXCEPT ![end] = 0], b, cursor)
        BY <3>1, OverwrittenBefore
      <3> QED
        BY <2>2, <3>1, <3>2, Zenon
    <2>7. Cut1(b, k, s, o, f, l, State(c, k, s, o, g, l, d), Len(b), cursor, c, g, d)
      BY <2>5, <2>6, Zenon DEF Cut1
    <2>8. Cuts(b, k, s, o, f, l, State(c, k, s, o, g, l, d), Len(b), cursor)
      BY <2>7, Zenon DEF Cuts
    <2> QED
      BY <2>1, <2>4, <2>8, Zenon
  <1> QED
    BY <1>3, <1>4

LEMMA HandOnIs ==
    ASSUME NEW b \in Seq(Byte8), NEW k, NEW s, NEW o, NEW f \in BOOLEAN, NEW l, NEW d,
           NEW p, NEW cursor \in Nat, NEW st, st = State(b, k, s, o, f, l, d)
    PROVE  Cuts(b, k, s, o, f, l, HandOn(st, p, cursor), Len(b), cursor)
  <1>1. CASE Type(p) # PUBLISH
    <2>1. HandOn(st, p, cursor) = st
      BY <1>1, Zenon DEF HandOn
    <2>2. Cuts(b, k, s, o, f, l, st, Len(b), cursor)
      BY Uncut
    <2> QED
      BY <2>1, <2>2, Zenon
  <1>2. CASE Type(p) = PUBLISH
    <2>1. PICK ended : ended = TerminateTopic(st, p, cursor)
      OBVIOUS
    <2>2. Cuts(b, k, s, o, f, l, ended, Len(b), cursor)
      BY <2>1, TerminateIs
    <2>3. PICK c, g, e : Cut1(b, k, s, o, f, l, ended, Len(b), cursor, c, g, e)
      BY <2>2, Zenon DEF Cuts
    <2>4. PICK x : x = Append(st.handed, Handed(ended, p, cursor))
      OBVIOUS
    <2>5. HandOn(st, p, cursor) = [ended EXCEPT !.handed = x]
      BY <1>2, <2>1, <2>4, Zenon DEF HandOn
    <2>6. [State(c, k, s, o, g, l, e) EXCEPT !.handed = x] = State(c, k, s, o, g, l, x)
      BY DEF State
    <2>7. ended = State(c, k, s, o, g, l, e)
      BY <2>3, Zenon DEF Cut1
    <2>8. HandOn(st, p, cursor) = State(c, k, s, o, g, l, x)
      BY <2>5, <2>6, <2>7, Zenon
    <2>9. Cut1(b, k, s, o, f, l, HandOn(st, p, cursor), Len(b), cursor, c, g, x)
      BY <2>3, <2>8, Zenon DEF Cut1
    <2> QED
      BY <2>9, Zenon DEF Cuts
  <1> QED
    BY <1>1, <1>2

\* What taking a packet does to the state: w is what was written for it.
Step1(b, k, s, o, f, l, u, p, cursor, N, c, j, q, g, m, h) ==
    /\ u = State(c, j, Append(s, p), q, g, m, h) /\ c \in Seq(Byte8) /\ Len(c) = N
    /\ j \in {k, cursor} /\ g \in BOOLEAN /\ (~g => ~f /\ SameBehind(c, b, cursor))
    /\ m # "failed" => m = l /\ j = cursor
    /\ \/ m = "failed" /\ (q = o \/ \E w \in OutEntry : q = Append(o, w))
       \/ m # "failed" /\ q = o /\ AnswerTo(p) = <<>>
       \/ /\ m # "failed"
          /\ \E w \in OutEntry : /\ q = Append(o, w) /\ w.answer = TRUE
                              /\ w.written = Len(w.bytes)
                              /\ AnswerTo(p) = <<w.ask>>

Steps(b, k, s, o, f, l, u, p, cursor, N) ==
    \E c, j, q, g, m, h : Step1(b, k, s, o, f, l, u, p, cursor, N, c, j, q, g, m, h)

LEMMA TakeIs ==
    ASSUME NEW b \in Seq(Byte8), NEW k, NEW s, NEW o, NEW f \in BOOLEAN, NEW l, NEW d,
           NEW p \in AnyPacket, NEW cursor \in Nat, NEW n \in {3, 4}, NEW st,
           st = State(b, k, s, o, f, l, d), l # "failed"
    PROVE  Steps(b, k, s, o, f, l, TakePacket(st, p, cursor, n), p, cursor, Len(b))
  <1>1. PICK t : t = Append(s, p)
    OBVIOUS
  <1>2. PICK given : given = State(b, k, t, o, f, l, d)
    OBVIOUS
  <1>3. [st EXCEPT !.seen = Append(@, p)] = given
    BY <1>1, <1>2, StateChanges
  <1>4. Cuts(b, k, t, o, f, l, HandOn(given, p, cursor), Len(b), cursor)
    BY <1>2, HandOnIs
  <1>5. PICK c, g, h : /\ HandOn(given, p, cursor) = State(c, k, t, o, g, l, h)
                       /\ c \in Seq(Byte8) /\ Len(c) = Len(b)
                       /\ g \in BOOLEAN /\ (~g => ~f /\ SameBehind(c, b, cursor))
    BY <1>4 DEF Cuts, Cut1
  <1>6. [HandOn(given, p, cursor) EXCEPT !.cursor = cursor] = State(c, cursor, t, o, g, l, h)
    <2>1. [State(c, k, t, o, g, l, h) EXCEPT !.cursor = cursor] = State(c, cursor, t, o, g, l, h)
      BY DEF State
    <2> QED
      BY <1>5, <2>1, Zenon
  <1>7. PICK after : after = State(c, cursor, t, o, g, l, h)
    OBVIOUS
  <1>8. TakePacket(st, p, cursor, n) =
          IF ~Dispatch(p) THEN [given EXCEPT !.is = "failed"]
          ELSE IF Response(p) = <<>> THEN after
          ELSE IF n = 4
               THEN [after EXCEPT !.out =
                        Append(@, Written(Response(p)[1], Response(p)[2], TRUE, n))]
               ELSE [[after EXCEPT !.out =
                        Append(@, Written(Response(p)[1], Response(p)[2], TRUE, n))]
                       EXCEPT !.cursor = st.cursor, !.is = "failed"]
    <2>1. TakePacket(st, p, cursor, n) =
            IF ~Dispatch(p)
            THEN [[st EXCEPT !.seen = Append(@, p)] EXCEPT !.is = "failed"]
            ELSE IF Response(p) = <<>>
            THEN [HandOn([st EXCEPT !.seen = Append(@, p)], p, cursor)
                    EXCEPT !.cursor = cursor]
            ELSE IF n = 4
            THEN [[HandOn([st EXCEPT !.seen = Append(@, p)], p, cursor)
                     EXCEPT !.cursor = cursor]
                    EXCEPT !.out = Append(@, Written(Response(p)[1], Response(p)[2], TRUE, n))]
            ELSE [[[HandOn([st EXCEPT !.seen = Append(@, p)], p, cursor)
                      EXCEPT !.cursor = cursor]
                     EXCEPT !.out = Append(@, Written(Response(p)[1], Response(p)[2], TRUE, n))]
                    EXCEPT !.cursor = st.cursor, !.is = "failed"]
      BY Zenon DEF TakePacket
    <2>2. [st EXCEPT !.seen = Append(@, p)] = given
          /\ [HandOn(given, p, cursor) EXCEPT !.cursor = cursor] = after
      BY <1>3, <1>6, <1>7, Zenon
    <2> QED
      BY <2>1, <2>2, Zenon
  <1>9. PICK u : u = TakePacket(st, p, cursor, n)
    OBVIOUS
  <1>10. CASE ~Dispatch(p)
    <2>1. u = State(b, k, t, o, f, "failed", d)
      <3>1. [State(b, k, t, o, f, l, d) EXCEPT !.is = "failed"] = State(b, k, t, o, f, "failed", d)
        BY DEF State
      <3> QED
        BY <1>2, <1>8, <1>9, <1>10, <3>1, Zenon
    <2>2. Step1(b, k, s, o, f, l, u, p, cursor, Len(b), b, k, o, f, "failed", d)
      BY <1>1, <2>1, Zenon DEF Step1, SameBehind
    <2>3. Steps(b, k, s, o, f, l, u, p, cursor, Len(b))
      BY <2>2, Zenon DEF Steps
    <2> QED
      BY <1>9, <2>3
  <1>11. CASE Dispatch(p) /\ Response(p) = <<>>
    <2>1. u = State(c, cursor, t, o, g, l, h)
      BY <1>7, <1>8, <1>9, <1>11, Zenon
    <2>2. AnswerTo(p) = <<>>
      BY <1>11 DEF AnswerTo
    <2>3. Step1(b, k, s, o, f, l, u, p, cursor, Len(b), c, cursor, o, g, l, h)
      BY <1>1, <1>5, <2>1, <2>2 DEF Step1
    <2>4. Steps(b, k, s, o, f, l, u, p, cursor, Len(b))
      BY <2>3, Zenon DEF Steps
    <2> QED
      BY <1>9, <2>4
  <1>12. CASE Dispatch(p) /\ Response(p) # <<>>
    <2>1. PICK ask, e : Replied(p, ask, e, n)
      BY <1>12, AnswerIs
    <2>2. PICK w \in OutEntry : w = Written(ask, e, TRUE, n)
      BY <2>1 DEF Replied
    <2>3. Response(p) = <<ask, e>> /\ Len(Gather(e)) = 4
      BY <2>1 DEF Replied
    <2>4. Response(p)[1] = ask /\ Response(p)[2] = e
      BY <2>3
    <2>5. w.ask = ask /\ w.answer = TRUE /\ w.written = n /\ Len(w.bytes) = 4
      BY <2>2, <2>3 DEF Written
    <2>6. [after EXCEPT !.out = Append(@, w)] = State(c, cursor, t, Append(o, w), g, l, h)
      BY <1>7, StateChanges
    <2>7. AnswerTo(p) = <<w.ask>>
      BY <1>12, <2>4, <2>5, Zenon DEF AnswerTo
    <2>8. CASE n = 4
      <3>1. u = [after EXCEPT !.out = Append(@, w)]
        BY <1>8, <1>9, <1>12, <2>2, <2>4, <2>8, Zenon
      <3>2. u = State(c, cursor, t, Append(o, w), g, l, h)
        BY <2>6, <3>1, Zenon
      <3>3. Step1(b, k, s, o, f, l, u, p, cursor, Len(b), c, cursor, Append(o, w), g, l, h)
        BY <1>1, <1>5, <2>5, <2>7, <2>8, <3>2 DEF Step1
      <3>4. Steps(b, k, s, o, f, l, u, p, cursor, Len(b))
        BY <3>3, Zenon DEF Steps
      <3> QED
        BY <1>9, <3>4
    <2>9. CASE n # 4
      <3>1. u = [[after EXCEPT !.out = Append(@, w)] EXCEPT !.cursor = st.cursor, !.is = "failed"]
        BY <1>8, <1>9, <1>12, <2>2, <2>4, <2>9, Zenon
      <3>2. u = State(c, k, t, Append(o, w), g, "failed", h)
        <4>1. st.cursor = k
          BY StateIs
        <4> QED
          BY <2>6, <3>1, <4>1 DEF State
      <3>3. Step1(b, k, s, o, f, l, u, p, cursor, Len(b), c, k, Append(o, w), g, "failed", h)
        BY <1>1, <1>5, <3>2 DEF Step1
      <3>4. Steps(b, k, s, o, f, l, u, p, cursor, Len(b))
        BY <3>3, Zenon DEF Steps
      <3> QED
        BY <1>9, <3>4
    <2> QED
      BY <2>8, <2>9
  <1> QED
    BY <1>10, <1>11, <1>12

-----------------------------------------------------------------------------
(* What a turn keeps: the answers are those due, and unless a fault has    *)
(* reached the stream, what is left of it starts at the next packet.       *)

AllAnswered(seen, out) ==
    /\ Acted(out) \in Seq(ShortPacket) /\ Due(seen) = Acted(out)
    /\ \A i \in 1 .. Len(out) : out[i].answer => out[i].written = Len(out[i].bytes)

LEMMA NoneDue ==
    ASSUME NEW seen \in Seq(AnyPacket), NEW p \in AnyPacket, NEW out, AllAnswered(seen, out),
           AnswerTo(p) = <<>>
    PROVE  AllAnswered(Append(seen, p), out)
  <1>1. <<>> \o AnswerTo(p) = AnswerTo(p)
    <2>1. <<>> \o <<>> = <<>>
      OBVIOUS
    <2> QED
      BY <2>1, Zenon
  <1>2. Grows(seen, p, Due(seen))
    BY <1>1, DueGrows
  <1>3. PICK d : d = Acted(out) /\ d \in Seq(ShortPacket) /\ Due(seen) = d
    BY DEF AllAnswered
  <1>4. d \o <<>> = d
    BY <1>3
  <1>5. Due(Append(seen, p)) = Acted(out)
    BY <1>2, <1>3, <1>4, Zenon DEF Grows
  <1> QED
    BY <1>5 DEF AllAnswered

LEMMA EntryIs ==
    ASSUME NEW w \in OutEntry
    PROVE  w.ask \in ShortPacket /\ w.answer \in BOOLEAN
  BY DEF OutEntry

LEMMA WrittenMore ==
    ASSUME NEW out \in Seq(OutEntry), NEW w \in OutEntry,
           \A i \in 1 .. Len(out) : out[i].answer => out[i].written = Len(out[i].bytes),
           w.answer => w.written = Len(w.bytes), NEW z, z = Append(out, w)
    PROVE  \A i \in 1 .. Len(z) : z[i].answer => z[i].written = Len(z[i].bytes)
  <1>1. Appends(OutEntry, out, w, Append(out, w), Len(out))
    BY Appended
  <1>2. PICK n \in Nat : n = Len(out)
    OBVIOUS
  <1>3. Len(z) = n + 1 /\ z[n + 1] = w /\ \A i \in 1 .. n : z[i] = out[i]
    BY <1>1, <1>2 DEF Appends
  <1> SUFFICES ASSUME NEW i \in 1 .. n + 1, z[i].answer
               PROVE  z[i].written = Len(z[i].bytes)
    BY <1>3
  <1>4. CASE i = n + 1
    <2>1. z[i] = w
      BY <1>3, <1>4
    <2> QED
      BY <2>1
  <1>5. CASE i # n + 1
    <2>1. i \in 1 .. n
      BY <1>5
    <2>2. z[i] = out[i] /\ i \in 1 .. Len(out)
      BY <1>2, <1>3, <2>1
    <2> QED
      BY <2>2
  <1> QED
    BY <1>4, <1>5

LEMMA Given ==
    ASSUME NEW seen \in Seq(AnyPacket), NEW p \in AnyPacket, NEW out \in Seq(OutEntry),
           AllAnswered(seen, out), NEW w \in OutEntry, w.answer = TRUE,
           w.written = Len(w.bytes), AnswerTo(p) = <<w.ask>>
    PROVE  AllAnswered(Append(seen, p), Append(out, w))
  <1>1. PICK x : x = <<w.ask>>
    OBVIOUS
  <1>2. x \in Seq(ShortPacket)
    BY <1>1, EntryIs
  <1>3. <<>> \o x = x
    BY <1>2
  <1>4. AnswerTo(p) = x /\ AnswerIn(w) = x
    BY <1>1 DEF AnswerIn
  <1>5. Grows(seen, p, Due(seen))
    BY <1>3, <1>4, DueGrows
  <1>6. Fills(out, w, Acted(out))
    BY DoneGrows
  <1>7. PICK d : d = Acted(out) /\ d \in Seq(ShortPacket) /\ Due(seen) = d
    BY DEF AllAnswered
  <1>8. d \o x \in Seq(ShortPacket)
    BY <1>2, <1>7
  <1>9. Due(Append(seen, p)) = d \o x /\ Acted(Append(out, w)) = d \o x
    BY <1>4, <1>5, <1>6, <1>7, Zenon DEF Grows, Fills
  <1>10. PICK z : z = Append(out, w)
    OBVIOUS
  <1>11. \A i \in 1 .. Len(z) : z[i].answer => z[i].written = Len(z[i].bytes)
    BY <1>10, WrittenMore DEF AllAnswered
  <1> QED
    BY <1>8, <1>9, <1>10, <1>11 DEF AllAnswered

LEMMA AskedFor ==
    ASSUME NEW seen, NEW out \in Seq(OutEntry), AllAnswered(seen, out), NEW w \in OutEntry, ~w.answer
    PROVE  AllAnswered(seen, Append(out, w))
  <1>1. AnswerIn(w) = <<>>
    BY DEF AnswerIn
  <1>2. Fills(out, w, Acted(out))
    BY DoneGrows
  <1>3. PICK d : d = Acted(out) /\ d \in Seq(ShortPacket) /\ Due(seen) = d
    BY DEF AllAnswered
  <1>4. d \o <<>> = d
    BY <1>3
  <1>5. Acted(Append(out, w)) = d
    BY <1>1, <1>2, <1>3, <1>4, Zenon DEF Fills
  <1>6. PICK z : z = Append(out, w)
    OBVIOUS
  <1>7. \A i \in 1 .. Len(z) : z[i].answer => z[i].written = Len(z[i].bytes)
    BY <1>6, WrittenMore DEF AllAnswered
  <1> QED
    BY <1>3, <1>5, <1>6, <1>7 DEF AllAnswered

LEMMA JoinAppend ==
    ASSUME NEW S, NEW s \in Seq(S), NEW t \in Seq(S), NEW x \in S
    PROVE  /\ s \o Append(t, x) = Append(s \o t, x)
           /\ s \o t \in Seq(S) /\ Append(t, x) \in Seq(S)
  OBVIOUS

\* s is a first part of t.
Precedes(s, t) == Len(s) <= Len(t) /\ \A i \in 1 .. Len(s) : s[i] = t[i]

LEMMA PrecedesOn ==
    ASSUME NEW S, NEW s \in Seq(S), NEW t, Precedes(s, t), NEW x \in S,
           Len(s) + 1 <= Len(t), t[Len(s) + 1] = x
    PROVE  Precedes(Append(s, x), t)
  <1>1. Appends(S, s, x, Append(s, x), Len(s))
    BY Appended
  <1>A. PICK n \in Nat : n = Len(s)
    OBVIOUS
  <1>B. PICK z : z = Append(s, x)
    OBVIOUS
  <1>2. n = Len(s) /\ z = Append(s, x)
    BY <1>A, <1>B
  <1>3. Len(z) = n + 1 /\ z[n + 1] = x /\ \A i \in 1 .. n : z[i] = s[i]
    BY <1>1, <1>2 DEF Appends
  <1>4. \A i \in 1 .. n : s[i] = t[i]
    BY <1>2 DEF Precedes
  <1>5. \A i \in 1 .. n + 1 : z[i] = t[i]
    <2> SUFFICES ASSUME NEW i \in 1 .. n + 1 PROVE z[i] = t[i]
      OBVIOUS
    <2>1. i \in 1 .. n \/ i = n + 1
      OBVIOUS
    <2> QED
      BY <1>2, <1>3, <1>4, <2>1
  <1> QED
    BY <1>2, <1>3, <1>5 DEF Precedes

\* c[i] is what follows the first i packets on the wire.
Pieces(c, passed) ==
    /\ c \in [0 .. Len(passed) -> Seq(Byte8)] /\ c[Len(passed)] = <<>>
    /\ \A i \in 1 .. Len(passed) : c[i - 1] = OnTheWire(passed[i]) \o c[i]

Along(st, seen0, passed, W, c) ==
    /\ Precedes(seen0 \o st.seen, passed)
    /\ st.is # "failed" => Remaining(st) \o W = c[Len(seen0 \o st.seen)]

Proceeds(st, N, W, seen0, out0, passed, c, clean) ==
    /\ Stands(st, N)
    /\ st.is # "failed" => AllAnswered(seen0 \o st.seen, out0 \o st.out)
    /\ clean /\ ~st.spoilt => Along(st, seen0, passed, W, c)

LEMMA RemainsIs ==
    ASSUME NEW b \in Seq(Byte8), NEW k \in 0 .. Len(b), NEW st, st.buf = b, st.cursor = k
    PROVE  MqttTakes(b, k, Len(b) - k, Remaining(st))
  <1>A. PICK l \in Nat : l = Len(b)
    OBVIOUS
  <1>B. k \in Nat /\ k <= l
    BY <1>A
  <1>E. PICK m \in Nat : m = l - k
    BY <1>B
  <1>1. m = Len(b) - k /\ k + m = Len(b)
    BY <1>A, <1>B, <1>E
  <1>2. MqttTakes(b, k, m, SubSeq(b, k + 1, k + m))
    BY <1>1, TakenOff
  <1>3. Remaining(st) = SubSeq(b, k + 1, Len(b))
    BY DEF Remaining
  <1> QED
    BY <1>1, <1>2, <1>3

LEMMA RemainsOf ==
    ASSUME NEW b \in Seq(Byte8), NEW k \in 0 .. Len(b), NEW size \in Nat,
           k + size <= Len(b), NEW rest, rest = SubSeq(b, k + 1, Len(b))
    PROVE  SubSeq(b, k + size + 1, Len(b)) = SubSeq(rest, size + 1, Len(rest))
  <1>A. PICK l \in Nat : l = Len(b)
    OBVIOUS
  <1>B. k \in Nat /\ k <= l /\ k + size <= l
    BY <1>A
  <1>E. PICK m \in Nat : m = l - k
    BY <1>B
  <1>1. m = Len(b) - k /\ k + m = Len(b) /\ size <= m
    BY <1>A, <1>B, <1>E
  <1>2. MqttTakes(b, k, m, SubSeq(b, k + 1, k + m))
    BY <1>1, TakenOff
  <1>3. rest \in Seq(Byte8) /\ Len(rest) = m /\ \A i \in 1 .. m : rest[i] = b[k + i]
    BY <1>1, <1>2 DEF MqttTakes
  <1>G. m - size \in Nat
    BY <1>B, <1>E
  <1>C. PICK h \in Nat : h = m - size
    BY <1>G
  <1>D. PICK j \in Nat : j = k + size
    OBVIOUS
  <1>F. size + h = m /\ j + h = l
    BY <1>B, <1>C, <1>D, <1>E
  <1>4. h = m - size /\ size + h = m /\ j = k + size /\ j + h = Len(b)
    BY <1>A, <1>C, <1>D, <1>F
  <1>5. MqttTakes(rest, size, h, SubSeq(rest, size + 1, size + h))
    <2>1. rest \in Seq(Byte8) /\ size \in Nat /\ h \in Nat /\ size + h <= Len(rest)
      BY <1>3, <1>F
    <2> QED
      BY <2>1, TakenOff
  <1>6. MqttTakes(b, j, h, SubSeq(b, j + 1, j + h))
    BY <1>4, TakenOff
  <1>7. PICK x, y : x = SubSeq(rest, size + 1, size + h) /\ y = SubSeq(b, j + 1, j + h)
    OBVIOUS
  <1>8. x \in Seq(Byte8) /\ y \in Seq(Byte8) /\ Len(x) = h /\ Len(y) = h
        /\ \A i \in 1 .. h : x[i] = rest[size + i] /\ y[i] = b[j + i]
    BY <1>5, <1>6, <1>7 DEF MqttTakes
  <1>9. \A i \in 1 .. h : x[i] = y[i]
    <2> SUFFICES ASSUME NEW i \in 1 .. h PROVE x[i] = y[i]
      OBVIOUS
    <2>1. size + i \in 1 .. m /\ k + (size + i) = j + i
      BY <1>4
    <2>2. rest[size + i] = b[k + (size + i)]
      BY <1>3, <2>1
    <2> QED
      BY <1>8, <2>1, <2>2
  <1>10. x = y
    BY <1>4, <1>8, <1>9, SameSeq
  <1> QED
    BY <1>3, <1>4, <1>7, <1>10

LEMMA TailIs ==
    ASSUME NEW rest \in Seq(Byte8), Len(rest) >= 2
    PROVE  Tail(rest) \in Seq(Byte8)
  <1>1. rest # <<>>
    OBVIOUS
  <1> QED
    BY <1>1

\* The packet a turn finds is a packet, whatever the bytes are.
LEMMA FoundIs ==
    ASSUME NEW rest \in Seq(Byte8), Len(rest) >= 2, NEW r, r = ReadLength(Tail(rest)),
           r.bytes # -2, r.bytes # -1, NEW size, size = 1 + r.bytes + r.len,
           size <= Len(rest)
    PROVE  /\ [fh |-> rest[1], body |-> SubSeq(rest, size - r.len + 1, size)] \in AnyPacket
           /\ size \in Nat /\ size >= 2
  <1>1. PICK s \in Seq(Byte8) : s = Tail(rest)
    BY TailIs
  <1>2. r.bytes \in {1, 2, 3} /\ r.len \in Nat
    BY <1>1, ReadTypes
  <1>3. PICK m \in Nat : m = r.len
    BY <1>2
  <1>4. PICK k \in Nat : k = 1 + r.bytes
    BY <1>2
  <1>A. size = k + m
    BY <1>2, <1>3, <1>4
  <1>B. size - r.len + 1 = k + 1 /\ k + m <= Len(rest)
    BY <1>A, <1>3
  <1>C. k >= 2
    BY <1>2, <1>4
  <1>5. size = k + m /\ size - r.len + 1 = k + 1 /\ k + m <= Len(rest) /\ k >= 2
    BY <1>A, <1>B, <1>C
  <1>6. MqttTakes(rest, k, m, SubSeq(rest, k + 1, k + m))
    BY <1>5, TakenOff
  <1>7. SubSeq(rest, size - r.len + 1, size) \in Seq(Byte8)
    BY <1>5, <1>6 DEF MqttTakes
  <1>8. rest[1] \in Byte8
    OBVIOUS
  <1>9. size \in Nat /\ size >= 2
    BY <1>5
  <1> QED
    BY <1>7, <1>8, <1>9 DEF AnyPacket

LEMMA TurnGoes ==
    ASSUME NEW n \in {3, 4}, NEW N \in Nat, NEW W \in Seq(Byte8), NEW st,
           NEW seen0 \in Seq(AnyPacket), NEW out0 \in Seq(OutEntry),
           NEW passed \in Seq(ShortPacket), NEW c, NEW clean \in BOOLEAN,
           clean => Pieces(c, passed), Proceeds(st, N, W, seen0, out0, passed, c, clean)
    PROVE  Proceeds(Turn(st, n), N, W, seen0, out0, passed, c, clean)
  <1>1. PICK b, k, s, o, f, l, d :
            /\ b = st.buf /\ k = st.cursor /\ s = st.seen /\ o = st.out /\ f = st.spoilt
            /\ l = st.is /\ d = st.handed
    OBVIOUS
  <1>2. /\ st = State(b, k, s, o, f, l, d) /\ b \in Seq(Byte8) /\ Len(b) = N /\ k \in 0 .. N
        /\ s \in Seq(AnyPacket) /\ o \in Seq(OutEntry) /\ f \in BOOLEAN
    BY <1>1 DEF Proceeds, Stands
  <1>3. PICK rest : rest = Remaining(st)
    OBVIOUS
  <1>4. MqttTakes(b, k, Len(b) - k, Remaining(st))
    BY <1>1, <1>2, RemainsIs
  <1>5. rest \in Seq(Byte8) /\ Len(rest) = N - k
    BY <1>2, <1>3, <1>4 DEF MqttTakes
  <1>6. PICK r : r = ReadLength(Tail(rest))
    OBVIOUS
  <1>7. PICK size : size = 1 + r.bytes + r.len
    OBVIOUS
  <1>8. PICK p : p = [fh |-> rest[1], body |-> SubSeq(rest, size - r.len + 1, size)]
    OBVIOUS
  <1>9. Turn(st, n) =
          IF l # "looping" THEN st
          ELSE IF Len(rest) < 2 THEN [st EXCEPT !.is = "done"]
          ELSE IF r.bytes = -2 THEN [st EXCEPT !.is = "failed"]
          ELSE IF r.bytes = -1 \/ size > Len(rest) THEN [st EXCEPT !.is = "done"]
          ELSE TakePacket(st, p, k + size, n)
    BY <1>1, <1>3, <1>6, <1>7, <1>8, Zenon DEF Turn
  <1>10. CASE l # "looping"
    <2>1. Turn(st, n) = st
      BY <1>9, <1>10, Zenon
    <2> QED
      BY <2>1
  <1>11. ASSUME NEW m \in {"done", "failed"}, l = "looping",
                Turn(st, n) = [st EXCEPT !.is = m]
         PROVE  Proceeds(Turn(st, n), N, W, seen0, out0, passed, c, clean)
    <2>1. PICK u : u = Turn(st, n) /\ u = State(b, k, s, o, f, m, d)
      <3>1. [State(b, k, s, o, f, l, d) EXCEPT !.is = m] = State(b, k, s, o, f, m, d)
        BY DEF State
      <3> QED
        BY <1>2, <1>11, <3>1
    <2>2. /\ u.buf = b /\ u.cursor = k /\ u.seen = s /\ u.out = o /\ u.spoilt = f
          /\ u.is = m /\ u.handed = d
      BY <2>1 DEF State
    <2>3. Remaining(u) = Remaining(st)
      BY <1>1, <2>2, Zenon DEF Remaining
    <2>4. Stands(u, N)
      BY <1>2, <2>1, <2>2 DEF Stands
    <2>5. AllAnswered(seen0 \o u.seen, out0 \o u.out)
      <3>1. AllAnswered(seen0 \o st.seen, out0 \o st.out)
        BY <1>1, <1>11 DEF Proceeds
      <3> QED
        BY <1>1, <2>2, <3>1, Zenon
    <2>6. clean /\ ~u.spoilt => Along(u, seen0, passed, W, c)
      <3> SUFFICES ASSUME clean, ~u.spoilt PROVE Along(u, seen0, passed, W, c)
        OBVIOUS
      <3>1. Along(st, seen0, passed, W, c)
        <4>1. ~st.spoilt
          BY <1>1, <2>2, Zenon
        <4> QED
          BY <4>1, Zenon DEF Proceeds
      <3>2. Precedes(seen0 \o st.seen, passed) /\ Remaining(st) \o W = c[Len(seen0 \o st.seen)]
        BY <1>1, <1>11, <3>1 DEF Along
      <3>3. st.seen = u.seen
        BY <1>1, <2>2, Zenon
      <3>4. Precedes(seen0 \o u.seen, passed) /\ Remaining(u) \o W = c[Len(seen0 \o u.seen)]
        BY <2>3, <3>2, <3>3, Zenon
      <3> QED
        BY <3>4, Zenon DEF Along
    <2> QED
      BY <2>1, <2>4, <2>5, <2>6, Zenon DEF Proceeds
  <1>12. CASE /\ l = "looping" /\ Len(rest) >= 2 /\ r.bytes # -2 /\ r.bytes # -1
              /\ size <= Len(rest)
    <2>1. p \in AnyPacket /\ size \in Nat /\ size >= 2
      BY <1>5, <1>6, <1>7, <1>8, <1>12, FoundIs
    <2>2. PICK u : u = TakePacket(st, p, k + size, n)
      OBVIOUS
    <2>3. Turn(st, n) = u
      <3>1. ~(Len(rest) < 2) /\ ~(size > Len(rest))
        BY <1>5, <1>12, <2>1
      <3> QED
        BY <1>9, <1>12, <2>2, <3>1, Zenon
    <2>4. PICK cursor \in Nat : cursor = k + size /\ cursor \in 0 .. N
      <3>1. PICK x \in Nat : x = k
        BY <1>2
      <3>2. size <= N - x
        BY <1>5, <1>12, <3>1
      <3>3. x + size \in Nat /\ x + size <= N
        BY <2>1, <3>2
      <3> QED
        BY <3>1, <3>3
    <2>5. Steps(b, k, s, o, f, l, u, p, cursor, Len(b))
      <3>1. l # "failed"
        BY <1>12
      <3>2. Steps(b, k, s, o, f, l, TakePacket(st, p, cursor, n), p, cursor, Len(b))
        BY <1>2, <2>1, <3>1, TakeIs
      <3> QED
        BY <2>2, <2>4, <3>2, Zenon
    <2>6. PICK e, j, q, g, m, v : Step1(b, k, s, o, f, l, u, p, cursor, Len(b), e, j, q, g, m, v)
      BY <2>5, Zenon DEF Steps
    <2>7. PICK t : t = Append(s, p)
      OBVIOUS
    <2>8. /\ u = State(e, j, t, q, g, m, v) /\ e \in Seq(Byte8) /\ Len(e) = N
          /\ j \in {k, cursor} /\ g \in BOOLEAN
          /\ m # "failed" => m = l /\ j = cursor
      BY <1>2, <2>6, <2>7 DEF Step1
    <2>9. ~g => ~f /\ SameBehind(e, b, cursor)
      BY <2>6 DEF Step1
    <2>10. /\ u.buf = e /\ u.cursor = j /\ u.seen = t /\ u.out = q /\ u.spoilt = g
           /\ u.is = m /\ u.handed = v
      BY <2>8 DEF State
    <2>11. t \in Seq(AnyPacket)
      BY <1>2, <2>1, <2>7
    <2>12. q \in Seq(OutEntry)
      <3>1. ASSUME NEW w \in OutEntry PROVE Append(o, w) \in Seq(OutEntry)
        BY <1>2
      <3>2. q = o \/ \E w \in OutEntry : q = Append(o, w)
        BY <2>6 DEF Step1
      <3> QED
        BY <1>2, <3>1, <3>2
    <2>13. Stands(u, N)
      BY <1>2, <2>4, <2>8, <2>10, <2>11, <2>12 DEF Stands
    <2>14. PICK seen \in Seq(AnyPacket) : seen = seen0 \o s
      <3>1. seen0 \o s \in Seq(AnyPacket)
        BY <1>2
      <3> QED
        BY <3>1
    <2>15. seen0 \o t = Append(seen, p)
      BY <1>2, <2>1, <2>7, <2>14, JoinAppend
    <2>16. PICK out \in Seq(OutEntry) : out = out0 \o o
      <3>1. out0 \o o \in Seq(OutEntry)
        BY <1>2
      <3> QED
        BY <3>1
    <2>17. ASSUME NEW w \in OutEntry, q = Append(o, w) PROVE out0 \o q = Append(out, w)
      BY <1>2, <2>16, <2>17, JoinAppend
    <2>18. u.is # "failed" => AllAnswered(seen0 \o u.seen, out0 \o u.out)
      <3> SUFFICES ASSUME m # "failed" PROVE AllAnswered(seen0 \o t, out0 \o q)
        BY <2>10, Zenon
      <3>1. AllAnswered(seen, out)
        <4>1. AllAnswered(seen0 \o st.seen, out0 \o st.out)
          BY <1>1, <1>12 DEF Proceeds
        <4> QED
          BY <1>1, <2>14, <2>16, <4>1, Zenon
      <3>2. CASE q = o /\ AnswerTo(p) = <<>>
        <4>1. AllAnswered(Append(seen, p), out)
          BY <2>1, <3>1, <3>2, NoneDue
        <4> QED
          BY <2>15, <2>16, <3>2, <4>1, Zenon
      <3>3. CASE \E w \in OutEntry : /\ q = Append(o, w) /\ w.answer = TRUE
                                  /\ w.written = Len(w.bytes)
                                  /\ AnswerTo(p) = <<w.ask>>
        <4>1. PICK w \in OutEntry : /\ q = Append(o, w) /\ w.answer = TRUE
                                 /\ w.written = Len(w.bytes)
                                 /\ AnswerTo(p) = <<w.ask>>
          BY <3>3
        <4>2. AllAnswered(Append(seen, p), Append(out, w))
          BY <2>1, <3>1, <4>1, Given
        <4>3. out0 \o q = Append(out, w)
          BY <2>17, <4>1
        <4> QED
          BY <2>15, <4>2, <4>3, Zenon
      <3> QED
        BY <2>6, <3>2, <3>3 DEF Step1
    <2>19. clean /\ ~u.spoilt => Along(u, seen0, passed, W, c)
      <3> SUFFICES ASSUME clean, ~g PROVE Along(u, seen0, passed, W, c)
        BY <2>10, Zenon
      <3>1. Pieces(c, passed)
        OBVIOUS
      <3>2. Along(st, seen0, passed, W, c)
        <4>1. ~st.spoilt
          BY <1>1, <2>9, Zenon
        <4> QED
          BY <4>1, Zenon DEF Proceeds
      <3>3. Precedes(seen, passed) /\ rest \o W = c[Len(seen)]
        <4>1. Precedes(seen0 \o st.seen, passed) /\ Remaining(st) \o W = c[Len(seen0 \o st.seen)]
          BY <1>1, <1>12, <3>2 DEF Along
        <4> QED
          BY <1>1, <1>3, <2>14, <4>1, Zenon
      <3>4. PICK h \in Nat : h = Len(seen)
        OBVIOUS
      <3>5. PICK M \in Nat : M = Len(passed)
        OBVIOUS
      <3>6. h <= M
        BY <3>3, <3>4, <3>5 DEF Precedes
      <3>7. h + 1 <= M
        <4>1. rest \o W # <<>>
          BY <1>5, <1>12
        <4>2. c[M] = <<>>
          BY <3>1, <3>5 DEF Pieces
        <4>3. h # M
          BY <3>3, <3>4, <4>1, <4>2, Zenon
        <4> QED
          BY <3>6, <4>3
      <3>8. PICK Y \in Seq(Byte8) : Y = c[h + 1]
        <4>1. h + 1 \in 0 .. Len(passed)
          BY <3>5, <3>7
        <4> QED
          BY <3>1, <4>1 DEF Pieces
      <3>9. PICK x \in ShortPacket : x = passed[h + 1]
        <4>1. h + 1 \in 1 .. Len(passed)
          BY <3>5, <3>7
        <4> QED
          BY <4>1
      <3>10. rest \o W = OnTheWire(x) \o Y
        <4>1. h + 1 \in 1 .. Len(passed) /\ (h + 1) - 1 = h
          BY <3>5, <3>7
        <4>2. c[(h + 1) - 1] = OnTheWire(passed[h + 1]) \o c[h + 1]
          BY <3>1, <4>1 DEF Pieces
        <4> QED
          BY <3>3, <3>4, <3>8, <3>9, <4>1, <4>2, Zenon
      <3>11. /\ p = x
             /\ SubSeq(rest, size + 1, Len(rest)) \o W = Y
        <4>1. ~(r.bytes = -1 \/ size > Len(rest))
          BY <1>5, <1>12, <2>1
        <4>2. Finds(rest, W, Y, x, r, size)
          BY <1>5, <1>6, <1>7, <1>12, <3>10, <4>1, TakenIs
        <4> QED
          BY <1>8, <4>2, Zenon DEF Finds
      <3>12. Precedes(Append(seen, p), passed)
        <4>1. p \in AnyPacket /\ Len(seen) + 1 <= Len(passed) /\ passed[Len(seen) + 1] = p
          BY <2>1, <3>4, <3>5, <3>7, <3>9, <3>11
        <4> QED
          BY <3>3, <4>1, PrecedesOn
      <3>13. ASSUME m # "failed" PROVE Remaining(u) \o W = c[Len(Append(seen, p))]
        <4>1. j = cursor /\ SameBehind(e, b, cursor)
          BY <2>8, <2>9, <3>13
        <4>2. Remaining(u) = SubSeq(b, cursor + 1, Len(b))
          BY <2>10, <4>1, Zenon DEF Remaining, SameBehind
        <4>3. SubSeq(b, k + size + 1, Len(b)) = SubSeq(rest, size + 1, Len(rest))
          <5>1. rest = SubSeq(b, k + 1, Len(b))
            BY <1>1, <1>3, Zenon DEF Remaining
          <5>2. k \in 0 .. Len(b) /\ k + size <= Len(b)
            BY <1>2, <2>4
          <5> QED
            BY <1>2, <2>1, <5>1, <5>2, RemainsOf
        <4>4. Remaining(u) = SubSeq(rest, size + 1, Len(rest))
          BY <2>4, <4>2, <4>3, Zenon
        <4>5. Len(Append(seen, p)) = h + 1
          <5>1. Appends(AnyPacket, seen, p, Append(seen, p), Len(seen))
            BY <2>1, Appended
          <5> QED
            BY <3>4, <5>1 DEF Appends
        <4> QED
          BY <3>8, <3>11, <4>4, <4>5, Zenon
      <3>14. seen0 \o u.seen = Append(seen, p)
        BY <2>10, <2>15, Zenon
      <3> QED
        BY <2>10, <3>12, <3>13, <3>14, Zenon DEF Along
    <2> QED
      BY <2>3, <2>13, <2>18, <2>19, Zenon DEF Proceeds
  <1>13. CASE l = "looping" /\ Len(rest) < 2
    <2>1. Turn(st, n) = [st EXCEPT !.is = "done"]
      BY <1>9, <1>13, Zenon
    <2> QED
      BY <1>11, <1>13, <2>1
  <1>14. CASE l = "looping" /\ ~(Len(rest) < 2) /\ r.bytes = -2
    <2>1. Turn(st, n) = [st EXCEPT !.is = "failed"]
      BY <1>9, <1>14, Zenon
    <2> QED
      BY <1>11, <1>14, <2>1
  <1>15. CASE /\ l = "looping" /\ ~(Len(rest) < 2) /\ r.bytes # -2
              /\ (r.bytes = -1 \/ size > Len(rest))
    <2>1. Turn(st, n) = [st EXCEPT !.is = "done"]
      BY <1>9, <1>15, Zenon
    <2> QED
      BY <1>11, <1>15, <2>1
  <1>16. ~(Len(rest) < 2) => Len(rest) >= 2
    BY <1>5
  <1>17. ASSUME ~(Len(rest) < 2), r.bytes # -1, r.bytes # -2, ~(size > Len(rest))
         PROVE  size <= Len(rest)
    <2>1. PICK x \in Seq(Byte8) : x = Tail(rest)
      <3>1. Len(rest) >= 2
        BY <1>5, <1>17
      <3> QED
        BY <1>5, <3>1, TailIs
    <2>2. r.bytes \in {1, 2, 3} /\ r.len \in Nat
      BY <1>6, <1>17, <2>1, ReadTypes
    <2>3. size \in Int
      BY <1>7, <2>2
    <2> QED
      BY <1>5, <1>17, <2>3
  <1> QED
    BY <1>10, <1>12, <1>13, <1>14, <1>15, <1>16, <1>17, Zenon
=============================================================================
