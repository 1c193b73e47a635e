---------------------------- MODULE FtpFota_proof ----------------------------
(***************************************************************************)
(* Proofs that only the whole file is handed to Ql_FOTA_Finish, that every *)
(* registered callback has a result to come (DueInv), and of the types.    *)
(*                                                                         *)
(* ImageWhole says nothing of the states before the file is accepted.  The *)
(* strengthening FtpInv follows an upgrade through both tasks: what of it  *)
(* can be outstanding at each position of Ql_FOTA_StartUpgrade (CallInv),  *)
(* which result means a complete file (ResultInv), what the image region   *)
(* holds (RegionInv) and how far the copy has come (CopyInv).              *)
(***************************************************************************)
EXTENDS FtpFota, SequenceTheorems, TLAPS

FtpTyping ==
    /\ urcs \in Seq({"ok", "error"})
    /\ file \in Int /\ filesize \in Int /\ offset \in Int
    /\ going \in BOOLEAN /\ success \in BOOLEAN /\ finished \in BOOLEAN
    /\ early \in BOOLEAN /\ FtpGet_IND_CB \in BOOLEAN

Prefix(n) == [i \in 1..n |-> i]

\* While the call runs, the last upgrade is over, or the modem has just begun.
CallInv ==
    /\ pc \in {"open", "get"} => Over
    /\ pc = "register" => rp = "idle" /\ ~FtpGet_IND_CB
    /\ rp # "idle" => urcs = <<>> /\ ~going

\* There is one result at most, of a download that is no longer going.
ResultInv ==
    /\ urcs # <<>> => ~going /\ Tail(urcs) = <<>>
    /\ urcs # <<>> /\ Head(urcs) = "ok" => file = FileLen
    /\ rp = "close" /\ success => file = FileLen
    /\ rp \in {"prepare", "write"} => file = FileLen

\* Until the copy begins the image region is empty.
RegionInv ==
    (\/ pc \in {"open", "get", "register"}
     \/ going
     \/ urcs # <<>>
     \/ rp \in {"close", "prepare"})
        => flash = <<>> /\ ~finished

CopyInv ==
    /\ rp = "write" => /\ offset \in 0..FileLen
                       /\ filesize \in {FileLen - offset, Huge - offset}
                       /\ filesize > 0
                       /\ flash = Prefix(offset)
                       /\ ~finished
    /\ rp = "finish" => flash = Whole
    /\ finished => flash = Whole

FtpInv ==
    /\ FtpTyping
    /\ ~early => CallInv /\ ResultInv /\ RegionInv /\ CopyInv

\* Appending the next n units to a prefix of the file gives a longer prefix.
LEMMA PrefixGrows ==
    ASSUME NEW m \in Nat, NEW n \in Nat
    PROVE  Prefix(m) \o [i \in 1..n |-> m + i] = Prefix(m + n)
  <1> DEFINE a == Prefix(m)
             b == [i \in 1..n |-> m + i]
  <1>1. a \in Seq(Nat) /\ Len(a) = m
    BY SMT DEF Prefix
  <1>2. b \in Seq(Nat) /\ Len(b) = n
    BY SMT
  <1>3. Prefix(m + n) \in Seq(Nat) /\ Len(Prefix(m + n)) = m + n
    BY SMT DEF Prefix
  <1>4. /\ a \o b \in Seq(Nat) /\ Len(a \o b) = m + n
        /\ \A i \in 1..(m + n) : (a \o b)[i] = IF i <= m THEN a[i] ELSE b[i - m]
    <2> HIDE DEF a, b
    <2>1. Len(a) + Len(b) = m + n
      BY <1>1, <1>2
    <2>2. /\ a \o b \in Seq(Nat) /\ Len(a \o b) = Len(a) + Len(b)
          /\ \A i \in 1..(Len(a) + Len(b)) :
                (a \o b)[i] = IF i <= Len(a) THEN a[i] ELSE b[i - Len(a)]
      BY <1>1, <1>2, ConcatProperties
    <2> QED
      BY <1>1, <1>2, <2>1, <2>2
  <1>5. \A i \in 1..(m + n) : (IF i <= m THEN a[i] ELSE b[i - m]) = i
    BY SMT DEF Prefix
  <1>6. \A i \in 1..(m + n) : Prefix(m + n)[i] = i
    BY SMT DEF Prefix
  <1> HIDE DEF a, b
  <1>7. \A i \in 1..Len(a \o b) : (a \o b)[i] = Prefix(m + n)[i]
    <2>1. SUFFICES ASSUME NEW i \in 1..(m + n)
                   PROVE  (a \o b)[i] = Prefix(m + n)[i]
      BY <1>4
    <2>2. (a \o b)[i] = i
      BY <1>4, <1>5
    <2> QED
      BY <1>6, <2>2
  <1>8. a \o b = Prefix(m + n)
    BY <1>3, <1>4, <1>7, SeqEqual
  <1> QED
    BY <1>8 DEF a, b

LEMMA FtpInit == Init => FtpInv
  <1> SUFFICES ASSUME Init PROVE FtpInv
    OBVIOUS
  <1>1. ~going /\ ~success /\ ~FtpGet_IND_CB /\ ~finished /\ ~early
    BY DEF Init
  <1>2. /\ pc = "idle" /\ rp = "idle" /\ urcs = <<>> /\ flash = <<>>
        /\ file = NoFile /\ filesize = 0 /\ offset = 0
    BY DEF Init
  <1>3. going \in BOOLEAN /\ success \in BOOLEAN /\ finished \in BOOLEAN
        /\ early \in BOOLEAN /\ FtpGet_IND_CB \in BOOLEAN
    BY DEF Init
  <1>4. urcs \in Seq({"ok", "error"}) /\ file \in Int
        /\ filesize \in Int /\ offset \in Int
    BY <1>2, SMT DEF NoFile
  <1>5. CallInv /\ ResultInv /\ RegionInv /\ CopyInv
    BY <1>1, <1>2 DEF CallInv, ResultInv, RegionInv, CopyInv, Over
  <1> QED
    BY <1>3, <1>4, <1>5 DEF FtpInv, FtpTyping

\* A connection that is closed with no download going produces no result.
LEMMA CloseIdle ==
    ASSUME FtpTyping, CloseLink
    PROVE  /\ going' \in BOOLEAN /\ urcs' \in Seq({"ok", "error"})
           /\ ~going => ~going' /\ urcs' = urcs
  <1>1. Append(urcs, "error") \in Seq({"ok", "error"})
    BY SMT DEF FtpTyping
  <1>2. CASE link'.ftp /\ link'.pdp
    BY <1>2 DEF FtpTyping, CloseLink
  <1>3. CASE ~(link'.ftp /\ link'.pdp)
    <2>1. going' = FALSE
          /\ urcs' \in IF going THEN {urcs, Append(urcs, "error")} ELSE {urcs}
      BY <1>3 DEF CloseLink
    <2> QED
      BY <1>1, <2>1 DEF FtpTyping
  <1> QED
    BY <1>2, <1>3

\* The steps of the application's task keep the invariant.
LEMMA FtpAppStep ==
    ASSUME FtpInv, StartRefused \/ StartUpgrade \/ AppStep
    PROVE  FtpInv'
  <1> USE FtpFotaAssumption
  <1> USE DEF FtpInv, FtpTyping, CallInv, ResultInv, RegionInv, CopyInv, Over,
              callVars, appVars, modemVars, copyVars
  <1>1. CASE StartRefused
    BY <1>1, SMT DEF StartRefused, MayStart
  <1>2. CASE StartUpgrade
    <2>1. /\ ~finished' /\ finished' \in BOOLEAN /\ flash' = <<>>
          /\ pc' = "open" /\ early' = (early \/ ~Over)
          /\ UNCHANGED <<rp, success, FtpGet_IND_CB, going, urcs, file,
                         filesize, offset>>
      BY <1>2 DEF StartUpgrade, MayStart
    <2>2. FtpTyping'
      BY <2>1
    <2>3. ~early' => Over'
      BY <2>1
    <2>4. ~early' => CallInv' /\ ResultInv' /\ RegionInv' /\ CopyInv'
      BY <2>1, <2>3
    <2> QED
      BY <2>2, <2>4
  <1>3. CASE OpenSucceeds
    BY <1>3, SMT DEF OpenSucceeds
  <1>4. CASE OpenFails
    BY <1>4, SMT DEF OpenFails
  <1>5. CASE GetAccepted
    BY <1>5, SMT DEF GetAccepted
  <1>6. CASE GetFails
    BY <1>6, CloseIdle, SMT DEF GetFails
  <1>7. CASE Register
    BY <1>7, SMT DEF Register
  <1> QED
    BY <1>1, <1>2, <1>3, <1>4, <1>5, <1>6, <1>7 DEF AppStep

\* The modem keeps the invariant.
LEMMA FtpModemStep ==
    ASSUME FtpInv, Download \/ DownloadEnds
    PROVE  FtpInv'
  <1> USE FtpFotaAssumption
  <1> USE DEF FtpInv, FtpTyping, CallInv, ResultInv, RegionInv, CopyInv, Over,
              callVars, appVars, modemVars, copyVars
  <1>1. CASE Download
    BY <1>1, SMT DEF Download
  <1>2. CASE DownloadEnds
    <2>1. /\ going /\ ~going' /\ going' \in BOOLEAN
          /\ \/ file = FileLen /\ urcs' = Append(urcs, "ok")
             \/ urcs' = Append(urcs, "error")
          /\ UNCHANGED <<pc, rp, success, FtpGet_IND_CB, file, filesize,
                         offset, flash, finished, early>>
      BY <1>2 DEF DownloadEnds
    <2>2. ~early => urcs = <<>>
      BY <2>1
    <2>3. urcs' \in Seq({"ok", "error"})
      BY <2>1, AppendProperties
    <2>4. FtpTyping'
      BY <2>1, <2>3
    <2>5. ~early => /\ urcs' # <<>> /\ Tail(urcs') = <<>>
                    /\ Head(urcs') = "ok" => file = FileLen
      <3>1. \A r : /\ Append(<<>>, r) # <<>> /\ Tail(Append(<<>>, r)) = <<>>
                   /\ Head(Append(<<>>, r)) = r
        BY SMT
      <3>2. "error" # "ok"
        OBVIOUS
      <3> QED
        BY <2>1, <2>2, <3>1, <3>2
    <2>6. ~early' => CallInv' /\ ResultInv' /\ RegionInv' /\ CopyInv'
      BY <2>1, <2>5
    <2> QED
      BY <2>4, <2>6
  <1> QED
    BY <1>1, <1>2

\* A block copied keeps the copy a prefix of the file.
LEMMA FtpCopy ==
    ASSUME FtpInv, CopyBlock, ~early
    PROVE  CopyInv'
  <1> USE FtpFotaAssumption
  <1>1. /\ offset \in 0..FileLen /\ filesize > 0 /\ file = FileLen
        /\ filesize \in {FileLen - offset, Huge - offset}
        /\ flash = Prefix(offset) /\ ~finished /\ filesize \in Int
    BY DEF FtpInv, FtpTyping, ResultInv, CopyInv, CopyBlock
  <1>2. PICK n \in 1..Min({filesize, BufLen, file - offset}) :
            /\ flash' = flash \o [i \in 1..n |-> offset + i]
            /\ offset' = offset + n
            /\ filesize' = filesize - n
    BY DEF CopyBlock, Left
  <1>3. n \in Nat \ {0} /\ n <= FileLen - offset
    <2> DEFINE S == {filesize, BufLen, file - offset}
    <2>1. \E x \in S : \A y \in S : x <= y
      BY <1>1, SMT DEF Huge
    <2>2. Min(S) \in S /\ \A y \in S : Min(S) <= y
      BY <2>1 DEF Min
    <2> HIDE DEF S
    <2>3. file - offset \in S /\ S \subseteq Int
      BY <1>1, SMT DEF S
    <2> QED
      BY <1>1, <1>2, <2>2, <2>3, SMT DEF S
  <1>4. flash' = Prefix(offset')
    <2>1. offset \in Nat /\ n \in Nat
      BY <1>1, <1>3, SMT
    <2> QED
      BY <1>1, <1>2, <2>1, PrefixGrows
  <1>9. FileLen \in Nat
    BY SMT
  <1>5. /\ offset' \in 0..FileLen /\ filesize' \in Int
        /\ filesize' \in {FileLen - offset', Huge - offset'}
        /\ filesize' >= 0
        /\ filesize' = 0 => offset' = FileLen
    <2>1. filesize >= n
      BY <1>1, <1>3, <1>9, SMT DEF Huge
    <2> QED
      BY <1>1, <1>2, <1>3, <1>9, <2>1, SMT DEF Huge
  <1>6. Prefix(FileLen) = Whole
    BY DEF Prefix, Whole
  <1>7. rp' = IF filesize' = 0 THEN "finish" ELSE "write"
    BY DEF CopyBlock
  <1>8. ~finished'
    BY <1>1 DEF CopyBlock
  <1> QED
    BY <1>4, <1>5, <1>6, <1>7, <1>8, SMT DEF CopyInv

\* The steps of the RIL task keep the invariant.
LEMMA FtpRilStep ==
    ASSUME FtpInv, RilStep
    PROVE  FtpInv'
  <1> USE FtpFotaAssumption
  <1> USE DEF FtpInv, FtpTyping, CallInv, ResultInv, RegionInv, CopyInv, Over,
              callVars, appVars, modemVars, copyVars
  <1>0. urcs # <<>> => /\ Tail(urcs) \in Seq({"ok", "error"})
                       /\ Head(urcs) \in {"ok", "error"}
    BY SMT
  <1>1. CASE ResultDropped
    BY <1>0, <1>1, SMT DEF ResultDropped
  <1>2. CASE Result
    BY <1>0, <1>2, SMT DEF Result
  <1>3. CASE CloseDownload
    BY <1>3, CloseIdle, SMT DEF CloseDownload
  <1>4. CASE PrepareFails
    BY <1>4, SMT DEF PrepareFails, GiveUp
  <1>5. CASE Prepare
    <2>1. FtpTyping'
      BY <1>5, SMT DEF Prepare, Huge
    <2>2. ~early => CopyInv'
      <3>1. Prefix(0) = <<>>
        BY SMT DEF Prefix
      <3> QED
        BY <1>5, <3>1, SMT DEF Prepare, Huge
    <2> QED
      BY <1>5, <2>1, <2>2, SMT DEF Prepare
  <1>6. CASE CopyBlock
    <2>1. ~early => CopyInv'
      BY <1>6, FtpCopy
    <2>2. FtpTyping'
      <3>1. PICK n \in 1..Min({filesize, BufLen, file - offset}) :
                offset' = offset + n /\ filesize' = filesize - n
        BY <1>6 DEF CopyBlock, Left
      <3>2. n \in Int
        BY <3>1, SMT
      <3> QED
        BY <1>6, <3>1, <3>2, SMT DEF CopyBlock
    <2> QED
      <3>1. /\ rp = "write" /\ rp' \in {"finish", "write"}
            /\ UNCHANGED <<pc, success, FtpGet_IND_CB, going, urcs, file,
                           early>>
        BY <1>6 DEF CopyBlock
      <3>2. ~early' => CallInv' /\ ResultInv' /\ RegionInv'
        BY <3>1
      <3> QED
        BY <2>1, <2>2, <3>1, <3>2
  <1>7. CASE CopyFails
    BY <1>7, SMT DEF CopyFails, GiveUp
  <1>8. CASE Finish
    <2>1. /\ rp = "finish" /\ rp' = "return"
          /\ \/ UNCHANGED <<file, finished>>
             \/ finished' = TRUE /\ file' = NoFile
          /\ UNCHANGED <<pc, success, FtpGet_IND_CB, going, urcs, filesize,
                         offset, flash, early>>
      BY <1>8 DEF Finish
    <2>2. NoFile \in Int
      BY SMT DEF NoFile
    <2>3. FtpTyping'
      BY <2>1, <2>2
    <2>4. ~early' => CallInv' /\ ResultInv' /\ RegionInv' /\ CopyInv'
      BY <2>1
    <2> QED
      BY <2>3, <2>4
  <1>9. CASE CallbackReturns
    <2>1. /\ rp = "return" /\ rp' = "idle"
          /\ ~FtpGet_IND_CB' /\ FtpGet_IND_CB' \in BOOLEAN
          /\ UNCHANGED <<pc, success, going, urcs, file, filesize, offset,
                         flash, finished, early>>
      BY <1>9 DEF CallbackReturns, AfterCallback
    <2>2. FtpTyping'
      BY <2>1
    <2>3. ~early' => CallInv' /\ ResultInv' /\ RegionInv' /\ CopyInv'
      BY <2>1
    <2> QED
      BY <2>2, <2>3
  <1> QED
    BY <1>1, <1>2, <1>3, <1>4, <1>5, <1>6, <1>7, <1>8, <1>9 DEF RilStep

\* FtpInv holds in every state.
THEOREM FtpInvariant == Spec => []FtpInv
  <1>1. FtpInv /\ [Next]_vars => FtpInv'
    <2>1. CASE UNCHANGED vars
      BY <2>1, SMT
      DEF vars, callVars, appVars, modemVars, copyVars, FtpInv, FtpTyping,
          CallInv, ResultInv, RegionInv, CopyInv, Over
    <2> QED
      BY <2>1, FtpAppStep, FtpModemStep, FtpRilStep DEF Next
  <1> QED
    BY <1>1, FtpInit, PTL DEF Spec

\* Whatever the reads, the sizes and the modem do, and however large the file
\* and the copy buffer: only the whole file is accepted as the new image.
THEOREM FtpImageWhole == Spec => []ImageWhole
  <1>1. FtpInv => ImageWhole
    BY DEF FtpInv, CopyInv, ImageWhole, FtpTyping
  <1> QED
    BY <1>1, FtpInvariant, PTL

-----------------------------------------------------------------------------
(* Every registered callback has a result to come.  From the moment the    *)
(* modem downloads, one of four things holds of the download: it is going, *)
(* its result is on the way or being processed, or it met no callback.     *)

DueInv ==
    ~early /\ (pc = "register" \/ FtpGet_IND_CB)
        => going \/ urcs # <<>> \/ rp # "idle" \/ dropped

LEMMA DueStep ==
    ASSUME FtpInv, DueInv, [Next]_vars
    PROVE  DueInv'
  <1> USE DEF DueInv, callVars, appVars, modemVars, copyVars
  <1>1. CASE StartRefused \/ StartUpgrade
    <2>1. /\ pc' # "register" /\ early' = (early \/ ~Over)
          /\ UNCHANGED <<FtpGet_IND_CB, going, urcs, rp, dropped>>
      BY <1>1 DEF StartRefused, StartUpgrade, MayStart
    <2> QED
      BY <2>1 DEF Over
  <1>2. CASE OpenSucceeds \/ OpenFails
    <2>1. /\ pc' # "register"
          /\ UNCHANGED <<FtpGet_IND_CB, going, urcs, rp, dropped, early>>
      BY <1>2 DEF OpenSucceeds, OpenFails
    <2> QED
      BY <2>1
  <1>3. CASE GetAccepted
    BY <1>3 DEF GetAccepted
  <1>4. CASE GetFails
    <2>1. pc = "get" /\ pc' = "idle" /\ UNCHANGED <<FtpGet_IND_CB, early>>
      BY <1>4 DEF GetFails
    <2>2. ~early => ~FtpGet_IND_CB
      BY <2>1 DEF FtpInv, CallInv, Over
    <2> QED
      BY <2>1, <2>2
  <1>5. CASE Register
    BY <1>5 DEF Register
  <1>6. CASE Download
    BY <1>6 DEF Download
  <1>7. CASE DownloadEnds
    <2>1. /\ urcs' # <<>>
      <3>1. urcs \in Seq({"ok", "error"})
        BY DEF FtpInv, FtpTyping
      <3>2. \A r : Append(urcs, r) # <<>>
        BY <3>1
      <3> QED
        BY <1>7, <3>2 DEF DownloadEnds
    <2> QED
      BY <1>7, <2>1 DEF DownloadEnds
  <1>8. CASE ResultDropped
    BY <1>8 DEF ResultDropped
  <1>9. CASE Result
    BY <1>9 DEF Result
  <1>10. CASE CloseDownload
    BY <1>10 DEF CloseDownload
  <1>11. CASE PrepareFails \/ Prepare \/ CopyBlock \/ CopyFails \/ Finish
    BY <1>11 DEF PrepareFails, Prepare, CopyBlock, CopyFails, Finish, GiveUp
  <1>12. CASE CallbackReturns
    <2>1. /\ rp = "return" /\ ~FtpGet_IND_CB' /\ UNCHANGED <<pc, early>>
      BY <1>12 DEF CallbackReturns, AfterCallback
    <2>2. ~early => pc # "register"
      BY <2>1 DEF FtpInv, CallInv
    <2> QED
      BY <2>1, <2>2
  <1>13. CASE UNCHANGED vars
    BY <1>13 DEF vars
  <1> QED
    BY <1>1, <1>2, <1>3, <1>4, <1>5, <1>6, <1>7, <1>8, <1>9, <1>10, <1>11, <1>12, <1>13
    DEF Next, AppStep, RilStep

\* A callback that is registered waits for a result of its own download, so
\* the upgrade neither waits for ever nor takes over the result of another one
\* (ril_ftp.c:261-266, ril_urc.c:467-482).
THEOREM FtpResultIsDue == Spec => []ResultIsDue
  <1>1. Init => DueInv
    BY DEF Init, DueInv
  <1>2. DueInv => ResultIsDue
    BY DEF DueInv, ResultIsDue
  <1> QED
    BY <1>1, <1>2, DueStep, FtpInvariant, PTL DEF Spec

-----------------------------------------------------------------------------
(* The type invariant.  The attempts stay in their range because the one   *)
(* that reaches the limit ends the call.                                   *)

TypeInv == TypeOK /\ (pc = "open" => attempts < MaxAttempts)

LEMMA Sizes ==
    /\ FileLen \in Nat /\ FileLen > 0 /\ BufLen \in Nat /\ BufLen > 0
    /\ MaxAttempts \in Nat /\ MaxAttempts > 0 /\ MaxStarts \in Nat
  BY FtpFotaAssumption

LEMMA TypeInvInit == Init => TypeInv
  <1> SUFFICES ASSUME Init PROVE TypeInv
    OBVIOUS
  <1>1. /\ attempts = 0 /\ starts = 0 /\ filesize = 0 /\ offset = 0
        /\ file = NoFile /\ pc = "idle" /\ flash = <<>> /\ urcs = <<>>
    BY DEF Init
  <1>2. /\ attempts \in 0..MaxAttempts /\ starts \in 0..MaxStarts
        /\ filesize \in 0..Huge /\ offset \in 0..FileLen
        /\ file \in {NoFile} \cup 0..FileLen
        /\ flash \in Seq(1..FileLen) /\ urcs \in Seq({"ok", "error"})
    BY <1>1, Sizes DEF Huge
  <1>3. /\ rp = "idle" /\ told = "none" /\ link \in [ftp : BOOLEAN, pdp : BOOLEAN]
        /\ success \in BOOLEAN /\ FtpGet_IND_CB \in BOOLEAN /\ going \in BOOLEAN
        /\ finished \in BOOLEAN /\ dropped \in BOOLEAN /\ early \in BOOLEAN
    BY DEF Init
  <1> QED
    BY <1>1, <1>2, <1>3 DEF TypeInv, TypeOK

\* What closing the connection leaves.
LEMMA CloseType ==
    ASSUME TypeOK, CloseLink
    PROVE  /\ link' \in [ftp : BOOLEAN, pdp : BOOLEAN]
           /\ going' \in BOOLEAN /\ urcs' \in Seq({"ok", "error"})
  <1>1. link' \in [ftp : BOOLEAN, pdp : BOOLEAN]
    <2>1. link.ftp \in BOOLEAN /\ link.pdp \in BOOLEAN
      BY DEF TypeOK
    <2>2. PICK f \in {FALSE, link.ftp}, p \in {FALSE, link.pdp} :
             link' = [ftp |-> f, pdp |-> p]
      BY DEF CloseLink
    <2>3. f \in BOOLEAN /\ p \in BOOLEAN
      BY <2>1, <2>2
    <2> QED
      BY <2>2, <2>3
  <1>2. Append(urcs, "error") \in Seq({"ok", "error"})
    BY DEF TypeOK
  <1>3. CASE link'.ftp /\ link'.pdp
    BY <1>1, <1>3 DEF TypeOK, CloseLink
  <1>4. CASE ~(link'.ftp /\ link'.pdp)
    <2>1. going' = FALSE
          /\ urcs' \in IF going THEN {urcs, Append(urcs, "error")} ELSE {urcs}
      BY <1>4 DEF CloseLink
    <2> QED
      BY <1>1, <1>2, <2>1 DEF TypeOK
  <1> QED
    BY <1>3, <1>4

\* A block is part of the file, and what is left of it is not negative.
LEMMA CopyType ==
    ASSUME TypeOK, CopyBlock
    PROVE  /\ filesize' \in 0..Huge /\ offset' \in 0..FileLen
           /\ flash' \in Seq(1..FileLen)
  <1>1. PICK n \in 1..Min({filesize, BufLen, file - offset}) :
            /\ flash' = flash \o [i \in 1..n |-> offset + i]
            /\ offset' = offset + n
            /\ filesize' = filesize - n
    BY DEF CopyBlock, Left
  <1>2. /\ filesize \in 0..Huge /\ offset \in 0..FileLen /\ file \in -1..FileLen
        /\ filesize \in Int /\ offset \in Int /\ file \in Int /\ Huge \in Int
    BY Sizes DEF TypeOK, NoFile, Huge
  <1>3. n \in Nat /\ n <= filesize /\ n <= file - offset
    <2> DEFINE S == {filesize, BufLen, file - offset}
    <2>1. \E x \in S : \A y \in S : x <= y
      BY <1>2, Sizes
    <2>2. Min(S) \in S /\ \A y \in S : Min(S) <= y
      BY <2>1 DEF Min
    <2>3. Min(S) \in Int /\ Min(S) <= filesize /\ Min(S) <= file - offset
      BY <1>2, <2>2, Sizes
    <2>4. n \in 1..Min(S)
      BY <1>1
    <2> HIDE DEF S
    <2> QED
      BY <1>2, <2>3, <2>4
  <1>4. filesize' \in 0..Huge /\ offset' \in 0..FileLen
    BY <1>1, <1>2, <1>3, Sizes
  <1>5. flash' \in Seq(1..FileLen)
    <2> DEFINE b == [i \in 1..n |-> offset + i]
    <2>1. \A i \in 1..n : offset + i \in 1..FileLen
      BY <1>2, <1>3, Sizes
    <2>2. b \in [1..n -> 1..FileLen]
      BY <2>1
    <2>3. b \in Seq(1..FileLen)
      BY <1>3, <2>2
    <2> HIDE DEF b
    <2>4. flash \o b \in Seq(1..FileLen)
      BY <2>3, ConcatProperties DEF TypeOK
    <2> QED
      BY <1>1, <2>4 DEF b
  <1> QED
    BY <1>4, <1>5

LEMMA TypeInvStep ==
    ASSUME TypeInv, [Next]_vars
    PROVE  TypeInv'
  <1> USE Sizes DEF TypeInv, TypeOK, callVars, appVars, modemVars, copyVars
  <1>0. /\ urcs \in Seq({"ok", "error"})
        /\ \A r \in {"ok", "error"} : Append(urcs, r) \in Seq({"ok", "error"})
        /\ urcs # <<>> => Tail(urcs) \in Seq({"ok", "error"})
    OBVIOUS
  <1>1. CASE StartRefused
    BY <1>1 DEF StartRefused, MayStart
  <1>2. CASE StartUpgrade
    <2>1. flash' \in Seq(1..FileLen)
      BY <1>2 DEF StartUpgrade
    <2>2. /\ starts' \in 0..MaxStarts /\ early' \in BOOLEAN
          /\ told' = "running" /\ pc' = "open" /\ attempts' = 0
          /\ finished' = FALSE
      BY <1>2 DEF StartUpgrade, MayStart
    <2>3. UNCHANGED <<rp, success, FtpGet_IND_CB, modemVars, file, filesize,
                      offset, dropped>>
      BY <1>2 DEF StartUpgrade
    <2> QED
      <3>1. pc' = "open" => attempts' < MaxAttempts
        BY <2>2
      <3>2. /\ pc' \in {"idle", "open", "get", "register"}
            /\ attempts' \in 0..MaxAttempts
        BY <2>2
      <3> QED
        BY <2>1, <2>2, <2>3, <3>1, <3>2, Zenon
  <1>3. CASE OpenSucceeds
    BY <1>3 DEF OpenSucceeds
  <1>4. CASE OpenFails
    <2>1. /\ attempts' \in 0..MaxAttempts
          /\ attempts' # MaxAttempts => attempts' < MaxAttempts
      BY <1>4 DEF OpenFails, NextAttempt
    <2>2. link' \in [ftp : BOOLEAN, pdp : BOOLEAN]
      BY <1>4 DEF OpenFails
    <2> QED
      BY <1>4, <2>1, <2>2 DEF OpenFails
  <1>5. CASE GetAccepted
    BY <1>5 DEF GetAccepted
  <1>6. CASE GetFails
    BY <1>6, CloseType DEF GetFails
  <1>7. CASE Register
    BY <1>7 DEF Register
  <1>8. CASE Download
    <2>1. file' \in {NoFile} \cup 0..FileLen
      BY <1>8 DEF Download, NoFile
    <2> QED
      BY <1>8, <2>1 DEF Download
  <1>9. CASE DownloadEnds
    <2>1. urcs' \in Seq({"ok", "error"}) /\ going' \in BOOLEAN
      BY <1>0, <1>9 DEF DownloadEnds
    <2>2. UNCHANGED <<callVars, rp, success, FtpGet_IND_CB, appVars, link, file,
                      copyVars, dropped>>
      BY <1>9 DEF DownloadEnds
    <2> QED
      BY <2>1, <2>2
  <1>10. CASE ResultDropped
    BY <1>0, <1>10 DEF ResultDropped
  <1>11. CASE Result
    BY <1>0, <1>11 DEF Result
  <1>12. CASE CloseDownload
    BY <1>12, CloseType DEF CloseDownload
  <1>13. CASE PrepareFails \/ CopyFails
    BY <1>13 DEF PrepareFails, CopyFails, GiveUp
  <1>14. CASE Prepare
    <2>1. filesize' \in 0..Huge /\ offset' \in 0..FileLen
      BY <1>14 DEF Prepare, Huge, NoFile
    <2> QED
      BY <1>14, <2>1 DEF Prepare
  <1>15. CASE CopyBlock
    <2>1. /\ UNCHANGED <<pc, attempts, success, FtpGet_IND_CB, told, starts, early,
                         link, going, urcs, file, finished, dropped>>
          /\ rp' \in {"finish", "write"}
      BY <1>15 DEF CopyBlock
    <2> QED
      BY <1>15, <2>1, CopyType
  <1>16. CASE Finish
    <2>1. /\ rp' = "return" /\ file' \in {NoFile} \cup 0..FileLen
          /\ finished' \in BOOLEAN
          /\ told' \in {"reboot", "rebooted", "failed"}
      BY <1>16 DEF Finish
    <2>2. UNCHANGED <<callVars, success, FtpGet_IND_CB, starts, early,
                      modemVars, filesize, offset, flash, dropped>>
      BY <1>16 DEF Finish
    <2> QED
      BY <2>1, <2>2
  <1>17. CASE CallbackReturns
    <2>1. rp' = "idle" /\ FtpGet_IND_CB' = FALSE
      BY <1>17 DEF CallbackReturns, AfterCallback
    <2>2. UNCHANGED <<callVars, success, appVars, modemVars, file, copyVars,
                      dropped>>
      BY <1>17 DEF CallbackReturns
    <2>3. rp' \in {"idle", "close", "prepare", "write", "finish", "return"}
          /\ FtpGet_IND_CB' \in BOOLEAN
      BY <2>1
    <2>4. /\ pc' = pc /\ attempts' = attempts /\ success' = success
          /\ told' = told /\ starts' = starts /\ early' = early
          /\ link' = link /\ going' = going /\ urcs' = urcs /\ file' = file
          /\ filesize' = filesize /\ offset' = offset /\ flash' = flash
          /\ finished' = finished /\ dropped' = dropped
      BY <2>2
    <2>5. TypeOK'
      <3>1. /\ pc' \in {"idle", "open", "get", "register"}
            /\ attempts' \in 0..MaxAttempts /\ success' \in BOOLEAN
            /\ told' \in {"none", "refused", "running", "reset", "failed",
                          "reboot", "rebooted"}
            /\ starts' \in 0..MaxStarts /\ early' \in BOOLEAN
        BY <2>4
      <3>2. /\ link' \in [ftp : BOOLEAN, pdp : BOOLEAN]
            /\ going' \in BOOLEAN /\ urcs' \in Seq({"ok", "error"})
            /\ file' \in {NoFile} \cup 0..FileLen
            /\ filesize' \in 0..Huge /\ offset' \in 0..FileLen
            /\ flash' \in Seq(1..FileLen) /\ finished' \in BOOLEAN
            /\ dropped' \in BOOLEAN
        BY <2>4
      <3> QED
        BY <2>3, <3>1, <3>2, Zenon
    <2> QED
      BY <2>4, <2>5, Zenon
  <1>18. CASE UNCHANGED vars
    BY <1>18 DEF vars
  <1> QED
    BY <1>1, <1>2, <1>3, <1>4, <1>5, <1>6, <1>7, <1>8, <1>9, <1>10, <1>11, <1>12, <1>13,
       <1>14, <1>15, <1>16, <1>17, <1>18
    DEF Next, AppStep, RilStep

\* Type correctness: no more attempts to connect than FTP_CONNECT_ATTEMPTS, no
\* copy past the end of the file, and never less than nothing left to copy,
\* although the size may be an error code (fota_ftp.c:95-140, 214-262).
THEOREM FtpTypeCorrect == Spec => []TypeOK
  <1>1. TypeInv => TypeOK
    BY DEF TypeInv
  <1> QED
    BY <1>1, TypeInvInit, TypeInvStep, PTL DEF Spec
=============================================================================
