------------------------ MODULE SecretsManager_proofs ------------------------
(***************************************************************************)
(* For any number of goroutines, versions and calls: what the overlapping  *)
(* calls of Load, Rotate and RevokeOld can do to the credentials in use,   *)
(* to the leases and to the recorded version.                              *)
(***************************************************************************)
EXTENDS SecretsManager, TLAPS

Read == [key : Versions, secret : Versions]

\* Where a call is says what its variables hold: credentials it noted or read are
\* whole, a probe belongs to a Rotate with one, only a Rotate revokes, and
\* RevokeOld has something to revoke.
Calls ==
    /\ current \in Read \cup {Nil}
    /\ \A p \in Callers :
        /\ old[p] \in Read \cup {Nil}
        /\ pc[p] \in {"secret", "install", "probe", "revoke", "record"} =>
               got[p].key \in Versions
        /\ pc[p] \in {"install", "probe", "revoke", "record"} => got[p] \in Read
        /\ pc[p] = "probe" => op[p] = "rotate"
        /\ pc[p] = "revoke" => op[p] \in {"rotate", "blind"}
        /\ pc[p] = "revoking" => current # Nil

\* What a call noted before it read the vault is no newer than what is in use.
NotedOld ==
    \A p \in Callers : pc[p] \notin {"idle", "revoking"} => old[p].key <= current.key

\* What a call installed is no newer than what is in use, and no older than what
\* it noted.
Installed ==
    \A p \in Callers : pc[p] \in {"probe", "revoke", "record"} =>
        old[p].key <= got[p].key /\ got[p].key <= current.key

\* A Rotate with a probe comes to revoke with a key the venue has taken.
Confirmed ==
    \A p \in Callers : pc[p] = "revoke" /\ op[p] = "rotate" => got[p].key \in confirmed

\* Short of RevokeOld, every revoked lease is older than the one in use.
RevokedOld == revokeOld \/ \A l \in revoked : l < current.key

\* As long as no stale credential was installed, versions only go up.
Upward == ~ regressed => NotedOld /\ Installed /\ RevokedOld /\ LatestNotAhead

IInv == TypeOK /\ Calls /\ Confirmed /\ Upward /\ RevokeJustified
-----------------------------------------------------------------------------
\* The constants of the arithmetic.
LEMMA Numbers ==
    /\ MaxVersion \in Nat /\ 1 \in Versions /\ Nil \in Pairs /\ Nil.key = 0
    /\ \A v \in Versions : v \in Nat /\ v \in 0..MaxVersion /\ 0 < v
    /\ \A c \in Read : c \in Pairs /\ c.key \in Versions /\ c.secret \in Versions /\ c # Nil
    /\ \A c \in Pairs : c.key \in Nat
  BY SecretsAssumption DEF Versions, Pairs, Nil, Read

\* Before the first call.
LEMMA InitIInv == Init => IInv
<1> SUFFICES ASSUME Init PROVE IInv
  OBVIOUS
<1>1. vault \in [key : Versions, secret : Versions]
  BY Numbers DEF Init
<1>2. leased \in BOOLEAN /\ regressed \in BOOLEAN /\ revokeOld \in BOOLEAN
  BY DEF Init
<1>3. TypeOK
  BY <1>1, <1>2, Numbers, SecretsAssumption DEF Init, TypeOK, Free
<1>4. Calls /\ Confirmed
  BY DEF Init, Calls, Confirmed
<1>5. Upward /\ RevokeJustified
  BY Numbers DEF Init, Upward, NotedOld, Installed, RevokedOld, LatestNotAhead, RevokeJustified
<1> QED
  BY <1>3, <1>4, <1>5 DEF IInv

\* A call ends: the caller is idle and nobody else moves.
LEMMA ReturnMoves ==
    ASSUME TypeOK, NEW p \in Callers, Return(p)
    PROVE  /\ pc' \in [Callers -> {"idle", "key", "secret", "install", "probe", "revoke",
                                   "record", "revoking"}]
           /\ op' \in [Callers -> {"load", "rotate", "blind"}]
           /\ old' \in [Callers -> Pairs] /\ got' \in [Callers -> Pairs]
           /\ pc'[p] = "idle" /\ old'[p] = Nil
           /\ \A q \in Callers : q # p => /\ pc'[q] = pc[q] /\ op'[q] = op[q]
                                          /\ old'[q] = old[q] /\ got'[q] = got[q]
  BY Numbers DEF TypeOK, Return, Goto

\* A call that ends, and touches nothing shared but the recorded version or the
\* set of confirmed keys, keeps the invariant.
LEMMA ReturnIInv ==
    ASSUME IInv, NEW p \in Callers, Return(p), latest' \in 0..MaxVersion,
           ~ regressed => latest' <= current.key,
           UNCHANGED <<leased, vault, revoked, current, mu, calls, history>>
    PROVE  IInv'
<1>0. TypeOK /\ Calls /\ Confirmed /\ Upward /\ RevokeJustified
  BY DEF IInv
<1>1. /\ pc'[p] = "idle" /\ old'[p] = Nil
      /\ \A q \in Callers : q # p => /\ pc'[q] = pc[q] /\ op'[q] = op[q]
                                     /\ old'[q] = old[q] /\ got'[q] = got[q]
  BY <1>0, ReturnMoves
<1>2. UNCHANGED <<confirmed, probed, regressed, revokeOld>>
  BY DEF history
<1>3. TypeOK'
  BY <1>0, <1>2, ReturnMoves DEF TypeOK
<1>4. Calls' /\ Confirmed'
  BY <1>0, <1>1, <1>2 DEF Calls, Confirmed
<1>5. Upward'
  BY <1>0, <1>1, <1>2 DEF Upward, NotedOld, Installed, RevokedOld, LatestNotAhead
<1>6. RevokeJustified'
  BY <1>0, <1>2 DEF RevokeJustified
<1> QED
  BY <1>3, <1>4, <1>5, <1>6 DEF IInv

\* Whoever rotates writes the key, and later the secret.
LEMMA WriteIInv ==
    ASSUME IInv, WriteKey \/ WriteSecret
    PROVE  IInv'
<1>0. TypeOK /\ Calls /\ Confirmed /\ Upward /\ RevokeJustified
  BY DEF IInv
<1>1. UNCHANGED <<leased, revoked, current, mu, latest, pc, op, old, got, calls,
                  confirmed, probed, regressed, revokeOld>>
  BY DEF WriteKey, WriteSecret, local, history
<1>2. vault' \in [key : Versions, secret : Versions]
  BY <1>0, SecretsAssumption DEF TypeOK, WriteKey, WriteSecret, Versions
<1>3. TypeOK'
  BY <1>0, <1>1, <1>2 DEF TypeOK
<1>4. Calls' /\ Confirmed' /\ RevokeJustified'
  BY <1>0, <1>1 DEF Calls, Confirmed, RevokeJustified
<1>5. Upward'
  BY <1>0, <1>1 DEF Upward, NotedOld, Installed, RevokedOld, LatestNotAhead
<1> QED
  BY <1>3, <1>4, <1>5 DEF IInv

\* Load or Rotate starts, and notes what is in use.
LEMMA BeginIInv ==
    ASSUME IInv, NEW p \in Callers, Begin(p)
    PROVE  IInv'
<1>0. TypeOK /\ Calls /\ Confirmed /\ Upward /\ RevokeJustified
  BY DEF IInv
<1>1. UNCHANGED <<leased, vault, revoked, current, mu, latest, got,
                  confirmed, probed, regressed, revokeOld>>
  BY DEF Begin, history
<1>2. PICK o \in {"load", "rotate", "blind"} : op' = [op EXCEPT ![p] = o]
  BY DEF Begin
<1>3. /\ \A q \in Callers : pc'[q] = IF q = p THEN "key" ELSE pc[q]
      /\ \A q \in Callers : old'[q] = IF q = p THEN current ELSE old[q]
      /\ \A q \in Callers : q # p => op'[q] = op[q]
  BY <1>0, <1>2 DEF TypeOK, Begin, Goto
<1>4. TypeOK'
  BY <1>0, <1>1, <1>2, SecretsAssumption DEF TypeOK, Begin, Goto
<1>5. Calls' /\ Confirmed' /\ RevokeJustified'
  BY <1>0, <1>1, <1>3 DEF Calls, Confirmed, RevokeJustified
<1>6. Upward'
  <2>1. current.key \in Nat
    BY <1>0, Numbers DEF TypeOK
  <2> QED
    BY <1>0, <1>1, <1>3, <2>1 DEF Upward, NotedOld, Installed, RevokedOld, LatestNotAhead
<1> QED
  BY <1>4, <1>5, <1>6 DEF IInv

\* A failed read or probe ends the call.
LEMMA FailIInv ==
    ASSUME IInv, NEW p \in Callers, Return(p),
           UNCHANGED <<leased, vault, revoked, current, mu, latest, calls, history>>
    PROVE  IInv'
<1>1. latest \in 0..MaxVersion /\ (~ regressed => latest <= current.key)
  BY DEF IInv, TypeOK, Upward, LatestNotAhead
<1> QED
  BY <1>1, ReturnIInv

\* The two reads of the vault.
LEMMA ReadIInv ==
    ASSUME IInv, NEW p \in Callers, ReadKey(p) \/ ReadSecret(p)
    PROVE  IInv'
<1>0. TypeOK /\ Calls /\ Confirmed /\ Upward /\ RevokeJustified
  BY DEF IInv
<1>1. UNCHANGED <<leased, vault, revoked, current, mu, latest, calls, history>>
  BY DEF ReadKey, ReadSecret
<1>2. CASE Return(p)
  BY <1>1, <1>2, FailIInv
<1>3. CASE ~ Return(p)
  <2>1. /\ pc' \in [Callers -> {"idle", "key", "secret", "install", "probe", "revoke",
                                "record", "revoking"}]
        /\ pc[p] \in {"key", "secret"} /\ pc'[p] \in {"secret", "install"}
        /\ \A q \in Callers : q # p => pc'[q] = pc[q]
        /\ UNCHANGED <<op, old>>
    BY <1>0, <1>3 DEF TypeOK, ReadKey, ReadSecret, Goto
  <2>2. /\ got' \in [Callers -> Pairs] /\ got'[p].key \in Versions
        /\ pc'[p] = "install" => got'[p] \in Read
        /\ \A q \in Callers : q # p => got'[q] = got[q]
    <3>1. vault.key \in Versions /\ vault.secret \in Versions
      BY <1>0 DEF TypeOK
    <3>2. CASE ReadKey(p)
      <4>1. got' = [got EXCEPT ![p].key = vault.key] /\ pc'[p] = "secret"
        BY <1>0, <1>3, <3>2 DEF ReadKey, Goto, TypeOK
      <4> QED
        BY <1>0, <3>1, <4>1, Numbers DEF TypeOK, Pairs, Read
    <3>3. CASE ReadSecret(p)
      <4>1. got' = [got EXCEPT ![p].secret = vault.secret]
        BY <1>3, <3>3 DEF ReadSecret
      <4>2. got[p].key \in Versions
        BY <1>0, <3>3 DEF Calls, ReadSecret
      <4> QED
        BY <1>0, <3>1, <4>1, <4>2, Numbers DEF TypeOK, Pairs, Read
    <3> QED
      BY <3>2, <3>3
  <2>3. UNCHANGED <<confirmed, probed, regressed, revokeOld>>
    BY <1>1 DEF history
  <2>4. TypeOK'
    BY <1>0, <1>1, <2>1, <2>2, <2>3 DEF TypeOK
  <2>5. Calls' /\ Confirmed' /\ RevokeJustified'
    BY <1>0, <1>1, <2>1, <2>2, <2>3 DEF Calls, Confirmed, RevokeJustified
  <2>6. Upward'
    BY <1>0, <1>1, <2>1, <2>2, <2>3
      DEF Upward, NotedOld, Installed, RevokedOld, LatestNotAhead
  <2> QED
    BY <2>4, <2>5, <2>6 DEF IInv
<1> QED
  BY <1>2, <1>3

\* The credentials are put in use.
LEMMA InstallIInv ==
    ASSUME IInv, NEW p \in Callers, Install(p)
    PROVE  IInv'
<1>0. TypeOK /\ Calls /\ Confirmed /\ Upward /\ RevokeJustified
  BY DEF IInv
<1>1. UNCHANGED <<leased, vault, revoked, mu, latest, op, old, got, calls,
                  confirmed, probed, revokeOld>>
  BY DEF Install
<1>2. /\ pc' \in [Callers -> {"idle", "key", "secret", "install", "probe", "revoke",
                              "record", "revoking"}]
      /\ pc[p] = "install" /\ pc'[p] \in {"record", "probe", "revoke"}
      /\ pc'[p] = "probe" => op[p] = "rotate"
      /\ pc'[p] = "revoke" => op[p] = "blind"
      /\ \A q \in Callers : q # p => pc'[q] = pc[q]
  <2>1. op[p] \in {"load", "rotate", "blind"}
    BY <1>0 DEF TypeOK
  <2>2. CASE op[p] = "load"
    BY <1>0, <2>2 DEF TypeOK, Install, Goto
  <2>3. CASE op[p] = "rotate"
    BY <1>0, <2>3 DEF TypeOK, Install, Goto
  <2>4. CASE op[p] = "blind"
    BY <1>0, <2>4 DEF TypeOK, Install, Goto
  <2> QED
    BY <2>1, <2>2, <2>3, <2>4
<1>3. got[p] \in Read /\ current' = got[p]
  BY <1>0 DEF Calls, Install
<1>4. regressed' \in BOOLEAN /\ (~ regressed' => ~ regressed /\ ~ (got[p].key < current.key))
  BY <1>0 DEF TypeOK, Install
<1>5. TypeOK'
  BY <1>0, <1>1, <1>2, <1>3, <1>4, Numbers DEF TypeOK
<1>6. Calls' /\ Confirmed'
  BY <1>0, <1>1, <1>2, <1>3, Numbers DEF Calls, Confirmed
<1>7. RevokeJustified'
  BY <1>0, <1>1, <1>4 DEF RevokeJustified
<1>8. Upward'
  <2> SUFFICES ASSUME ~ regressed'
               PROVE  NotedOld' /\ Installed' /\ RevokedOld' /\ LatestNotAhead'
    BY DEF Upward
  <2>1. /\ ~ regressed /\ current.key \in Nat /\ got[p].key \in Nat
        /\ current.key <= got[p].key /\ current'.key = got[p].key
    BY <1>0, <1>3, <1>4, Numbers DEF TypeOK
  <2>2. NotedOld /\ Installed /\ RevokedOld /\ LatestNotAhead
    BY <1>0, <2>1 DEF Upward
  <2>3. \A q \in Callers : old[q].key \in Nat /\ got[q].key \in Nat
    BY <1>0, Numbers DEF TypeOK
  <2>4. NotedOld'
    BY <1>1, <1>2, <2>1, <2>2, <2>3 DEF NotedOld
  <2>5. Installed'
    <3>1. old[p].key <= got[p].key
      BY <1>2, <2>1, <2>2, <2>3 DEF NotedOld
    <3> QED
      BY <1>1, <1>2, <2>1, <2>2, <2>3, <3>1 DEF Installed
  <2>6. RevokedOld'
    <3>1. \A l \in revoked : l \in Nat
      BY <1>0, Numbers DEF TypeOK
    <3> QED
      BY <1>1, <2>1, <2>2, <3>1 DEF RevokedOld
  <2>7. LatestNotAhead'
    <3>1. latest \in Nat /\ latest <= current.key
      BY <1>0, <2>1, <2>2 DEF TypeOK, LatestNotAhead
    <3> QED
      BY <1>1, <2>1, <3>1 DEF LatestNotAhead
  <2> QED
    BY <2>4, <2>5, <2>6, <2>7
<1> QED
  BY <1>5, <1>6, <1>7, <1>8 DEF IInv

\* The venue takes the new key, or the call ends.
LEMMA ProbeIInv ==
    ASSUME IInv, NEW p \in Callers, Probe(p)
    PROVE  IInv'
<1>0. TypeOK /\ Calls /\ Confirmed /\ Upward /\ RevokeJustified
  BY DEF IInv
<1>1. UNCHANGED <<leased, vault, revoked, current, mu, latest, calls, probed, regressed,
                  revokeOld>>
  BY DEF Probe
<1>2. CASE Return(p) /\ UNCHANGED confirmed
  BY <1>1, <1>2, FailIInv DEF history
<1>3. CASE ~ (Return(p) /\ UNCHANGED confirmed)
  <2>1. /\ confirmed' = confirmed \cup {got[p].key} /\ Goto(p, "revoke")
        /\ UNCHANGED <<op, old, got>> /\ pc[p] = "probe"
    BY <1>3 DEF Probe
  <2>2. \A q \in Callers : pc'[q] = IF q = p THEN "revoke" ELSE pc[q]
    BY <1>0, <2>1 DEF TypeOK, Goto
  <2>3. got[p].key \in Versions /\ op[p] = "rotate"
    BY <1>0, <2>1 DEF Calls
  <2>4. TypeOK'
    BY <1>0, <1>1, <2>1, <2>3 DEF TypeOK, Goto
  <2>5. Calls' /\ Confirmed' /\ RevokeJustified'
    BY <1>0, <1>1, <2>1, <2>2, <2>3 DEF Calls, Confirmed, RevokeJustified
  <2>6. Upward'
    BY <1>0, <1>1, <2>1, <2>2
      DEF Upward, NotedOld, Installed, RevokedOld, LatestNotAhead
  <2> QED
    BY <2>4, <2>5, <2>6 DEF IInv
<1> QED
  BY <1>2, <1>3

\* The old lease is revoked, or not.
LEMMA RevokeIInv ==
    ASSUME IInv, NEW p \in Callers, Revoke(p)
    PROVE  IInv'
<1>0. TypeOK /\ Calls /\ Confirmed /\ Upward /\ RevokeJustified
  BY DEF IInv
<1>1. /\ UNCHANGED <<leased, vault, current, mu, latest, op, old, got, calls,
                     confirmed, regressed, revokeOld>>
      /\ Goto(p, "record") /\ pc[p] = "revoke"
  BY DEF Revoke
<1>2. \A q \in Callers : pc'[q] = IF q = p THEN "record" ELSE pc[q]
  BY <1>0, <1>1 DEF TypeOK, Goto
<1>3. got[p] \in Read
  BY <1>0, <1>1 DEF Calls
<1>4. \/ /\ old[p].key \in Versions /\ old[p].key # got[p].key
         /\ revoked' = revoked \cup {old[p].key}
         /\ \/ op[p] = "rotate" /\ probed' = probed \cup {old[p].key}
            \/ probed' = probed
      \/ UNCHANGED <<revoked, probed>>
  <2>1. old[p] # Nil => old[p].key \in Versions
    BY <1>0, Numbers DEF Calls
  <2> QED
    BY <2>1 DEF Revoke, HasLease
<1>5. TypeOK'
  BY <1>0, <1>1, <1>4 DEF TypeOK, Goto
<1>6. Calls' /\ Confirmed'
  BY <1>0, <1>1, <1>2, <1>3 DEF Calls, Confirmed
<1>7. ~ regressed => old[p].key <= got[p].key /\ got[p].key <= current.key
  BY <1>0, <1>1 DEF Upward, Installed
<1>8. old[p].key \in Nat /\ got[p].key \in Nat /\ current.key \in Nat
  BY <1>0, Numbers DEF TypeOK
<1>9. RevokeJustified'
  <2> SUFFICES ASSUME ~ regressed', NEW l \in probed'
               PROVE  \E v \in confirmed' : v > l
    BY DEF RevokeJustified
  <2>1. ~ regressed
    BY <1>1
  <2>2. CASE l \in probed
    BY <1>0, <1>1, <2>1, <2>2 DEF RevokeJustified
  <2>3. CASE l \notin probed
    <3>1. l = old[p].key /\ op[p] = "rotate" /\ old[p].key # got[p].key
      BY <1>4, <2>3
    <3>2. got[p].key \in confirmed /\ got[p].key > l
      BY <1>0, <1>1, <1>7, <1>8, <2>1, <3>1 DEF Confirmed
    <3> QED
      BY <1>1, <3>2
  <2> QED
    BY <2>2, <2>3
<1>10. Upward'
  <2> SUFFICES ASSUME ~ regressed'
               PROVE  NotedOld' /\ Installed' /\ RevokedOld' /\ LatestNotAhead'
    BY DEF Upward
  <2>1. NotedOld /\ Installed /\ RevokedOld /\ LatestNotAhead /\ ~ regressed
    BY <1>0, <1>1 DEF Upward
  <2>2. NotedOld' /\ Installed' /\ LatestNotAhead'
    BY <1>1, <1>2, <2>1 DEF NotedOld, Installed, LatestNotAhead
  <2>3. RevokedOld'
    <3>1. old[p].key # got[p].key => old[p].key < current.key
      BY <1>7, <1>8, <2>1
    <3> QED
      BY <1>1, <1>4, <2>1, <3>1 DEF RevokedOld
  <2> QED
    BY <2>2, <2>3
<1> QED
  BY <1>5, <1>6, <1>9, <1>10 DEF IInv

\* The version is recorded.
LEMMA RecordIInv ==
    ASSUME IInv, NEW p \in Callers, Record(p)
    PROVE  IInv'
<1>1. TypeOK /\ Calls /\ Upward
  BY DEF IInv
<1>2. got[p] \in Read /\ (~ regressed => got[p].key <= current.key)
  BY <1>1 DEF Calls, Upward, Installed, Record
<1>3. latest' \in 0..MaxVersion /\ (~ regressed => latest' <= current.key)
  BY <1>2, Numbers DEF Record
<1> QED
  BY <1>3, ReturnIInv DEF Record

\* RevokeOld, which revokes what is in use.
LEMMA RevokeOldIInv ==
    ASSUME IInv, NEW p \in Callers, RevokeOldBegin(p) \/ RevokeOldEnd(p)
    PROVE  IInv'
<1>0. TypeOK /\ Calls /\ Confirmed /\ Upward /\ RevokeJustified
  BY DEF IInv
<1>1. UNCHANGED <<leased, vault, current, latest, op, old, got, confirmed, probed, regressed>>
  BY DEF RevokeOldBegin, RevokeOldEnd, history
<1>2. /\ pc' \in [Callers -> {"idle", "key", "secret", "install", "probe", "revoke",
                              "record", "revoking"}]
      /\ \A q \in Callers : \/ pc'[q] = pc[q]
                            \/ pc'[q] = "idle"
                            \/ pc'[q] = "revoking" /\ current # Nil
  BY <1>0 DEF TypeOK, RevokeOldBegin, RevokeOldEnd, Goto, HasLease
<1>3. calls' \in 0..MaxCalls /\ mu' \in Callers \cup {Free}
  BY <1>0, SecretsAssumption DEF TypeOK, RevokeOldBegin, RevokeOldEnd
<1>4. revoked' \subseteq Versions /\ revokeOld' \in BOOLEAN
      /\ (revokeOld' \/ UNCHANGED <<revokeOld, revoked>>)
  <2>1. CASE RevokeOldBegin(p)
    BY <1>0, <2>1 DEF TypeOK, RevokeOldBegin, history
  <2>2. CASE RevokeOldEnd(p) /\ UNCHANGED <<revoked, revokeOld>>
    BY <1>0, <2>2 DEF TypeOK
  <2>3. CASE RevokeOldEnd(p) /\ revoked' = revoked \cup {current.key} /\ revokeOld' = TRUE
    <3>1. current.key \in Versions
      BY <1>0, <2>3, Numbers DEF Calls, RevokeOldEnd
    <3>2. revoked' \subseteq Versions
      BY <1>0, <2>3, <3>1 DEF TypeOK
    <3>3. revokeOld' = TRUE
      BY <2>3
    <3> QED
      BY <3>2, <3>3
  <2> QED
    BY <2>1, <2>2, <2>3 DEF RevokeOldEnd
<1>5. TypeOK'
  BY <1>0, <1>1, <1>2, <1>3, <1>4 DEF TypeOK
<1>6. Calls' /\ Confirmed' /\ RevokeJustified'
  BY <1>0, <1>1, <1>2 DEF Calls, Confirmed, RevokeJustified
<1>7. Upward'
  BY <1>0, <1>1, <1>2, <1>4 DEF Upward, NotedOld, Installed, RevokedOld, LatestNotAhead
<1> QED
  BY <1>5, <1>6, <1>7 DEF IInv
\* Every step keeps the invariant.
LEMMA StepIInv == IInv /\ [Next]_vars => IInv'
<1> SUFFICES ASSUME IInv, [Next]_vars PROVE IInv'
  OBVIOUS
<1>1. CASE UNCHANGED vars
  <2>1. UNCHANGED <<leased, vault, revoked, current, mu, latest, pc, op, old, got, calls,
                    confirmed, probed, regressed, revokeOld>>
    BY <1>1 DEF vars, local, history
  <2>2. UNCHANGED <<TypeOK, Calls, Confirmed, RevokeJustified>>
    BY <2>1 DEF TypeOK, Calls, Confirmed, RevokeJustified
  <2>3. UNCHANGED Upward
    BY <2>1 DEF Upward, NotedOld, Installed, RevokedOld, LatestNotAhead
  <2> QED
    BY <2>2, <2>3 DEF IInv
<1>2. CASE WriteKey \/ WriteSecret
  BY <1>2, WriteIInv
<1>3. ASSUME NEW p \in Callers, Begin(p) PROVE IInv'
  BY <1>3, BeginIInv
<1>4. ASSUME NEW p \in Callers, RevokeOldBegin(p) \/ RevokeOldEnd(p) PROVE IInv'
  BY <1>4, RevokeOldIInv
<1>5. ASSUME NEW p \in Callers,
             ReadKey(p) \/ ReadSecret(p) \/ Install(p) \/ Probe(p) \/ Revoke(p) \/ Record(p)
      PROVE  IInv'
  BY <1>5, ReadIInv, InstallIInv, ProbeIInv, RevokeIInv, RecordIInv
<1> QED
  BY <1>1, <1>2, <1>3, <1>4, <1>5 DEF Next, Step

\* The invariant holds throughout.
LEMMA Inductive == Spec => []IInv
  BY InitIInv, StepIInv, PTL DEF Spec

\* The manager's fields, the vault and every call keep their types.
THEOREM TypeCorrect == Spec => []TypeOK
  BY Inductive, PTL DEF IInv

\* The credentials in use lose their lease only through RevokeOld or a Load that
\* installed what it had read before another's rotation (secrets.go:48-99).
THEOREM Live == Spec => []CurrentLive
<1>1. IInv => CurrentLive
  <2> SUFFICES ASSUME IInv, current.key \in revoked, ~ regressed, ~ revokeOld PROVE FALSE
    BY DEF CurrentLive
  <2>1. current.key < current.key /\ current.key \in Nat
    BY Numbers DEF IInv, TypeOK, Upward, RevokedOld
  <2> QED
    BY <2>1
<1> QED
  BY <1>1, Inductive, PTL

\* A Rotate with a probe leaves a confirmed key that is newer than each lease it
\* revoked, whatever failed or overlapped, short of a stale install
\* (secrets.go:75-90).
THEOREM Justified == Spec => []RevokeJustified
  BY Inductive, PTL DEF IInv

\* venue_credentials is never ahead of the credentials in use, short of a stale
\* install (secrets.go:161-178).
THEOREM NotAhead == Spec => []LatestNotAhead
<1>1. IInv => LatestNotAhead
  BY DEF IInv, Upward, LatestNotAhead
<1> QED
  BY <1>1, Inductive, PTL
==============================================================================
