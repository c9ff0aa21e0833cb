--------------------------- MODULE SecretsManager ---------------------------
(***************************************************************************)
(* The credentials manager of internal/secrets: Load, Rotate, RevokeOld    *)
(* and the CredentialStore, called by several goroutines, while the vault  *)
(* is given new credentials under two paths, one write after the other.    *)
(* The key's version names the lease.  The vault, the venue that a probe   *)
(* asks and whoever rotates are external.                                  *)
(***************************************************************************)
EXTENDS Naturals

CONSTANTS
    Callers,    \* goroutines that use the manager
    MaxVersion, \* bound on the versions written to the vault
    MaxCalls    \* bound on the calls of all goroutines

ASSUME SecretsAssumption == MaxVersion \in Nat \ {0} /\ MaxCalls \in Nat

VARIABLES
    leased,     \* a vault that grants leases, or the EnvVault
    vault,      \* the versions under the two paths, [key, secret]
    revoked,    \* the leases that are no longer good
    current,    \* Manager.current, Nil at first
    mu,         \* who holds Manager.mu over a call of the vault, if anyone
    latest,     \* the version in the last of CredentialStore.rows, 0 for none
    pc, op,     \* what each caller is doing, and in which operation
    old, got,   \* old and creds of its call
    calls,      \* calls made so far
    confirmed,  \* history: versions whose probe the venue answered,
    probed,     \*   leases revoked by a Rotate with a probe,
    regressed,  \*   an older credential was installed over a newer one,
    revokeOld   \*   RevokeOld has been used

local == <<pc, op, old, got, calls>>
history == <<confirmed, probed, regressed, revokeOld>>
vars == <<leased, vault, revoked, current, mu, latest, local, history>>

Versions == 1..MaxVersion
Pairs == [key : 0..MaxVersion, secret : 0..MaxVersion]
Nil == [key |-> 0, secret |-> 0]
Free == "free"

Init ==
    /\ leased \in BOOLEAN
    /\ vault = [key |-> 1, secret |-> 1]
    /\ revoked = {} /\ current = Nil /\ mu = Free /\ latest = 0
    /\ pc = [p \in Callers |-> "idle"]
    /\ op = [p \in Callers |-> "load"]
    /\ old = [p \in Callers |-> Nil]
    /\ got = [p \in Callers |-> Nil]
    /\ calls = 0
    /\ confirmed = {} /\ probed = {} /\ regressed = FALSE /\ revokeOld = FALSE

Goto(p, w) == pc' = [pc EXCEPT ![p] = w]

\* A call returns; its local variables are gone.
Return(p) ==
    /\ Goto(p, "idle")
    /\ op' = [op EXCEPT ![p] = "load"]
    /\ old' = [old EXCEPT ![p] = Nil]
    /\ got' = [got EXCEPT ![p] = Nil]

\* The EnvVault grants no lease (the empty LeaseID) and ignores Revoke.
HasLease(c) == leased /\ c # Nil

\* The venue takes a key with its own secret, until its lease is revoked.
Accepts(c) == c.key = c.secret /\ c.key \notin revoked
-----------------------------------------------------------------------------
(* The vault.  The EnvVault is read from the environment once. *)

WriteKey ==
    /\ leased /\ vault.key = vault.secret /\ vault.key < MaxVersion
    /\ vault' = [vault EXCEPT !.key = @ + 1]
    /\ UNCHANGED <<leased, revoked, current, mu, latest, local, history>>

WriteSecret ==
    /\ vault.secret < vault.key
    /\ vault' = [vault EXCEPT !.secret = @ + 1]
    /\ UNCHANGED <<leased, revoked, current, mu, latest, local, history>>
-----------------------------------------------------------------------------
(* Load and Rotate.  Rotate notes Current() and then runs Load; it is called *)
(* with a probe ("rotate") or without one ("blind").                         *)

Begin(p) ==
    /\ pc[p] = "idle" /\ calls < MaxCalls
    /\ mu = Free
    /\ \E o \in {"load", "rotate", "blind"} : op' = [op EXCEPT ![p] = o]
    /\ old' = [old EXCEPT ![p] = current]
    /\ calls' = calls + 1
    /\ Goto(p, "key")
    /\ UNCHANGED <<leased, vault, revoked, current, mu, latest, got, history>>

\* Either read may fail, which ends the call.
ReadKey(p) ==
    /\ pc[p] = "key"
    /\ \/ /\ got' = [got EXCEPT ![p].key = vault.key]
          /\ Goto(p, "secret")
          /\ UNCHANGED <<op, old>>
       \/ Return(p)
    /\ UNCHANGED <<leased, vault, revoked, current, mu, latest, calls, history>>

ReadSecret(p) ==
    /\ pc[p] = "secret"
    /\ \/ /\ got' = [got EXCEPT ![p].secret = vault.secret]
          /\ Goto(p, "install")
          /\ UNCHANGED <<op, old>>
       \/ Return(p)
    /\ UNCHANGED <<leased, vault, revoked, current, mu, latest, calls, history>>

\* Mutated form of Install: Rotate goes on to revoke before it probes.
InstallNoProbe(p) ==
    /\ pc[p] = "install" /\ mu = Free
    /\ current' = got[p]
    /\ regressed' = (regressed \/ got[p].key < current.key)
    /\ Goto(p, IF op[p] = "load" THEN "record" ELSE "revoke")
    /\ UNCHANGED <<leased, vault, revoked, mu, latest, op, old, got, calls,
                   confirmed, probed, revokeOld>>

\* The new credentials are in use from here on, probed or not.
Install(p) ==
    /\ pc[p] = "install" /\ mu = Free
    /\ current' = got[p]
    /\ regressed' = (regressed \/ got[p].key < current.key)
    /\ Goto(p, CASE op[p] = "load"   -> "record"
                 [] op[p] = "rotate" -> "probe"
                 [] op[p] = "blind"  -> "revoke")
    /\ UNCHANGED <<leased, vault, revoked, mu, latest, op, old, got, calls,
                   confirmed, probed, revokeOld>>

\* A probe may fail for good credentials as well; they stay installed.
Probe(p) ==
    /\ pc[p] = "probe"
    /\ \/ /\ Accepts(got[p])
          /\ confirmed' = confirmed \cup {got[p].key}
          /\ Goto(p, "revoke")
          /\ UNCHANGED <<op, old, got>>
       \/ Return(p) /\ UNCHANGED confirmed
    /\ UNCHANGED <<leased, vault, revoked, current, mu, latest, calls,
                   probed, regressed, revokeOld>>

\* Mutated form of Revoke: the lease is not compared with the new one's.
RevokeSame(p) ==
    /\ pc[p] = "revoke"
    /\ \/ /\ HasLease(old[p])
          /\ revoked' = revoked \cup {old[p].key}
          /\ probed' = IF op[p] = "rotate" THEN probed \cup {old[p].key} ELSE probed
       \/ UNCHANGED <<revoked, probed>>
    /\ Goto(p, "record")
    /\ UNCHANGED <<leased, vault, current, mu, latest, op, old, got, calls,
                   confirmed, regressed, revokeOld>>

\* The old lease, if it is another one; an error of the vault is ignored.
Revoke(p) ==
    /\ pc[p] = "revoke"
    /\ \/ /\ HasLease(old[p]) /\ old[p].key # got[p].key
          /\ revoked' = revoked \cup {old[p].key}
          /\ probed' = IF op[p] = "rotate" THEN probed \cup {old[p].key} ELSE probed
       \/ UNCHANGED <<revoked, probed>>
    /\ Goto(p, "record")
    /\ UNCHANGED <<leased, vault, current, mu, latest, op, old, got, calls,
                   confirmed, regressed, revokeOld>>

\* Mutated form of Record: the row names what the vault holds by now.
RecordVault(p) ==
    /\ pc[p] = "record"
    /\ latest' = vault.key
    /\ Return(p)
    /\ UNCHANGED <<leased, vault, revoked, current, mu, calls, history>>

\* RecordCredentials with what the call returned: the version, not the secret.
Record(p) ==
    /\ pc[p] = "record"
    /\ latest' = got[p].key
    /\ Return(p)
    /\ UNCHANGED <<leased, vault, revoked, current, mu, calls, history>>
-----------------------------------------------------------------------------
(* RevokeOld revokes the lease of the current credentials, under the lock. *)

\* Mutated form of RevokeOldBegin: it returns early with the lock held.
RevokeOldBeginHeld(p) ==
    /\ pc[p] = "idle" /\ calls < MaxCalls
    /\ mu = Free
    /\ calls' = calls + 1
    /\ mu' = p
    /\ Goto(p, IF HasLease(current) THEN "revoking" ELSE "idle")
    /\ UNCHANGED <<leased, vault, revoked, current, latest, op, old, got, history>>

RevokeOldBegin(p) ==
    /\ pc[p] = "idle" /\ calls < MaxCalls
    /\ mu = Free
    /\ calls' = calls + 1
    /\ \/ HasLease(current) /\ mu' = p /\ Goto(p, "revoking")
       \/ ~ HasLease(current) /\ UNCHANGED <<mu, pc>>
    /\ UNCHANGED <<leased, vault, revoked, current, latest, op, old, got, history>>

RevokeOldEnd(p) ==
    /\ pc[p] = "revoking"
    /\ mu' = Free
    /\ \/ revoked' = revoked \cup {current.key} /\ revokeOld' = TRUE
       \/ UNCHANGED <<revoked, revokeOld>>
    /\ Goto(p, "idle")
    /\ UNCHANGED <<leased, vault, current, latest, op, old, got, calls,
                   confirmed, probed, regressed>>

-----------------------------------------------------------------------------
Step(p) ==
    \/ ReadKey(p) \/ ReadSecret(p) \/ Install(p) \/ Probe(p) \/ Revoke(p)
    \/ Record(p) \/ RevokeOldEnd(p)

Next ==
    \/ WriteKey \/ WriteSecret
    \/ \E p \in Callers : Begin(p) \/ RevokeOldBegin(p) \/ Step(p)

Spec == Init /\ [][Next]_vars

\* Goroutines run, the vault and the venue answer every request.
FairSpec == Spec /\ \A p \in Callers : WF_vars(Step(p))
-----------------------------------------------------------------------------
TypeOK ==
    /\ leased \in BOOLEAN /\ vault \in [key : Versions, secret : Versions]
    /\ revoked \subseteq Versions /\ current \in Pairs /\ mu \in Callers \cup {Free}
    /\ latest \in 0..MaxVersion
    /\ pc \in [Callers -> {"idle", "key", "secret", "install", "probe", "revoke",
                           "record", "revoking"}]
    /\ op \in [Callers -> {"load", "rotate", "blind"}]
    /\ old \in [Callers -> Pairs] /\ got \in [Callers -> Pairs]
    /\ calls \in 0..MaxCalls
    /\ confirmed \subseteq Versions /\ probed \subseteq Versions
    /\ regressed \in BOOLEAN /\ revokeOld \in BOOLEAN

\* The credentials in use keep their lease through any mix of calls
\* (secrets.go:86-88).  They lose it only through RevokeOld, which revokes the
\* current lease whatever its name says (secrets.go:92-99), or where a Load that
\* read before another's rotation installed after it (secrets.go:48-65).
CurrentLive ==
    current.key \in revoked => regressed \/ revokeOld

\* README.md:169, "Old keys are revoked only after the connector confirms the
\* new key is active": a Rotate with a probe revokes a lease only once the venue
\* has taken a newer key, unless calls overtook each other; so a rotation that
\* fails half-way leaves a confirmed credential to go back to (secrets.go:75-90).
RevokeJustified ==
    ~ regressed => \A l \in probed : \E v \in confirmed : v > l

\* venue_credentials (secrets.go:161-178) never names a credential newer than
\* the one in use, however calls that rotate and record interleave, unless a
\* stale one was installed.
LatestNotAhead == ~ regressed => latest <= current.key

\* Every call returns, RevokeOld's lock over a vault call included
\* (secrets.go:92-99), as long as vault and venue answer.
CallsEnd == \A p \in Callers : pc[p] # "idle" ~> pc[p] = "idle"
=============================================================================
