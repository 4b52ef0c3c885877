---------------------------- MODULE Credentials ----------------------------
(***************************************************************************)
(* Session credentials of one user and the revocation table                *)
(* (internal/identity), the rows of the user and of the device that the    *)
(* refresh reads, and the revocation list of a PoP.  A credential is known *)
(* by its jti, the number of its issue.  Signatures, groups, posture and   *)
(* risk claims are left out: nothing here reads them.                      *)
(***************************************************************************)
EXTENDS Integers, Sequences, FiniteSetsExt

CONSTANTS
  MaxTTL,      \* identity.MaxTTL
  MaxTime,     \* bound: the clock
  MaxCreds     \* bound: credentials issued

ASSUME CredentialAssumption ==
  /\ MaxTTL \in Nat \ {0} /\ MaxTime \in Nat /\ MaxCreds \in Nat \ {0}

Jtis == 1 .. MaxCreds
None == 0

VARIABLES
  now,       \* the clock, read by the services and the database
  exp,       \* expiry of each credential issued
  rows,      \* revocations: expire_at of a jti, None without a row
  active,    \* users.status is active
  device,    \* device_enrollments.status of the agent's device
  revoked,   \* history: jtis that were ever revoked
  loads,     \* revocation lists the xDS server has read and not yet written
  popRev,    \* jtis in the PoP's RevocationStore
  popKnown,  \* history: jtis that were revoked when the list in force was read
  evicting,  \* the callback that follows a new list has still to run
  popHs,     \* jtis of handshakes past VerifyCred and before OnEstablished
  popSess    \* jtis with a session at the PoP's terminator

credVars == <<now, exp, rows, active, device, revoked,
              loads, popRev, popKnown, evicting, popHs, popSess>>
listVars == <<loads, popRev, popKnown, evicting>>
popVars == <<listVars, popHs, popSess>>
rowVars == <<rows, revoked>>
peopleVars == <<active, device>>

CredTypeOK ==
  /\ now \in 0 .. MaxTime
  /\ exp \in Seq(1 .. MaxTime + MaxTTL) /\ Len(exp) <= MaxCreds
  /\ rows \in [Jtis -> 0 .. MaxTime + MaxTTL]
  /\ active \in BOOLEAN /\ device \in {"redeemed", "revoked"}
  /\ revoked \subseteq DOMAIN exp
  /\ loads \subseteq [list : SUBSET (DOMAIN exp), known : SUBSET (DOMAIN exp)]
  /\ popRev \subseteq DOMAIN exp /\ popKnown \subseteq DOMAIN exp /\ evicting \in BOOLEAN
  /\ popHs \subseteq DOMAIN exp /\ popSess \subseteq DOMAIN exp

\* The lifetime as it is asked for.
ClampMut(ttl) == ttl
\* Only an upper bound: what IssueCredential makes of the lifetime asked for.
Clamp(ttl) == Min({ttl, MaxTTL})

\* The installation when the agent has got its first credential, asked for ttl.
CredInit(ttl) ==
  /\ now = 0
  /\ exp = <<Clamp(ttl)>>
  /\ rows = [j \in Jtis |-> None]
  /\ active = TRUE /\ device = "redeemed"
  /\ revoked = {}
  /\ loads = {} /\ popRev = {} /\ popKnown = {} /\ evicting = FALSE
  /\ popHs = {} /\ popSess = {}

Tick ==
  /\ now < MaxTime
  /\ now' = now + 1
  /\ UNCHANGED <<exp, rowVars, peopleVars, popVars>>

Issued == DOMAIN exp
Verify(j) == now < exp[j]
IsRevoked(j) == rows[j] > now

\* The credential gets the next jti.
IssueCredential(ttl) ==
  /\ Len(exp) < MaxCreds
  /\ exp' = Append(exp, now + Clamp(ttl))

\* DELETE FROM revocations WHERE expire_at < now()
Collected(r) == [j \in Jtis |-> IF r[j] < now THEN None ELSE r[j]]

\* One transaction: the row unless there is one, the notification, the
\* collection of expired rows.  The notification is the xDS server's to
\* deliver (XdsServer); the lists below are what the PoP sees of it.
RevokeCredential(j) ==
  /\ rows' = Collected([rows EXCEPT ![j] = IF @ = None THEN now + MaxTTL ELSE @])
  /\ revoked' = revoked \cup {j}

GCExpiredRevocations ==
  /\ Collected(rows) # rows
  /\ rows' = Collected(rows)
  /\ UNCHANGED <<now, exp, revoked, peopleVars, popVars>>

\* An operator's statement on users: no service of the repository writes the status.
DisableUser ==
  /\ active /\ active' = FALSE
  /\ UNCHANGED <<now, exp, rowVars, device, popVars>>

\* RevokeDevice of the enrolment service.
RevokeDevice ==
  /\ device = "redeemed" /\ device' = "revoked"
  /\ UNCHANGED <<now, exp, rowVars, active, popVars>>

-----------------------------------------------------------------------------
(* What the PoP does with a credential.  ZtnaTerm has the steps inside.    *)

Live == {j \in Issued : IsRevoked(j)}

\* The listener or the ticker of the xDS server reads the rows not yet
\* expired.  A read of the list in force would change nothing.
ReadList ==
  /\ Cardinality(loads) < 2
  /\ Live # popRev
  /\ loads' = loads \cup {[list |-> Live, known |-> revoked]}
  /\ UNCHANGED <<now, exp, rowVars, peopleVars, popRev, popKnown, evicting, popHs, popSess>>

\* The list is written to the cache and reaches the RevocationStore: of two
\* reads the older one may be written last.
SetList ==
  /\ ~evicting
  /\ \E l \in loads : /\ popRev' = l.list /\ popKnown' = l.known
                      /\ loads' = loads \ {l}
  /\ evicting' = TRUE
  /\ UNCHANGED <<now, exp, rowVars, peopleVars, popHs, popSess>>

\* EvictRevoked, after the list is set.
EvictRevoked ==
  /\ evicting /\ evicting' = FALSE
  /\ popSess' = popSess \ popRev
  /\ UNCHANGED <<now, exp, rowVars, peopleVars, loads, popRev, popKnown, popHs>>

\* VerifyCred on a handshake with credential j.
PopAdmits(j) == Verify(j) /\ j \notin popRev
PopVerified(j) == popHs' = popHs \cup {j}

\* OnEstablished on a handshake that was verified: nothing is asked again.
PopEstablished(j) == popHs' = popHs \ {j} /\ popSess' = popSess \cup {j}

\* RunExpirySweep.
PopSweep ==
  /\ \E j \in popSess : ~Verify(j)
  /\ popSess' = {j \in popSess : Verify(j)}
  /\ UNCHANGED <<now, exp, rowVars, peopleVars, listVars, popHs>>

(***************************************************************************)
(* A credential that was revoked before the list in force was read is not  *)
(* admitted by VerifyCred, although its row expires, is collected, and     *)
(* leaves the list: the lifetime of a credential is clamped to MaxTTL when *)
(* it is issued and the row lives MaxTTL from the revocation               *)
(* (RevokeCredential, expireAt).  A handshake verified before may still    *)
(* enter its session, and an older list written last forgets what a newer  *)
(* one said (XdsServer, Convergence): both are steps here.                 *)
(***************************************************************************)
RevokedNotAdmitted == \A j \in popKnown : ~PopAdmits(j)
=============================================================================
