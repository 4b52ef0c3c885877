---------------------------- MODULE DeviceEnroll ----------------------------
(***************************************************************************)
(* Enrolment of devices with an activation code, renewal and revocation,   *)
(* on the server (internal/enroll/service.go) and on the device            *)
(* (client.go, rotate.go, the loops of cmd/connector and cmd/cpe).         *)
(*                                                                         *)
(* A unit of time is 75 s, the longest from one try of a failing renewal   *)
(* to the next: the client gives up after 15 s, and the loop waits another *)
(* minute.  A request takes less and sees the clock move once at most; the *)
(* clock waits for a renewal that is due and for a connection that has     *)
(* reached its age (InTime).  A request with a bad CSR, or for a code or   *)
(* an identity that is not in the table, is refused before it has changed  *)
(* anything and is no step.                                                *)
(***************************************************************************)
EXTENDS EnrollBase, Integers

CONSTANTS
  CertTTL,      \* lifetime of a certificate: NotAfter of signClient
  RenewLead,    \* a renewal is tried when less than this remains
  ConnAge       \* connMaxAge: longest life of a connection to the PoP

ASSUME DeviceAssumption ==
  /\ {CertTTL, RenewLead, ConnAge} \subseteq Nat \ {0}
  /\ RenewLead < CertTTL
  /\ None \notin Nat

VARIABLES
  rows,        \* device_enrollments: one row for each identity
  revokedAt,   \* history: when a device was revoked
  dev          \* the process that is configured with an identity

deviceVars == <<rows, revokedAt, dev>>

\* code: the row has an activation code that somebody was given.
NoRow == [kind |-> "none", code |-> FALSE, status |-> "none"]

\* how: an activation code and connections to the PoP, an activation code and
\* a tunnel (SDWAN_TUNNEL), or the identity provider.  till: when the
\* certificate ends; next: when the renewal loop wakes up, or woke up for the
\* renewal under way; conn: when the connection was opened; history missed:
\* renewals that failed since the certificate came.
Off == [pc |-> "off", how |-> "code", till |-> 0, next |-> 0, missed |-> 0, conn |-> None]

Rows == [kind : {"none", "device", "agent"}, code : BOOLEAN,
         status : {"none", "pending", "redeemed", "revoked"}]
Devs == [pc : {"off", "boot", "asking", "up", "renewing"}, how : {"code", "tunnel", "idp"},
         till : Nat, next : Nat, missed : 0 .. RenewLead, conn : Nat \cup {None}]

DeviceTypeOK ==
  /\ rows \in [Identities -> Rows]
  /\ \A i \in Identities : rows[i].kind = "none" <=> rows[i].status = "none"
  /\ revokedAt \in [Identities -> Nat]
  /\ dev \in [Identities -> Devs]

DeviceInit ==
  /\ rows = [i \in Identities |-> NoRow]
  /\ revokedAt = [i \in Identities |-> 0]
  /\ dev = [i \in Identities |-> Off]

-----------------------------------------------------------------------------
(* The server.                                                             *)

\* An administrator gets a code; the index on (tenant, identity) refuses an
\* identity that has a row, whatever its status.
CreateEnrollment(i) ==
  /\ rows[i].status = "none"
  /\ rows' = [rows EXCEPT ![i] = [kind |-> "device", code |-> TRUE, status |-> "pending"]]
  /\ UNCHANGED <<now, job, fails, spent, granted, revokedAt, dev>>

\* The wait until the certificate ends.
NextTryMut(till, from) == IF till > now THEN till ELSE from + 1
\* The wait of RunRenewLoop after a request that began at from: until the lead,
\* and a minute at least, which with the request makes a unit.
NextTry(till, from) == IF till - RenewLead > now THEN till - RenewLead ELSE from + 1

\* What a request that ends without a certificate leaves: the process starts
\* over or, when it was a renewal, goes on with its loop.
WithoutCert(d) ==
  IF d.pc = "asking" THEN [d EXCEPT !.pc = "boot"]
  ELSE IF d.pc = "renewing"
       THEN [d EXCEPT !.pc = "up", !.next = NextTry(d.till, d.next),
                      !.missed = IF @ < RenewLead THEN @ + 1 ELSE @]
       ELSE d

Disappointed(w) ==
  dev' = IF job[w].to = None THEN dev ELSE [dev EXCEPT ![job[w].to] = WithoutCert(@)]

Refuse(w) == Done(w) /\ Disappointed(w)

Pending(i) == rows[i].code /\ rows[i].status = "pending"

\* Redeem: in a transaction, read the row ...
RedeemSelect(w) ==
  /\ job[w].op = "redeem" /\ job[w].pc = "select"
  /\ IF Pending(job[w].tok) THEN Goto(w, "mark") /\ UNCHANGED dev ELSE Refuse(w)
  /\ UNCHANGED <<now, fails, spent, granted, rows, revokedAt>>

\* An update by the identity alone, its count not looked at.
MarksMut(i) == TRUE
\* The update waits for a concurrent one and then finds no pending row.
Marks(i) == Pending(i)

\* ... and mark it, before the certificate is signed.
RedeemMark(w) ==
  LET i == job[w].tok
  IN /\ job[w].op = "redeem" /\ job[w].pc = "mark"
     /\ IF Marks(i)
        THEN /\ rows' = [rows EXCEPT ![i].status = "redeemed"]
             /\ spent' = spent \cup {i}
             /\ Goto(w, "sign")
             /\ UNCHANGED dev
        ELSE Refuse(w) /\ UNCHANGED <<rows, spent>>
     /\ UNCHANGED <<now, fails, granted, revokedAt>>

\* Any row of the identity.
EnrolledMut(i) == rows[i].status # "none"
\* The row of a device that has not been revoked.
Enrolled(i) == rows[i].status = "redeemed"

\* Renew: a read, the signature follows outside the transaction.
RenewCheck(w) ==
  /\ job[w].op = "renew" /\ job[w].pc = "check"
  /\ IF Enrolled(job[w].tok) THEN Goto(w, "sign") /\ UNCHANGED dev ELSE Refuse(w)
  /\ UNCHANGED <<now, fails, spent, granted, rows, revokedAt>>

\* The certificate ends CertTTL from now.
SignCSR(w, pc) == job' = [job EXCEPT ![w].pc = pc, ![w].cert = now + CertTTL]

Sign(w) ==
  /\ job[w].pc = "sign"
  /\ SignCSR(w, IF job[w].op = "agent" THEN "issue" ELSE "reply")
  /\ IF job[w].op = "redeem" THEN Granting(job[w].tok) ELSE UNCHANGED granted
  /\ UNCHANGED <<now, fails, spent, rows, revokedAt, dev>>

\* RedeemAgent: the row is made or taken over, also from a device with a code
\* and from one that is revoked; an activation code stays in it.
RedeemAgent(w) ==
  LET i == job[w].tok
  IN /\ job[w].op = "agent" /\ job[w].pc = "upsert"
     /\ rows' = [rows EXCEPT ![i] = [kind |-> "agent", code |-> rows[i].code, status |-> "redeemed"]]
     /\ Goto(w, "sign")
     /\ UNCHANGED <<now, fails, spent, granted, revokedAt, dev>>

RevokeDevice(i) ==
  /\ Enrolled(i)
  /\ rows' = [rows EXCEPT ![i].status = "revoked"]
  /\ revokedAt' = [revokedAt EXCEPT ![i] = now]
  /\ UNCHANGED <<now, job, fails, spent, granted, dev>>

-----------------------------------------------------------------------------
(* The device.                                                             *)

\* The process starts with the code it was configured with, or for the provider.
DeviceStart(i, how) ==
  /\ dev[i].pc = "off"
  /\ how # "idp" => rows[i].code
  /\ dev' = [dev EXCEPT ![i] = [Off EXCEPT !.pc = "boot", !.how = how]]
  /\ UNCHANGED <<now, job, fails, spent, granted, rows, revokedAt>>

Request(w, op, pc, i) ==
  /\ job[w] = Free
  /\ job' = [job EXCEPT ![w] = [Free EXCEPT !.op = op, !.pc = pc, !.tok = i, !.to = i, !.at = now]]

\* DeviceTLS, FetchCert.
FetchCert(w, i) ==
  /\ dev[i].pc = "boot" /\ dev[i].how # "idp"
  /\ Request(w, "redeem", "select", i)
  /\ dev' = [dev EXCEPT ![i].pc = "asking"]
  /\ UNCHANGED <<now, fails, spent, granted, rows, revokedAt>>

\* RunRenewLoop: without a valid certificate there is no connection to ask over.
RenewCert(w, i) ==
  /\ dev[i].pc = "up" /\ now >= dev[i].next
  /\ IF now < dev[i].till
     THEN /\ Request(w, "renew", "check", i)
          /\ dev' = [dev EXCEPT ![i].pc = "renewing"]
     ELSE /\ dev' = [dev EXCEPT ![i].next = NextTry(dev[i].till, now), ![i].missed = RenewLead]
          /\ UNCHANGED job
  /\ UNCHANGED <<now, fails, spent, granted, rows, revokedAt>>

\* CertRotator.Set, and the loop sleeps until the lead.
WithCert(d, r) ==
  [d EXCEPT !.pc = "up", !.till = r.cert, !.next = NextTry(r.cert, r.at), !.missed = 0]

Reply(w) ==
  /\ job[w].pc = "reply"
  /\ Done(w)
  /\ dev' = IF job[w].to = None THEN dev
            ELSE [dev EXCEPT ![job[w].to] = WithCert(@, job[w])]
  /\ UNCHANGED <<now, fails, spent, granted, rows, revokedAt>>

\* An error of the database or of the signature, or the answer is lost.
JobFails(w) ==
  /\ job[w] # Free
  /\ Fail
  /\ Refuse(w)
  /\ UNCHANGED <<now, spent, granted, rows, revokedAt>>

\* The certificate is in memory only: a new process begins again.  A CPE ends
\* with its tunnel, when runTunnel returns.
DeviceRestart(i) ==
  /\ dev[i].pc \notin {"off", "boot"}
  /\ dev' = [dev EXCEPT ![i] = [Off EXCEPT !.pc = "boot", !.how = dev[i].how]]
  /\ job' = [w \in Workers |-> IF job[w].to = i THEN [job[w] EXCEPT !.to = None] ELSE job[w]]
  /\ UNCHANGED <<now, fails, spent, granted, rows, revokedAt>>

\* serveLoop, or the one handshake of runTunnel: it takes the certificate of
\* this moment, and the PoP looks at its validity only.
ConnOpen(i) ==
  /\ dev[i].pc \in {"up", "renewing"} /\ dev[i].how # "idp" /\ dev[i].conn = None
  /\ now < dev[i].till
  /\ dev' = [dev EXCEPT ![i].conn = now]
  /\ UNCHANGED <<now, job, fails, spent, granted, rows, revokedAt>>

\* A tunnel has no deadline.
Aged(i) == dev[i].how = "code" /\ dev[i].conn # None /\ now - dev[i].conn >= ConnAge

\* The deadline of the connection's context, or an error.
ConnClose(i) ==
  /\ dev[i].how = "code" /\ dev[i].conn # None
  /\ (Aged(i) /\ UNCHANGED fails) \/ Fail
  /\ dev' = [dev EXCEPT ![i].conn = None]
  /\ UNCHANGED <<now, job, spent, granted, rows, revokedAt>>

InTime ==
  /\ \A w \in Workers : job[w] = Free \/ job[w].at = now
  /\ \A i \in Identities : /\ ~Aged(i)
                           /\ dev[i].pc = "up" => now < dev[i].next

(***************************************************************************)
(* A revocation takes effect within the life of a certificate, and where   *)
(* serveLoop gives connections an age within that too (the comment on      *)
(* serveLoop in cmd/connector), and the unit that a renewal may take which *)
(* was checked before the revocation and is signed after it.  The comments *)
(* on RevokeDevice and revokeDevice and migration 0008 promise the life of *)
(* a certificate alone, which is true of opening a connection only: a      *)
(* tunnel that is up stays up without any bound.                           *)
(***************************************************************************)
RevokedCut ==
  \A i \in Identities : rows[i].status = "revoked" =>
    /\ dev[i].till <= revokedAt[i] + CertTTL + 1
    /\ dev[i].conn # None =>
         /\ dev[i].conn <= revokedAt[i] + CertTTL
         /\ dev[i].how = "code" => now <= revokedAt[i] + CertTTL + ConnAge

(***************************************************************************)
(* RunRenewLoop keeps a device in possession of a valid certificate while  *)
(* fewer than RenewLead - 1 renewals in a row have failed, each as slowly  *)
(* as its timeout lets it.  The lead is counted in tries of 75 s: 384 in   *)
(* 8 hours.                                                                *)
(***************************************************************************)
NeverLapses ==
  \A i \in Identities :
    dev[i].pc \in {"up", "renewing"} /\ dev[i].missed + 1 < RenewLead => now < dev[i].till
=============================================================================
