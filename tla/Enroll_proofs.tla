--------------------------- MODULE Enroll_proofs ---------------------------
(***************************************************************************)
(* Proofs about Enroll, for any number of devices, requests and logins.    *)
(***************************************************************************)
EXTENDS Enroll, TLAPS

\* A request is about an identity or about a state, according to what it asks.
OpToken ==
  \A w \in Workers :
    /\ job[w].op \in {"redeem", "renew", "agent"} => job[w].tok \in Identities
    /\ job[w].op = "callback" => job[w].tok \in States

TypeInv == TypeOK /\ OpToken /\ spent \cap States \subseteq drawn

\* NextTry is an instant.
LEMMA NextTryNat ==
  ASSUME now \in Nat, NEW t \in Nat, NEW from \in Nat
  PROVE  NextTry(t, from) \in Nat
BY DeviceAssumption DEF NextTry

\* A device that gets no certificate is a device still.
LEMMA WithoutCertType ==
  ASSUME now \in Nat, NEW d \in Devs
  PROVE  WithoutCert(d) \in Devs
<1>1. d.till \in Nat /\ d.next \in Nat /\ d.missed \in 0 .. RenewLead
  BY DEF Devs
<1>2. NextTry(d.till, d.next) \in Nat
  BY <1>1, NextTryNat
<1>3. CASE d.pc = "asking"
  BY <1>3 DEF WithoutCert, Devs
<1>4. CASE d.pc = "renewing"
  <2>1. (IF d.missed < RenewLead THEN d.missed + 1 ELSE d.missed) \in 0 .. RenewLead
    BY <1>1, DeviceAssumption
  <2> QED
    BY <1>2, <1>4, <2>1 DEF WithoutCert, Devs
<1>5. CASE d.pc \notin {"asking", "renewing"}
  BY <1>5 DEF WithoutCert
<1> QED
  BY <1>3, <1>4, <1>5

\* A process that starts is a device.
LEMMA StartType ==
  ASSUME NEW how \in {"code", "tunnel", "idp"}
  PROVE  [Off EXCEPT !.pc = "boot", !.how = how] \in Devs
<1>1. 0 \in Nat /\ 0 \in 0 .. RenewLead
  BY DeviceAssumption
<1>2. Off \in Devs
  BY <1>1 DEF Off, Devs
<1> QED
  BY <1>2 DEF Devs

\* A device that has got a certificate.
LEMMA WithCertType ==
  ASSUME now \in Nat, NEW d \in Devs, NEW r \in Jobs
  PROVE  WithCert(d, r) \in Devs
<1>0. r.cert \in Nat /\ r.at \in Nat
  BY DEF Jobs, Free
<1>1. NextTry(r.cert, r.at) \in Nat
  BY <1>0, NextTryNat
<1>2. 0 \in 0 .. RenewLead
  BY DeviceAssumption
<1> QED
  BY <1>0, <1>1, <1>2 DEF WithCert, Devs

\* A device that has got none.
LEMMA DisappointedType ==
  ASSUME BaseTypeOK, DeviceTypeOK, NEW w \in Workers, Disappointed(w)
  PROVE  dev' \in [Identities -> Devs]
<1>1. now \in Nat /\ dev \in [Identities -> Devs] /\ job[w].to \in Identities \cup {None}
  BY DEF BaseTypeOK, DeviceTypeOK, Jobs, Free
<1>2. \A i \in Identities : WithoutCert(dev[i]) \in Devs
  BY <1>1, WithoutCertType
<1> QED
  BY <1>1, <1>2 DEF Disappointed

\* The common shapes of a step of a request.
LEMMA GotoType ==
  ASSUME BaseTypeOK, OpToken, NEW w \in Workers, job[w] # Free, NEW pc \in Steps, Goto(w, pc)
  PROVE  job' \in [Workers -> Jobs] /\ OpToken'
<1>1. job \in [Workers -> Jobs] /\ job[w] \in Jobs
  BY DEF BaseTypeOK
<1>2. [job[w] EXCEPT !.pc = pc] \in Jobs
  BY <1>1 DEF Jobs
<1>3. job' \in [Workers -> Jobs]
  BY <1>1, <1>2 DEF Goto
<1>4. \A v \in Workers : job'[v].op = job[v].op /\ job'[v].tok = job[v].tok
  BY <1>1 DEF Goto, Jobs
<1> QED
  BY <1>3, <1>4 DEF OpToken

\* The signature of a certificate.
LEMMA SignType ==
  ASSUME BaseTypeOK, OpToken, NEW w \in Workers, job[w] # Free, NEW pc \in Steps, SignCSR(w, pc)
  PROVE  job' \in [Workers -> Jobs] /\ OpToken'
<1>1. job \in [Workers -> Jobs] /\ job[w] \in Jobs /\ now + CertTTL \in Nat
  BY DeviceAssumption DEF BaseTypeOK
<1>2. [job[w] EXCEPT !.pc = pc, !.cert = now + CertTTL] \in Jobs
  BY <1>1 DEF Jobs
<1>3. job' = [job EXCEPT ![w] = [job[w] EXCEPT !.pc = pc, !.cert = now + CertTTL]]
  BY <1>1 DEF SignCSR
<1>4. job' \in [Workers -> Jobs]
  BY <1>1, <1>2, <1>3
<1>5. \A v \in Workers : job'[v].op = job[v].op /\ job'[v].tok = job[v].tok
  BY <1>1, <1>3 DEF Jobs
<1> QED
  BY <1>4, <1>5 DEF OpToken

\* A worker that is free again.
LEMMA DoneType ==
  ASSUME BaseTypeOK, OpToken, NEW w \in Workers, Done(w)
  PROVE  job' \in [Workers -> Jobs] /\ OpToken'
<1>1. job \in [Workers -> Jobs] /\ Free \in Jobs
  BY DEF BaseTypeOK, Jobs
<1>2. \A v \in Workers : job'[v] = job[v] \/ job'[v].op = "none"
  BY <1>1 DEF Done, Free
<1> QED
  BY <1>1, <1>2 DEF OpToken, Done

\* A request that ends without a certificate.
LEMMA RefuseType ==
  ASSUME BaseTypeOK, DeviceTypeOK, OpToken, NEW w \in Workers, Refuse(w)
  PROVE  job' \in [Workers -> Jobs] /\ OpToken' /\ dev' \in [Identities -> Devs]
BY DoneType, DisappointedType DEF Refuse

\* The record of a new request.
LEMMA NewJobType ==
  ASSUME BaseTypeOK, OpToken, NEW w \in Workers, NEW r \in Jobs,
         r.op \in {"redeem", "renew", "agent"} => r.tok \in Identities,
         r.op = "callback" => r.tok \in States,
         job' = [job EXCEPT ![w] = r]
  PROVE  job' \in [Workers -> Jobs] /\ OpToken'
<1>1. job \in [Workers -> Jobs]
  BY DEF BaseTypeOK
<1>2. \A v \in Workers : job'[v] = job[v] \/ job'[v] = r
  BY <1>1
<1> QED
  BY <1>1, <1>2 DEF OpToken

\* Requests that see a change of the provider or of the user.
LEMMA SeenType ==
  ASSUME BaseTypeOK, OpToken, NEW l \in BOOLEAN, NEW g \in BOOLEAN, Seen(l, g)
  PROVE  job' \in [Workers -> Jobs] /\ OpToken'
<1>1. job \in [Workers -> Jobs]
  BY DEF BaseTypeOK
<1>2. ASSUME NEW v \in Workers
      PROVE  job'[v] \in Jobs /\ job'[v].op = job[v].op /\ job'[v].tok = job[v].tok
  <2>1. CASE job[v] = Free
    BY <2>1 DEF Seen, Jobs
  <2>2. CASE job[v] # Free
    <3>1. job'[v] = [job[v] EXCEPT !.live = @ \/ l, !.good = @ \/ g]
      BY <2>2 DEF Seen
    <3>2. /\ job[v] \in [op : Ops, pc : Steps, tok : Tokens \cup {None}, to : Identities \cup {None},
                         at : Nat, cert : Nat, live : BOOLEAN, good : BOOLEAN]
      BY <1>1, <2>2 DEF Jobs
    <3>3. (job[v].live \/ l) \in BOOLEAN /\ (job[v].good \/ g) \in BOOLEAN
      BY <3>2
    <3> QED
      BY <3>1, <3>2, <3>3 DEF Jobs
  <2> QED
    BY <2>1, <2>2
<1>3. job' = [v \in Workers |-> job'[v]]
  BY DEF Seen
<1> QED
  BY <1>2, <1>3 DEF OpToken

\* A step that leaves one of the components alone.
LEMMA DeviceSame ==
  ASSUME DeviceTypeOK, UNCHANGED deviceVars
  PROVE  DeviceTypeOK'
BY DEF DeviceTypeOK, deviceVars

\* The login part, when a step leaves it alone.
LEMMA LoginSame ==
  ASSUME LoginTypeOK, spent \cap States \subseteq drawn, UNCHANGED loginVars,
         spent' \cap States = spent \cap States
  PROVE  LoginTypeOK' /\ spent' \cap States \subseteq drawn'
<1>1. /\ cfg' = cfg /\ user' = user /\ store' = store /\ drawn' = drawn /\ born' = born
  BY DEF loginVars
<1> QED
  BY <1>1 DEF LoginTypeOK

\* The steps of Serve.
LEMMA ServeType ==
  ASSUME TypeInv, Serve
  PROVE  TypeInv'
<1> USE DEF TypeInv, TypeOK
<1>0. UNCHANGED loginVars /\ UNCHANGED boundVars
  BY DEF Serve
<1>1. PICK w \in Workers : \/ RedeemSelect(w) \/ RedeemMark(w) \/ RenewCheck(w) \/ RedeemAgent(w)
                           \/ Sign(w) \/ Reply(w) \/ JobFails(w)
  BY DEF Serve
<1>2. {"mark", "sign", "issue", "reply"} \subseteq Steps
  BY DEF Steps
<1>3. Free.pc = "idle" /\ Free.op = "none"
  BY DEF Free
<1>4. SUFFICES BaseTypeOK' /\ DeviceTypeOK' /\ OpToken' /\ spent' \cap States = spent \cap States
  BY <1>0, LoginSame DEF boundVars
<1>5. CASE RedeemSelect(w)
  <2>1. job' \in [Workers -> Jobs] /\ OpToken' /\ dev' \in [Identities -> Devs]
    <3>1. CASE Goto(w, "mark") /\ UNCHANGED dev
      BY <1>2, <1>3, <1>5, <3>1, GotoType DEF RedeemSelect, DeviceTypeOK
    <3>2. CASE Refuse(w)
      BY <3>2, RefuseType
    <3> QED
      BY <1>5, <3>1, <3>2 DEF RedeemSelect
  <2> QED
    BY <1>5, <2>1 DEF RedeemSelect, BaseTypeOK, DeviceTypeOK
<1>6. CASE RedeemMark(w)
  <2>1. job[w].tok \in Identities
    BY <1>6 DEF RedeemMark, OpToken
  <2>2. CASE Marks(job[w].tok)
    <3>1. job' \in [Workers -> Jobs] /\ OpToken'
      BY <1>2, <1>3, <1>6, <2>2, GotoType DEF RedeemMark
    <3>2. spent' \subseteq Tokens /\ spent' \cap States = spent \cap States
      BY <1>6, <2>1, <2>2, TokensAssumption DEF RedeemMark, BaseTypeOK, Tokens
    <3>3. rows' = [rows EXCEPT ![job[w].tok].status = "redeemed"] /\ rows[job[w].tok].status # "none"
      BY <1>6, <2>2 DEF RedeemMark, Marks, Pending
    <3>4. rows' \in [Identities -> Rows] /\ \A i \in Identities : rows'[i].kind = "none" <=> rows'[i].status = "none"
      BY <2>1, <3>3 DEF DeviceTypeOK, Rows
    <3> QED
      BY <1>6, <2>2, <3>1, <3>2, <3>4 DEF RedeemMark, BaseTypeOK, DeviceTypeOK
  <2>3. CASE ~Marks(job[w].tok)
    <3>1. job' \in [Workers -> Jobs] /\ OpToken' /\ dev' \in [Identities -> Devs]
      BY <1>6, <2>3, RefuseType DEF RedeemMark
    <3> QED
      BY <1>6, <2>3, <3>1 DEF RedeemMark, BaseTypeOK, DeviceTypeOK
  <2> QED
    BY <2>2, <2>3
<1>7. CASE RenewCheck(w)
  <2>1. job' \in [Workers -> Jobs] /\ OpToken' /\ dev' \in [Identities -> Devs]
    <3>1. CASE Goto(w, "sign") /\ UNCHANGED dev
      BY <1>2, <1>3, <1>7, <3>1, GotoType DEF RenewCheck, DeviceTypeOK
    <3>2. CASE Refuse(w)
      BY <3>2, RefuseType
    <3> QED
      BY <1>7, <3>1, <3>2 DEF RenewCheck
  <2> QED
    BY <1>7, <2>1 DEF RenewCheck, BaseTypeOK, DeviceTypeOK
<1>8. CASE RedeemAgent(w)
  <2>1. job[w].tok \in Identities
    BY <1>8 DEF RedeemAgent, OpToken
  <2>2. job' \in [Workers -> Jobs] /\ OpToken'
    BY <1>2, <1>3, <1>8, GotoType DEF RedeemAgent
  <2>3. rows' \in [Identities -> Rows] /\ \A i \in Identities : rows'[i].kind = "none" <=> rows'[i].status = "none"
    BY <1>8, <2>1 DEF RedeemAgent, DeviceTypeOK, Rows
  <2> QED
    BY <1>8, <2>2, <2>3 DEF RedeemAgent, BaseTypeOK, DeviceTypeOK
<1>9. CASE Sign(w)
  <2>1. job' \in [Workers -> Jobs] /\ OpToken'
    BY <1>2, <1>3, <1>9, SignType DEF Sign
  <2>2. granted' \in [Tokens -> Nat]
    BY <1>9 DEF Sign, Granting, BaseTypeOK
  <2> QED
    BY <1>9, <2>1, <2>2 DEF Sign, BaseTypeOK, DeviceTypeOK
<1>10. CASE Reply(w)
  <2>1. job' \in [Workers -> Jobs] /\ OpToken'
    BY <1>10, DoneType DEF Reply
  <2>2. \A d \in Devs : WithCert(d, job[w]) \in Devs
    BY WithCertType DEF BaseTypeOK
  <2>3. job[w].to \in Identities \cup {None}
    BY DEF BaseTypeOK, Jobs, Free
  <2>4. dev' \in [Identities -> Devs]
    BY <1>10, <2>2, <2>3 DEF Reply, DeviceTypeOK
  <2> QED
    BY <1>10, <2>1, <2>4 DEF Reply, BaseTypeOK, DeviceTypeOK
<1>11. CASE JobFails(w)
  <2>1. job' \in [Workers -> Jobs] /\ OpToken' /\ dev' \in [Identities -> Devs]
    BY <1>11, RefuseType DEF JobFails
  <2> QED
    BY <1>11, <2>1 DEF JobFails, Fail, BaseTypeOK, DeviceTypeOK
<1> QED
  BY <1>1, <1>5, <1>6, <1>7, <1>8, <1>9, <1>10, <1>11

\* The steps of Device.
LEMMA DeviceType ==
  ASSUME TypeInv, Device
  PROVE  TypeInv'
<1> USE DEF TypeInv, TypeOK
<1>0. UNCHANGED loginVars /\ UNCHANGED boundVars
  BY DEF Device
<1>1. SUFFICES BaseTypeOK' /\ DeviceTypeOK' /\ OpToken' /\ spent' \cap States = spent \cap States
  BY <1>0, LoginSame DEF boundVars
<1>2. PICK i \in Identities :
        \/ CreateEnrollment(i) \/ RevokeDevice(i)
        \/ \E how \in {"code", "tunnel", "idp"} : DeviceStart(i, how)
        \/ \E w \in Workers : FetchCert(w, i) \/ RenewCert(w, i)
        \/ ConnOpen(i) \/ ConnClose(i)
  BY DEF Device
<1>3. CASE CreateEnrollment(i)
  <2>1. [kind |-> "device", code |-> TRUE, status |-> "pending"] \in Rows
    BY DEF Rows
  <2>2. rows' \in [Identities -> Rows] /\ \A j \in Identities : rows'[j].kind = "none" <=> rows'[j].status = "none"
    BY <1>3, <2>1 DEF CreateEnrollment, DeviceTypeOK
  <2> QED
    BY <1>3, <2>2 DEF CreateEnrollment, BaseTypeOK, DeviceTypeOK, OpToken
<1>4. CASE RevokeDevice(i)
  <2>1. rows' \in [Identities -> Rows] /\ \A j \in Identities : rows'[j].kind = "none" <=> rows'[j].status = "none"
    BY <1>4 DEF RevokeDevice, Enrolled, DeviceTypeOK, Rows
  <2> QED
    BY <1>4, <2>1 DEF RevokeDevice, BaseTypeOK, DeviceTypeOK, OpToken
<1>5. ASSUME NEW how \in {"code", "tunnel", "idp"}, DeviceStart(i, how)
      PROVE  BaseTypeOK' /\ DeviceTypeOK' /\ OpToken' /\ spent' \cap States = spent \cap States
  <2>1. [Off EXCEPT !.pc = "boot", !.how = how] \in Devs
    BY StartType
  <2>2. dev' \in [Identities -> Devs]
    BY <1>5, <2>1 DEF DeviceStart, DeviceTypeOK
  <2> QED
    BY <1>5, <2>2 DEF DeviceStart, BaseTypeOK, DeviceTypeOK, OpToken
<1>6. \A w \in Workers : \A op \in {"redeem", "renew"} : \A pc \in {"select", "check"} :
        Request(w, op, pc, i) => job' \in [Workers -> Jobs] /\ OpToken'
  <2> SUFFICES ASSUME NEW w \in Workers, NEW op \in {"redeem", "renew"}, NEW pc \in {"select", "check"},
                      Request(w, op, pc, i)
               PROVE  job' \in [Workers -> Jobs] /\ OpToken'
    OBVIOUS
  <2> DEFINE r == [Free EXCEPT !.op = op, !.pc = pc, !.tok = i, !.to = i, !.at = now]
  <2>1. r \in Jobs /\ r.tok \in Identities /\ r.op # "callback"
    BY DEF Free, Jobs, Ops, Steps, Tokens, BaseTypeOK
  <2>2. job' = [job EXCEPT ![w] = r]
    BY DEF Request
  <2> HIDE DEF r
  <2> QED
    BY <2>1, <2>2, NewJobType
<1>7. ASSUME NEW w \in Workers, FetchCert(w, i)
      PROVE  BaseTypeOK' /\ DeviceTypeOK' /\ OpToken' /\ spent' \cap States = spent \cap States
  <2>1. dev' \in [Identities -> Devs]
    BY <1>7 DEF FetchCert, DeviceTypeOK, Devs
  <2> QED
    BY <1>6, <1>7, <2>1 DEF FetchCert, BaseTypeOK, DeviceTypeOK
<1>8. ASSUME NEW w \in Workers, RenewCert(w, i)
      PROVE  BaseTypeOK' /\ DeviceTypeOK' /\ OpToken' /\ spent' \cap States = spent \cap States
  <2>0. now \in Nat /\ dev[i].till \in Nat
    BY DEF BaseTypeOK, DeviceTypeOK, Devs
  <2>1. NextTry(dev[i].till, now) \in Nat /\ RenewLead \in 0 .. RenewLead
    <3>1. NextTry(dev[i].till, now) \in Nat
      BY <2>0, NextTryNat
    <3>2. RenewLead \in 0 .. RenewLead
      BY DeviceAssumption
    <3> QED
      BY <3>1, <3>2
  <2>2. dev' \in [Identities -> Devs]
    <3>1. dev \in [Identities -> Devs] /\ dev[i] \in Devs
      BY DEF DeviceTypeOK
    <3>2. [dev[i] EXCEPT !.pc = "renewing"] \in Devs
      BY <3>1 DEF Devs
    <3>3. [dev[i] EXCEPT !.next = NextTry(dev[i].till, now), !.missed = RenewLead] \in Devs
      BY <2>1, <3>1 DEF Devs
    <3> QED
      BY <1>8, <3>1, <3>2, <3>3 DEF RenewCert
  <2>3. job' \in [Workers -> Jobs] /\ OpToken'
    BY <1>6, <1>8 DEF RenewCert, BaseTypeOK, OpToken
  <2> QED
    BY <1>8, <2>2, <2>3 DEF RenewCert, BaseTypeOK, DeviceTypeOK
<1>9. CASE ConnOpen(i)
  <2>1. dev' \in [Identities -> Devs]
    BY <1>9 DEF ConnOpen, BaseTypeOK, DeviceTypeOK, Devs
  <2> QED
    BY <1>9, <2>1 DEF ConnOpen, BaseTypeOK, DeviceTypeOK, OpToken
<1>10. CASE ConnClose(i)
  <2>1. dev' \in [Identities -> Devs]
    BY <1>10 DEF ConnClose, DeviceTypeOK, Devs
  <2>2. fails' \in Nat
    BY <1>10 DEF ConnClose, Fail, BaseTypeOK
  <2> QED
    BY <1>10, <2>1, <2>2 DEF ConnClose, BaseTypeOK, DeviceTypeOK, OpToken
<1> QED
  BY <1>2, <1>3, <1>4, <1>5, <1>7, <1>8, <1>9, <1>10

\* A new login, callback or enrolment of an agent.
LEMMA BeginType ==
  ASSUME BaseTypeOK, OpToken, NEW w \in Workers,
         NEW op \in {"login", "callback", "agent"}, NEW tok \in Tokens \cup {None},
         NEW to \in Identities \cup {None},
         op = "agent" => tok \in Identities, op = "callback" => tok \in States,
         Begin(w, op, tok, to)
  PROVE  job' \in [Workers -> Jobs] /\ OpToken'
<1> DEFINE r == [op |-> op, pc |-> "cfg", tok |-> tok, to |-> to, at |-> now, cert |-> 0,
                 live |-> cfg = "active", good |-> user # "disabled"]
<1>1. r \in Jobs
  <2>1. op \in Ops /\ "cfg" \in Steps /\ now \in Nat
    BY DEF Ops, Steps, BaseTypeOK
  <2>2. (cfg = "active") \in BOOLEAN /\ (user # "disabled") \in BOOLEAN
    OBVIOUS
  <2> QED
    BY <2>1, <2>2 DEF Jobs
<1>2. r.op = op /\ r.tok = tok
  OBVIOUS
<1>3. job' = [job EXCEPT ![w] = r]
  BY DEF Begin
<1> HIDE DEF r
<1> QED
  BY <1>1, <1>2, <1>3, NewJobType

\* The steps of Login.
LEMMA LoginType ==
  ASSUME TypeInv, Login
  PROVE  TypeInv'
<1> USE DEF TypeInv, TypeOK
<1>0. UNCHANGED deviceVars /\ UNCHANGED boundVars
  BY DEF Login
<1>1. SUFFICES BaseTypeOK' /\ LoginTypeOK' /\ OpToken' /\ spent' \cap States \subseteq drawn'
  BY <1>0, DeviceSame DEF boundVars
<1>2. PICK w \in Workers :
        \/ LoginBegin(w) \/ PassConfig(w) \/ PassSecret(w) \/ PutState(w)
        \/ \E s \in States : TakeOnce(w, s)
        \/ Exchange(w) \/ EnsureUser(w) \/ IssueCredential(w)
  BY DEF Login
<1>3. Free.pc = "idle"
  BY DEF Free
<1>4. {"secret", "put", "exchange", "ensure", "upsert", "issue", "reply"} \subseteq Steps
  BY DEF Steps
<1>5. CASE LoginBegin(w)
  <2>1. job' \in [Workers -> Jobs] /\ OpToken'
    BY <1>5, BeginType DEF LoginBegin
  <2> QED
    BY <1>5, <2>1, LoginSame DEF LoginBegin, BaseTypeOK
<1>6. CASE PassConfig(w) \/ PassSecret(w) \/ Exchange(w)
  <2>1. \E pc \in Steps : Goto(w, pc) /\ job[w] # Free
    BY <1>3, <1>4, <1>6 DEF PassConfig, PassSecret, Exchange
  <2>2. job' \in [Workers -> Jobs] /\ OpToken'
    BY <2>1, GotoType
  <2>3. UNCHANGED <<now, fails, spent, granted, loginVars>>
    BY <1>6 DEF PassConfig, PassSecret, Exchange
  <2> QED
    BY <2>2, <2>3, LoginSame DEF BaseTypeOK
<1>7. CASE PutState(w)
  <2>1. job' \in [Workers -> Jobs] /\ OpToken'
    BY <1>7, DoneType DEF PutState
  <2>2. PICK s \in States \ drawn : /\ store' = store \cup {s} /\ drawn' = drawn \cup {s}
                                    /\ born' = [born EXCEPT ![s] = now]
    BY <1>7 DEF PutState
  <2>3. LoginTypeOK' /\ spent' \cap States \subseteq drawn'
    BY <1>7, <2>2 DEF PutState, LoginTypeOK, BaseTypeOK
  <2> QED
    BY <1>7, <2>1, <2>3 DEF PutState, BaseTypeOK
<1>8. ASSUME NEW s \in States, TakeOnce(w, s)
      PROVE  BaseTypeOK' /\ LoginTypeOK' /\ OpToken' /\ spent' \cap States \subseteq drawn'
  <2>1. s \in store /\ s \in drawn /\ s \in Tokens /\ store' = store \ {s} /\ UNCHANGED <<now, fails, granted, cfg, user, drawn, born>>
    BY <1>8 DEF TakeOnce, Remains, LoginTypeOK, Tokens
  <2>2. CASE Expired(s)
    BY <1>8, <2>1, <2>2 DEF TakeOnce, BaseTypeOK, LoginTypeOK, OpToken
  <2>3. CASE ~Expired(s)
    <3>1. spent' = spent \cup {s} /\ Begin(w, "callback", s, None)
      BY <1>8, <2>3 DEF TakeOnce
    <3>2. job' \in [Workers -> Jobs] /\ OpToken'
      BY <2>1, <3>1, BeginType
    <3> QED
      BY <2>1, <3>1, <3>2 DEF BaseTypeOK, LoginTypeOK
  <2> QED
    BY <2>2, <2>3
<1>9. CASE EnsureUser(w)
  <2>1. job' \in [Workers -> Jobs] /\ OpToken'
    BY <1>3, <1>4, <1>9, GotoType DEF EnsureUser
  <2> QED
    BY <1>9, <2>1 DEF EnsureUser, BaseTypeOK, LoginTypeOK
<1>10. CASE IssueCredential(w)
  <2>1. job' \in [Workers -> Jobs] /\ OpToken'
    BY <1>3, <1>4, <1>10, GotoType, DoneType DEF IssueCredential
  <2>2. granted' \in [Tokens -> Nat]
    BY <1>10 DEF IssueCredential, Granting, BaseTypeOK
  <2>3. UNCHANGED <<now, fails, spent, loginVars>>
    BY <1>10 DEF IssueCredential
  <2> QED
    BY <2>1, <2>2, <2>3, LoginSame DEF BaseTypeOK
<1> QED
  BY <1>2, <1>5, <1>6, <1>7, <1>8, <1>9, <1>10

\* The steps of Administer, and of the janitor.
LEMMA AdministerType ==
  ASSUME TypeInv, Administer \/ Collect
  PROVE  TypeInv'
<1> USE DEF TypeInv, TypeOK
<1>0. UNCHANGED deviceVars /\ UNCHANGED boundVars
  BY DEF Administer, Collect
<1>1. SUFFICES BaseTypeOK' /\ LoginTypeOK' /\ OpToken' /\ spent' \cap States \subseteq drawn'
  BY <1>0, DeviceSame DEF boundVars
<1>2. CASE CreateIDP \/ UpdateIDP
  <2>1. \E l \in BOOLEAN : Seen(l, FALSE)
    BY <1>2 DEF CreateIDP, UpdateIDP
  <2>2. job' \in [Workers -> Jobs] /\ OpToken'
    BY <2>1, SeenType
  <2> QED
    BY <1>2, <2>2 DEF CreateIDP, UpdateIDP, BaseTypeOK, LoginTypeOK
<1>3. CASE DeleteIDP
  BY <1>3 DEF DeleteIDP, BaseTypeOK, LoginTypeOK, OpToken
<1>4. CASE SetUserStatus
  <2>1. \E g \in BOOLEAN : Seen(FALSE, g)
    BY <1>4 DEF SetUserStatus
  <2>2. job' \in [Workers -> Jobs] /\ OpToken'
    BY <2>1, SeenType
  <2> QED
    BY <1>4, <2>2 DEF SetUserStatus, BaseTypeOK, LoginTypeOK
<1>5. CASE Janitor
  BY <1>5 DEF Janitor, BaseTypeOK, LoginTypeOK, OpToken
<1> QED
  BY <1>2, <1>3, <1>4, <1>5 DEF Administer, Collect

\* The steps that concern both components.
LEMMA JointType ==
  ASSUME TypeInv,
         \/ ServerRestart
         \/ \E w \in Workers : HandlerStops(w) \/ \E i \in Identities : AgentEnroll(w, i)
         \/ \E i \in Identities : Restart(i)
  PROVE  TypeInv'
<1> USE DEF TypeInv, TypeOK
<1>1. CASE ServerRestart
  <2>1. job' \in [Workers -> Jobs] /\ OpToken'
    BY <1>1 DEF ServerRestart, Jobs, Free, OpToken
  <2>2. dev' \in [Identities -> Devs]
    BY <1>1, WithoutCertType DEF ServerRestart, BaseTypeOK, DeviceTypeOK
  <2> QED
    BY <1>1, <2>1, <2>2 DEF ServerRestart, BaseTypeOK, DeviceTypeOK, LoginTypeOK
<1>2. ASSUME NEW w \in Workers, HandlerStops(w)
      PROVE  TypeInv'
  <2>1. job' \in [Workers -> Jobs] /\ OpToken' /\ dev' \in [Identities -> Devs]
    BY <1>2, RefuseType DEF HandlerStops
  <2>2. LoginTypeOK' /\ spent' \cap States \subseteq drawn'
    BY <1>2, LoginSame DEF HandlerStops
  <2> QED
    BY <1>2, <2>1, <2>2 DEF HandlerStops, BaseTypeOK, DeviceTypeOK, boundVars
<1>3. ASSUME NEW w \in Workers, NEW i \in Identities, AgentEnroll(w, i)
      PROVE  TypeInv'
  <2>1. job' \in [Workers -> Jobs] /\ OpToken'
    BY <1>3, BeginType DEF AgentEnroll, Tokens
  <2>2. dev' \in [Identities -> Devs]
    BY <1>3 DEF AgentEnroll, DeviceTypeOK, Devs
  <2>3. LoginTypeOK' /\ spent' \cap States \subseteq drawn'
    BY <1>3, LoginSame DEF AgentEnroll
  <2> QED
    BY <1>3, <2>1, <2>2, <2>3 DEF AgentEnroll, BaseTypeOK, DeviceTypeOK, boundVars
<1>4. ASSUME NEW i \in Identities, Restart(i)
      PROVE  TypeInv'
  <2>1. \A w \in Workers : [job[w] EXCEPT !.to = None] \in Jobs \/ job[w] = Free
    BY DEF BaseTypeOK, Jobs
  <2>2. ASSUME NEW w \in Workers
        PROVE  job'[w] \in Jobs /\ job'[w].op = job[w].op /\ job'[w].tok = job[w].tok
    <3>1. job[w] \in Jobs /\ Free.to = None
      BY DEF BaseTypeOK, Free
    <3>2. i # None
      BY TokensAssumption DEF Tokens
    <3> QED
      BY <1>4, <2>1, <3>1, <3>2 DEF Restart, DeviceRestart, Jobs
  <2>3. job' \in [Workers -> Jobs] /\ OpToken'
    BY <1>4, <2>2 DEF Restart, DeviceRestart, OpToken
  <2>4. dev' \in [Identities -> Devs]
    <3>1. dev \in [Identities -> Devs] /\ dev[i].how \in {"code", "tunnel", "idp"}
      BY DEF DeviceTypeOK, Devs
    <3>2. [Off EXCEPT !.pc = "boot", !.how = dev[i].how] \in Devs
      BY <3>1, StartType
    <3> QED
      BY <1>4, <3>1, <3>2 DEF Restart, DeviceRestart
  <2>5. LoginTypeOK' /\ spent' \cap States \subseteq drawn'
    BY <1>4, LoginSame DEF Restart, DeviceRestart
  <2>6. restarts' \in Nat /\ env' \in Environments
    BY <1>4 DEF Restart
  <2>7. BaseTypeOK' /\ DeviceTypeOK'
    BY <1>4, <2>3, <2>4 DEF Restart, DeviceRestart, BaseTypeOK, DeviceTypeOK
  <2> QED
    BY <2>3, <2>5, <2>6, <2>7
<1> QED
  BY <1>1, <1>2, <1>3, <1>4

\* The types hold at the start.
LEMMA TypeInit == Init => TypeInv
<1> SUFFICES ASSUME Init PROVE TypeInv
  OBVIOUS
<1>1. BaseTypeOK /\ OpToken /\ restarts \in Nat
  BY EnrollAssumption DEF Init, BaseInit, BaseTypeOK, OpToken, Jobs, Free
<1>2. DeviceTypeOK
  <2>1. 0 \in Nat /\ 0 \in 0 .. RenewLead
    BY DeviceAssumption
  <2>2. Off \in Devs /\ NoRow \in Rows
    BY <2>1 DEF Off, Devs, NoRow, Rows
  <2> QED
    BY <2>2 DEF Init, DeviceInit, DeviceTypeOK, NoRow
<1>3. LoginTypeOK /\ spent \cap States \subseteq drawn
  BY DEF Init, LoginInit, BaseInit, LoginTypeOK
<1> QED
  BY <1>1, <1>2, <1>3 DEF Init, TypeInv, TypeOK

\* And every step keeps them.
LEMMA TypeStep == TypeInv /\ [Next]_vars => TypeInv'
<1> SUFFICES ASSUME TypeInv, [Next]_vars PROVE TypeInv'
  OBVIOUS
<1>1. CASE Tick
  BY <1>1, DeviceSame, LoginSame DEF Tick, TypeInv, TypeOK, BaseTypeOK, OpToken, boundVars
<1>2. CASE UNCHANGED vars
  BY <1>2, DeviceSame, LoginSame DEF vars, baseVars, boundVars, TypeInv, TypeOK, BaseTypeOK, OpToken
<1> QED
  BY <1>1, <1>2, DeviceType, ServeType, AdministerType, LoginType, JointType DEF Next

(***************************************************************************)
(* The variables of enrolment keep their types; among them, no login state *)
(* stays in the store once it has been taken (TakeOnce), and no row is     *)
(* half made (CreateEnrollment, RedeemAgent).                              *)
(***************************************************************************)
THEOREM TypeCorrect == Spec => []TypeOK
<1>1. TypeInv => TypeOK
  BY DEF TypeInv
<1> QED
  BY <1>1, TypeInit, TypeStep, PTL DEF Spec

-----------------------------------------------------------------------------
(***************************************************************************)
(* Enroll implements OneTime.  The inductive invariant says who may still  *)
(* grant: the request that spent a secret, and no other, and only while    *)
(* nothing has been granted for it.                                        *)
(***************************************************************************)

\* The request has spent its secret and has not granted anything yet.
Holds(w) == (job[w].op = "redeem" /\ job[w].pc = "sign") \/ job[w].op = "callback"

TokenInv ==
  /\ \A w \in Workers : Holds(w) => job[w].tok \in spent /\ granted[job[w].tok] = 0
  /\ \A v, w \in Workers : v # w /\ Holds(v) /\ Holds(w) => job[v].tok # job[w].tok
  /\ \A t \in Tokens \ spent : granted[t] = 0
  /\ \A i \in Identities : rows[i].status \in {"none", "pending"} => i \notin spent
  /\ \A i \in Identities : rows[i].status = "none" => ~rows[i].code

NoNewHolder == \A w \in Workers : Holds(w)' => Holds(w) /\ job'[w].tok = job[w].tok

AbstractStep == [Secrets!Next]_(Secrets!vars)

\* A step that touches no secret.
LEMMA QuietStep ==
  ASSUME TokenInv, NoNewHolder, UNCHANGED <<spent, granted, rows, drawn, store>>
  PROVE  TokenInv' /\ AbstractStep
<1>1. TokenInv'
  BY DEF TokenInv, NoNewHolder
<1>2. Phase' = Phase
  BY DEF Phase, CodePhase, StatePhase
<1> QED
  BY <1>1, <1>2 DEF AbstractStep, Secrets!vars

\* A request that moves on, other than by spending a code, holds nothing new.
LEMMA GotoHolder ==
  ASSUME TypeInv, NEW w \in Workers, NEW pc \in Steps, Goto(w, pc),
         job[w].op = "redeem" => pc # "sign"
  PROVE  NoNewHolder
<1>1. job \in [Workers -> Jobs]
  BY DEF TypeInv, TypeOK, BaseTypeOK
<1>2. \A v \in Workers : job'[v].op = job[v].op /\ job'[v].tok = job[v].tok /\ (v # w => job'[v] = job[v])
  BY <1>1 DEF Goto, Jobs
<1>3. job[w].op = "redeem" => job'[w].pc # "sign"
  BY <1>1 DEF Goto, Jobs, Free
<1> QED
  BY <1>2, <1>3 DEF NoNewHolder, Holds

\* Nor does a request whose certificate is signed.
LEMMA SignHolder ==
  ASSUME TypeInv, NEW w \in Workers, NEW pc \in Steps, SignCSR(w, pc), pc # "sign"
  PROVE  NoNewHolder /\ job'[w].pc = pc /\ job'[w].op = job[w].op
<1>1. job \in [Workers -> Jobs]
  BY DEF TypeInv, TypeOK, BaseTypeOK
<1>2. job' = [job EXCEPT ![w] = [job[w] EXCEPT !.pc = pc, !.cert = now + CertTTL]]
  BY <1>1 DEF SignCSR
<1>3. \A v \in Workers : job'[v].op = job[v].op /\ job'[v].tok = job[v].tok /\ (v # w => job'[v] = job[v])
  BY <1>1, <1>2 DEF Jobs
<1>4. job'[w].pc = pc
  BY <1>1, <1>2 DEF Jobs, Free
<1> QED
  BY <1>3, <1>4 DEF NoNewHolder, Holds

\* Neither does a request that ends.
LEMMA DoneHolder ==
  ASSUME TypeInv, NEW w \in Workers, Done(w)
  PROVE  NoNewHolder
<1>1. job \in [Workers -> Jobs]
  BY DEF TypeInv, TypeOK, BaseTypeOK
<1>2. \A v \in Workers : job'[v] = job[v] \/ job'[v] = Free
  BY <1>1 DEF Done
<1> QED
  BY <1>2 DEF NoNewHolder, Holds, Free

\* A record that is written for one request and holds nothing.
LEMMA NewHolder ==
  ASSUME TypeInv, NEW w \in Workers, NEW r, r.op # "callback", r.op = "redeem" => r.pc # "sign",
         job' = [job EXCEPT ![w] = r]
  PROVE  NoNewHolder
<1>1. job \in [Workers -> Jobs]
  BY DEF TypeInv, TypeOK, BaseTypeOK
<1>2. \A v \in Workers : job'[v] = job[v] \/ job'[v] = r
  BY <1>1
<1> QED
  BY <1>2 DEF NoNewHolder, Holds

\* Nor do requests that see a change.
LEMMA SeenHolder ==
  ASSUME TypeInv, NEW l, NEW g, Seen(l, g)
  PROVE  NoNewHolder
<1>1. job \in [Workers -> Jobs]
  BY DEF TypeInv, TypeOK, BaseTypeOK
<1>2. \A v \in Workers : job'[v].op = job[v].op /\ job'[v].tok = job[v].tok /\ job'[v].pc = job[v].pc
  BY <1>1 DEF Seen, Jobs
<1> QED
  BY <1>2 DEF NoNewHolder, Holds

\* Nor a step without requests.
LEMMA SameHolder ==
  ASSUME UNCHANGED job
  PROVE  NoNewHolder
BY DEF NoNewHolder, Holds

\* How a step on one secret, or on some, is a step of OneTime.
LEMMA IssueStep ==
  ASSUME NEW t \in Tokens, Phase[t] = "unissued", Phase'[t] = "open",
         \A u \in Tokens \ {t} : Phase'[u] = Phase[u], granted' = granted
  PROVE  AbstractStep
<1>1. Phase' = [Phase EXCEPT ![t] = "open"]
  BY DEF Phase
<1> QED
  BY <1>1 DEF AbstractStep, Secrets!Next, Secrets!Issue

\* One bearer spends a secret.
LEMMA SpendStep ==
  ASSUME NEW t \in Tokens, Phase[t] = "open", Phase'[t] = "spent",
         \A u \in Tokens \ {t} : Phase'[u] = Phase[u], granted' = granted
  PROVE  AbstractStep
<1>1. Phase' = [Phase EXCEPT ![t] = "spent"]
  BY DEF Phase
<1> QED
  BY <1>1 DEF AbstractStep, Secrets!Next, Secrets!Spend

\* The bearer of a spent secret gets what it stands for.
LEMMA GrantStep ==
  ASSUME NEW t \in Tokens, t \in spent, granted[t] = 0, granted \in [Tokens -> Nat], Granting(t),
         UNCHANGED <<spent, rows, drawn, store>>
  PROVE  AbstractStep
<1>1. Phase' = Phase /\ Phase[t] = "spent"
  BY DEF Phase, CodePhase, StatePhase
<1>2. granted' = [granted EXCEPT ![t] = 1]
  BY DEF Granting
<1> QED
  BY <1>1, <1>2 DEF AbstractStep, Secrets!Next, Secrets!Grant

\* Some secrets become void.
LEMMA VoidStep ==
  ASSUME NEW S \in SUBSET Tokens, \A t \in S : Phase[t] = "open" /\ Phase'[t] = "void",
         \A u \in Tokens \ S : Phase'[u] = Phase[u], granted' = granted
  PROVE  AbstractStep
<1>1. Phase' = [t \in Tokens |-> IF t \in S THEN "void" ELSE Phase[t]]
  BY DEF Phase
<1> QED
  BY <1>1 DEF AbstractStep, Secrets!Next, Secrets!MakeVoid

\* The steps of Serve.
LEMMA ServeTokens ==
  ASSUME TypeInv, TokenInv, Serve
  PROVE  TokenInv' /\ AbstractStep
<1>0. UNCHANGED <<drawn, store>>
  BY DEF Serve, loginVars
<1>1. PICK w \in Workers : \/ RedeemSelect(w) \/ RedeemMark(w) \/ RenewCheck(w) \/ RedeemAgent(w)
                           \/ Sign(w) \/ Reply(w) \/ JobFails(w)
  BY DEF Serve
<1>2. {"mark", "sign", "issue", "reply"} \subseteq Steps
  BY DEF Steps
<1>3. /\ job \in [Workers -> Jobs] /\ granted \in [Tokens -> Nat] /\ rows \in [Identities -> Rows]
      /\ store \subseteq drawn /\ drawn \subseteq States
  BY DEF TypeInv, TypeOK, BaseTypeOK, DeviceTypeOK, LoginTypeOK
<1>4. Identities \subseteq Tokens /\ Identities \cap States = {}
  BY TokensAssumption DEF Tokens
<1>5. CASE RedeemSelect(w) \/ RenewCheck(w) \/ Reply(w) \/ JobFails(w)
  <2>1. NoNewHolder
    BY <1>2, <1>5, GotoHolder, DoneHolder DEF RedeemSelect, RenewCheck, Reply, JobFails, Refuse
  <2>2. UNCHANGED <<spent, granted, rows>>
    BY <1>5 DEF RedeemSelect, RenewCheck, Reply, JobFails
  <2> QED
    BY <1>0, <2>1, <2>2, QuietStep
<1>6. CASE RedeemMark(w)
  <2> DEFINE i == job[w].tok
  <2>1. i \in Identities
    BY <1>6 DEF RedeemMark, TypeInv, OpToken
  <2>2. CASE ~Marks(i)
    <3>1. NoNewHolder
      BY <1>6, <2>2, DoneHolder DEF RedeemMark, Refuse
    <3> QED
      BY <1>0, <1>6, <2>2, <3>1, QuietStep DEF RedeemMark
  <2>3. CASE Marks(i)
    <3>1. /\ rows' = [rows EXCEPT ![i].status = "redeemed"] /\ spent' = spent \cup {i} /\ granted' = granted
          /\ job' = [job EXCEPT ![w].pc = "sign"]
      BY <1>6, <2>3 DEF RedeemMark, Goto
    <3>2. rows[i].code /\ rows[i].status = "pending" /\ i \notin spent
      BY <2>1, <2>3 DEF Marks, Pending, TokenInv
    <3>3. \A v \in Workers : Holds(v)' => job'[v].tok = job[v].tok /\ (v # w => Holds(v))
      BY <1>3, <3>1 DEF Holds, Jobs
    <3>4. \A v \in Workers : Holds(v) => job[v].tok # i /\ job[v].tok \in spent
      BY <3>2 DEF TokenInv
    <3>5. \A j \in Identities : j # i => rows'[j] = rows[j]
      BY <1>3, <2>1, <3>1
    <3>6. rows'[i].status = "redeemed" /\ rows'[i].code = rows[i].code
      BY <1>3, <2>1, <3>1 DEF Rows
    <3>7. granted[i] = 0
      BY <1>4, <2>1, <3>2 DEF TokenInv
    <3>8. TokenInv'
      BY <3>1, <3>2, <3>3, <3>4, <3>5, <3>6, <3>7 DEF TokenInv
    <3>9. Phase[i] = "open" /\ Phase'[i] = "spent"
      BY <1>4, <2>1, <3>1, <3>2 DEF Phase, CodePhase
    <3>10. \A u \in Tokens \ {i} : Phase'[u] = Phase[u]
      BY <1>0, <3>1, <3>5 DEF Phase, CodePhase, StatePhase
    <3> QED
      BY <1>4, <2>1, <3>1, <3>8, <3>9, <3>10, SpendStep
  <2> QED
    BY <2>2, <2>3
<1>7. CASE RedeemAgent(w)
  <2> DEFINE i == job[w].tok
  <2>1. i \in Identities
    BY <1>7 DEF RedeemAgent, TypeInv, OpToken
  <2>2. NoNewHolder
    BY <1>2, <1>7, GotoHolder DEF RedeemAgent
  <2>3. /\ rows' = [rows EXCEPT ![i] = [kind |-> "agent", code |-> rows[i].code, status |-> "redeemed"]]
        /\ spent' = spent /\ granted' = granted
    BY <1>7 DEF RedeemAgent
  <2>4. \A j \in Identities : j # i => rows'[j] = rows[j]
    BY <1>3, <2>1, <2>3
  <2>5. rows'[i].status = "redeemed" /\ rows'[i].code = rows[i].code
    BY <1>3, <2>1, <2>3
  <2>6. TokenInv'
    BY <2>2, <2>3, <2>4, <2>5 DEF TokenInv, NoNewHolder
  <2>7. \A u \in Tokens \ {i} : Phase'[u] = Phase[u]
    BY <1>0, <2>3, <2>4 DEF Phase, CodePhase, StatePhase
  <2>8. CASE Phase[i] = "open"
    <3>1. Phase'[i] = "void"
      BY <1>4, <2>1, <2>3, <2>5, <2>8 DEF Phase, CodePhase
    <3> DEFINE S == {i}
    <3>2. /\ S \in SUBSET Tokens /\ \A t \in S : Phase[t] = "open" /\ Phase'[t] = "void"
          /\ \A u \in Tokens \ S : Phase'[u] = Phase[u]
      BY <1>4, <2>1, <2>7, <2>8, <3>1
    <3> HIDE DEF S
    <3> QED
      BY <2>3, <2>6, <3>2, VoidStep
  <2>9. CASE Phase[i] # "open"
    <3>1. Phase'[i] = Phase[i]
      BY <1>4, <2>1, <2>3, <2>5, <2>9 DEF Phase, CodePhase
    <3>2. Phase' = Phase
      BY <2>7, <3>1 DEF Phase
    <3> QED
      BY <2>3, <2>6, <3>2 DEF AbstractStep, Secrets!vars
  <2> QED
    BY <2>8, <2>9
<1>8. CASE Sign(w)
  <2>1. NoNewHolder /\ job'[w].pc # "sign" /\ job'[w].op = job[w].op
    BY <1>2, <1>8, SignHolder DEF Sign
  <2>2. CASE job[w].op # "redeem"
    BY <1>0, <1>8, <2>1, <2>2, QuietStep DEF Sign
  <2>3. CASE job[w].op = "redeem"
    <3>1. Holds(w) /\ ~Holds(w)'
      BY <1>8, <2>1, <2>3 DEF Sign, Holds
    <3>2. /\ job[w].tok \in Tokens /\ job[w].tok \in spent /\ granted[job[w].tok] = 0
          /\ Granting(job[w].tok) /\ UNCHANGED <<spent, rows>>
      BY <1>4, <1>8, <2>3, <3>1 DEF Sign, TypeInv, OpToken, TokenInv
    <3>3. \A v \in Workers : Holds(v)' => v # w /\ Holds(v) /\ job'[v].tok = job[v].tok
      BY <2>1, <3>1 DEF NoNewHolder
    <3>4. \A v \in Workers : Holds(v)' => job'[v].tok \in spent /\ granted'[job'[v].tok] = 0
      BY <1>3, <3>1, <3>2, <3>3 DEF TokenInv, Granting
    <3>5. TokenInv'
      BY <1>3, <3>2, <3>3, <3>4 DEF TokenInv, Granting
    <3> QED
      BY <1>0, <1>3, <3>2, <3>5, GrantStep
  <2> QED
    BY <2>2, <2>3
<1> QED
  BY <1>1, <1>5, <1>6, <1>7, <1>8

\* The steps of Device.
LEMMA DeviceTokens ==
  ASSUME TypeInv, TokenInv, Device
  PROVE  TokenInv' /\ AbstractStep
<1>0. UNCHANGED <<drawn, store>>
  BY DEF Device, loginVars
<1>1. PICK i \in Identities :
        \/ CreateEnrollment(i) \/ RevokeDevice(i)
        \/ \E how \in {"code", "tunnel", "idp"} : DeviceStart(i, how)
        \/ \E w \in Workers : FetchCert(w, i) \/ RenewCert(w, i)
        \/ ConnOpen(i) \/ ConnClose(i)
  BY DEF Device
<1>2. rows \in [Identities -> Rows] /\ i \in Tokens /\ Identities \cap States = {}
  BY TokensAssumption DEF TypeInv, TypeOK, DeviceTypeOK, Tokens
<1>3. CASE CreateEnrollment(i)
  <2>1. /\ rows[i].status = "none" /\ spent' = spent /\ granted' = granted /\ job' = job
        /\ rows' = [rows EXCEPT ![i] = [kind |-> "device", code |-> TRUE, status |-> "pending"]]
    BY <1>3 DEF CreateEnrollment
  <2>2. i \notin spent /\ ~rows[i].code
    BY <2>1 DEF TokenInv
  <2>3. /\ \A j \in Identities : j # i => rows'[j] = rows[j]
        /\ rows'[i].status = "pending" /\ rows'[i].code
    BY <1>2, <2>1
  <2>4. TokenInv'
    BY <2>1, <2>2, <2>3 DEF TokenInv, Holds
  <2>5. Phase[i] = "unissued" /\ Phase'[i] = "open"
    BY <1>2, <2>1, <2>2, <2>3 DEF Phase, CodePhase
  <2>6. \A u \in Tokens \ {i} : Phase'[u] = Phase[u]
    BY <1>0, <2>1, <2>3 DEF Phase, CodePhase, StatePhase
  <2> QED
    BY <1>2, <2>1, <2>4, <2>5, <2>6, IssueStep
<1>4. CASE RevokeDevice(i)
  <2>1. /\ rows[i].status = "redeemed" /\ spent' = spent /\ granted' = granted /\ job' = job
        /\ rows' = [rows EXCEPT ![i].status = "revoked"]
    BY <1>4 DEF RevokeDevice, Enrolled
  <2>2. /\ \A j \in Identities : j # i => rows'[j] = rows[j]
        /\ rows'[i].status = "revoked" /\ rows'[i].code = rows[i].code
    BY <1>2, <2>1 DEF Rows
  <2>3. TokenInv'
    BY <2>1, <2>2 DEF TokenInv, Holds
  <2>4. Phase' = Phase
    BY <1>0, <2>1, <2>2 DEF Phase, CodePhase, StatePhase
  <2> QED
    BY <2>1, <2>3, <2>4 DEF AbstractStep, Secrets!vars
<1>5. CASE ConnOpen(i) \/ ConnClose(i) \/ \E how \in {"code", "tunnel", "idp"} : DeviceStart(i, how)
  BY <1>0, <1>5, SameHolder, QuietStep DEF ConnOpen, ConnClose, DeviceStart
<1>6. ASSUME NEW w \in Workers, FetchCert(w, i) \/ RenewCert(w, i)
      PROVE  TokenInv' /\ AbstractStep
  <2>1. UNCHANGED <<spent, granted, rows>>
    BY <1>6 DEF FetchCert, RenewCert
  <2>2. CASE UNCHANGED job
    BY <1>0, <2>1, <2>2, SameHolder, QuietStep
  <2>3. ASSUME NEW op \in {"redeem", "renew"}, NEW pc \in {"select", "check"}, Request(w, op, pc, i)
        PROVE  NoNewHolder
    <3> DEFINE r == [Free EXCEPT !.op = op, !.pc = pc, !.tok = i, !.to = i, !.at = now]
    <3>1. r.op = op /\ r.pc = pc /\ job' = [job EXCEPT ![w] = r]
      BY <2>3 DEF Request, Free
    <3> HIDE DEF r
    <3> QED
      BY <3>1, NewHolder
  <2> QED
    BY <1>0, <1>6, <2>1, <2>2, <2>3, QuietStep DEF FetchCert, RenewCert
<1> QED
  BY <1>1, <1>3, <1>4, <1>5, <1>6

\* The steps of Login.
LEMMA LoginTokens ==
  ASSUME TypeInv, TokenInv, Login
  PROVE  TokenInv' /\ AbstractStep
<1>0. rows' = rows
  BY DEF Login, deviceVars
<1>1. PICK w \in Workers :
        \/ LoginBegin(w) \/ PassConfig(w) \/ PassSecret(w) \/ PutState(w)
        \/ \E s \in States : TakeOnce(w, s)
        \/ Exchange(w) \/ EnsureUser(w) \/ IssueCredential(w)
  BY DEF Login
<1>2. {"secret", "put", "exchange", "ensure", "upsert", "issue", "reply"} \subseteq Steps
  BY DEF Steps
<1>3. /\ job \in [Workers -> Jobs] /\ granted \in [Tokens -> Nat] /\ drawn \subseteq States
      /\ store \subseteq drawn \ spent /\ spent \cap States \subseteq drawn
  BY DEF TypeInv, TypeOK, BaseTypeOK, LoginTypeOK
<1>4. States \subseteq Tokens /\ Identities \cap States = {}
  BY TokensAssumption DEF Tokens
<1>5. CASE LoginBegin(w)
  <2> DEFINE r == [op |-> "login", pc |-> "cfg", tok |-> None, to |-> None, at |-> now, cert |-> 0,
                   live |-> cfg = "active", good |-> user # "disabled"]
  <2>1. r.op = "login" /\ job' = [job EXCEPT ![w] = r]
    BY <1>5 DEF LoginBegin, Begin
  <2>2. UNCHANGED <<spent, granted, drawn, store>>
    BY <1>5 DEF LoginBegin, loginVars
  <2> HIDE DEF r
  <2> QED
    BY <1>0, <2>1, <2>2, NewHolder, QuietStep
<1>6. CASE PassConfig(w) \/ PassSecret(w) \/ Exchange(w) \/ EnsureUser(w)
  <2>1. \E pc \in Steps : Goto(w, pc) /\ pc # "sign"
    BY <1>2, <1>6 DEF PassConfig, PassSecret, Exchange, EnsureUser
  <2>2. UNCHANGED <<spent, granted, drawn, store>>
    BY <1>6 DEF PassConfig, PassSecret, Exchange, EnsureUser, loginVars
  <2> QED
    BY <1>0, <2>1, <2>2, GotoHolder, QuietStep
<1>7. CASE PutState(w)
  <2>1. PICK s \in States \ drawn : store' = store \cup {s} /\ drawn' = drawn \cup {s}
    BY <1>7 DEF PutState
  <2>2. NoNewHolder /\ spent' = spent /\ granted' = granted
    BY <1>7, DoneHolder DEF PutState
  <2>3. TokenInv'
    BY <1>0, <2>2 DEF TokenInv, NoNewHolder
  <2>4. Phase[s] = "unissued" /\ Phase'[s] = "open"
    BY <1>3, <1>4, <2>1, <2>2 DEF Phase, StatePhase
  <2>5. \A u \in Tokens \ {s} : Phase'[u] = Phase[u]
    BY <1>0, <2>1, <2>2 DEF Phase, CodePhase, StatePhase
  <2> QED
    BY <1>4, <2>2, <2>3, <2>4, <2>5, IssueStep
<1>8. ASSUME NEW s \in States, TakeOnce(w, s)
      PROVE  TokenInv' /\ AbstractStep
  <2>1. s \in store /\ store' = store \ {s} /\ drawn' = drawn /\ granted' = granted
    BY <1>8 DEF TakeOnce, Remains
  <2>2. Phase[s] = "open" /\ s \notin spent /\ s \in Tokens
    BY <1>3, <1>4, <2>1 DEF Phase, StatePhase
  <2>3. CASE Expired(s)
    <3>1. spent' = spent /\ job' = job
      BY <1>8, <2>3 DEF TakeOnce
    <3>2. TokenInv'
      BY <1>0, <2>1, <3>1 DEF TokenInv, Holds
    <3> DEFINE S == {s}
    <3>3. S \in SUBSET Tokens /\ \A t \in S : Phase[t] = "open" /\ Phase'[t] = "void"
      BY <1>3, <1>4, <2>1, <2>2, <3>1 DEF Phase, StatePhase
    <3>4. \A u \in Tokens \ S : Phase'[u] = Phase[u]
      BY <1>0, <2>1, <3>1 DEF Phase, CodePhase, StatePhase
    <3> HIDE DEF S
    <3> QED
      BY <2>1, <3>2, <3>3, <3>4, VoidStep
  <2>4. CASE ~Expired(s)
    <3> DEFINE r == [op |-> "callback", pc |-> "cfg", tok |-> s, to |-> None, at |-> now, cert |-> 0,
                     live |-> cfg = "active", good |-> user # "disabled"]
    <3>1. spent' = spent \cup {s} /\ job' = [job EXCEPT ![w] = r] /\ r.tok = s
      BY <1>8, <2>4 DEF TakeOnce, Begin
    <3> HIDE DEF r
    <3>2. \A v \in Workers : job'[v] = IF v = w THEN r ELSE job[v]
      BY <1>3, <3>1
    <3>3. \A v \in Workers : Holds(v) => job[v].tok # s /\ job[v].tok \in spent
      BY <2>2 DEF TokenInv
    <3>4. \A v \in Workers : v # w => (Holds(v)' <=> Holds(v))
      BY <3>2 DEF Holds
    <3>5. granted[s] = 0
      BY <2>2 DEF TokenInv
    <3>6. s \notin Identities
      BY <1>4
    <3>7. TokenInv'
      BY <1>0, <2>1, <3>1, <3>2, <3>3, <3>4, <3>5, <3>6 DEF TokenInv
    <3>8. Phase'[s] = "spent"
      BY <2>2, <3>1 DEF Phase
    <3>9. \A u \in Tokens \ {s} : Phase'[u] = Phase[u]
      BY <1>0, <2>1, <3>1 DEF Phase, CodePhase, StatePhase
    <3> QED
      BY <2>1, <2>2, <3>7, <3>8, <3>9, SpendStep
  <2> QED
    BY <2>3, <2>4
<1>9. CASE IssueCredential(w)
  <2>1. UNCHANGED <<spent, drawn, store>>
    BY <1>9 DEF IssueCredential, loginVars
  <2>2. CASE job[w].op # "callback"
    <3>1. NoNewHolder /\ granted' = granted
      BY <1>2, <1>9, <2>2, GotoHolder DEF IssueCredential
    <3> QED
      BY <1>0, <2>1, <3>1, QuietStep
  <2>3. CASE job[w].op = "callback"
    <3>1. Done(w) /\ Granting(job[w].tok) /\ NoNewHolder
      BY <1>9, <2>3, DoneHolder DEF IssueCredential
    <3>2. Holds(w) /\ ~Holds(w)'
      BY <1>3, <2>3, <3>1 DEF Holds, Done, Free
    <3>3. job[w].tok \in Tokens /\ job[w].tok \in spent /\ granted[job[w].tok] = 0
      BY <1>4, <2>3, <3>2 DEF TypeInv, OpToken, TokenInv
    <3>4. \A v \in Workers : Holds(v)' => v # w /\ Holds(v) /\ job'[v].tok = job[v].tok
      BY <3>1, <3>2 DEF NoNewHolder
    <3>5. \A v \in Workers : Holds(v)' => job'[v].tok \in spent /\ granted'[job'[v].tok] = 0
      BY <1>3, <3>1, <3>2, <3>3, <3>4 DEF TokenInv, Granting
    <3>6. TokenInv'
      BY <1>0, <1>3, <2>1, <3>1, <3>3, <3>4, <3>5 DEF TokenInv, Granting
    <3> QED
      BY <1>0, <1>3, <2>1, <3>1, <3>3, <3>6, GrantStep
  <2> QED
    BY <2>2, <2>3
<1> QED
  BY <1>1, <1>5, <1>6, <1>7, <1>8, <1>9

\* The other steps.
LEMMA OtherTokens ==
  ASSUME TypeInv, TokenInv,
         \/ Tick \/ Administer \/ Collect \/ ServerRestart
         \/ \E w \in Workers : HandlerStops(w) \/ \E i \in Identities : AgentEnroll(w, i)
         \/ \E i \in Identities : Restart(i)
  PROVE  TokenInv' /\ AbstractStep
<1>1. /\ job \in [Workers -> Jobs] /\ store \subseteq drawn \ spent /\ drawn \subseteq States
      /\ States \subseteq Tokens /\ Identities \cap States = {}
  BY TokensAssumption DEF TypeInv, TypeOK, BaseTypeOK, LoginTypeOK, Tokens
\* Some states leave the store unspent.
<1>2. ASSUME store' \subseteq store, UNCHANGED <<spent, granted, rows, drawn>>
      PROVE  AbstractStep
  <2> DEFINE S == store \ store'
  <2>1. S \in SUBSET Tokens /\ \A t \in S : Phase[t] = "open" /\ Phase'[t] = "void"
    BY <1>1, <1>2 DEF Phase, StatePhase
  <2>2. \A u \in Tokens \ S : Phase'[u] = Phase[u]
    BY <1>2 DEF Phase, CodePhase, StatePhase
  <2> HIDE DEF S
  <2> QED
    BY <1>2, <2>1, <2>2, VoidStep
<1>3. CASE Tick
  BY <1>3, SameHolder, QuietStep DEF Tick, deviceVars, loginVars
<1>4. CASE Administer
  <2>1. NoNewHolder
    BY <1>4, SeenHolder, SameHolder DEF Administer, CreateIDP, UpdateIDP, DeleteIDP, SetUserStatus
  <2>2. UNCHANGED <<spent, granted, rows, drawn, store>>
    BY <1>4 DEF Administer, CreateIDP, UpdateIDP, DeleteIDP, SetUserStatus, deviceVars
  <2> QED
    BY <2>1, <2>2, QuietStep
<1>5. CASE Collect
  <2>1. store' \subseteq store /\ UNCHANGED <<job, spent, granted, rows, drawn>>
    BY <1>5 DEF Collect, Janitor, deviceVars
  <2> QED
    BY <1>2, <2>1 DEF TokenInv, Holds
<1>6. CASE ServerRestart
  <2>1. store' \subseteq store /\ UNCHANGED <<spent, granted, rows, drawn>>
    BY <1>6 DEF ServerRestart
  <2>2. \A w \in Workers : ~Holds(w)'
    BY <1>6 DEF ServerRestart, Holds, Free
  <2> QED
    BY <1>2, <2>1, <2>2 DEF TokenInv
<1>7. ASSUME NEW w \in Workers, HandlerStops(w)
      PROVE  TokenInv' /\ AbstractStep
  BY <1>7, DoneHolder, QuietStep DEF HandlerStops, Refuse, loginVars
<1>8. ASSUME NEW w \in Workers, NEW i \in Identities, AgentEnroll(w, i)
      PROVE  TokenInv' /\ AbstractStep
  <2> DEFINE r == [op |-> "agent", pc |-> "cfg", tok |-> i, to |-> i, at |-> now, cert |-> 0,
                   live |-> cfg = "active", good |-> user # "disabled"]
  <2>1. r.op = "agent" /\ job' = [job EXCEPT ![w] = r]
    BY <1>8 DEF AgentEnroll, Begin
  <2>2. UNCHANGED <<spent, granted, rows, drawn, store>>
    BY <1>8 DEF AgentEnroll, loginVars
  <2> HIDE DEF r
  <2> QED
    BY <2>1, <2>2, NewHolder, QuietStep
<1>9. ASSUME NEW i \in Identities, Restart(i)
      PROVE  TokenInv' /\ AbstractStep
  <2>1. ASSUME NEW w \in Workers
        PROVE  job'[w].op = job[w].op /\ job'[w].tok = job[w].tok /\ job'[w].pc = job[w].pc
    <3>1. job'[w] = IF job[w].to = i THEN [job[w] EXCEPT !.to = None] ELSE job[w]
      BY <1>9 DEF Restart, DeviceRestart
    <3>2. job[w] \in Jobs
      BY <1>1
    <3> QED
      BY <3>1, <3>2 DEF Jobs, Free
  <2>2. NoNewHolder
    BY <2>1 DEF NoNewHolder, Holds
  <2>3. UNCHANGED <<spent, granted, rows, drawn, store>>
    BY <1>9 DEF Restart, DeviceRestart, loginVars
  <2> QED
    BY <2>2, <2>3, QuietStep
<1> QED
  BY <1>3, <1>4, <1>5, <1>6, <1>7, <1>8, <1>9

(***************************************************************************)
(* Activation codes and login states are one-time secrets: Redeem marks    *)
(* the row before it signs and counts the rows it marked, TakeOnce deletes *)
(* the record under the lock, and nothing else grants.                     *)
(***************************************************************************)
THEOREM Refinement == Spec => OneTimeSecrets
<1>1. Init => TokenInv /\ Secrets!Init
  <2> SUFFICES ASSUME Init PROVE TokenInv /\ Secrets!Init
    OBVIOUS
  <2>1. /\ job = [w \in Workers |-> Free] /\ spent = {} /\ granted = [t \in Tokens |-> 0]
        /\ rows = [i \in Identities |-> NoRow] /\ drawn = {}
    BY DEF Init, BaseInit, DeviceInit, LoginInit
  <2>2. TokenInv
    BY <2>1 DEF TokenInv, Holds, Free, NoRow
  <2>3. \A i \in Identities : ~rows[i].code
    BY <2>1 DEF NoRow
  <2>4. \A t \in Tokens : t \in Identities \/ t \in States
    BY DEF Tokens
  <2>5. Phase = [t \in Tokens |-> "unissued"]
    BY <2>1, <2>3, <2>4 DEF Phase, CodePhase, StatePhase
  <2> QED
    BY <2>1, <2>2, <2>5 DEF Secrets!Init
<1>2. TypeInv /\ TokenInv /\ [Next]_vars => TokenInv' /\ [Secrets!Next]_(Secrets!vars)
  <2> SUFFICES ASSUME TypeInv, TokenInv, [Next]_vars
               PROVE  TokenInv' /\ AbstractStep
    BY DEF AbstractStep
  <2>1. CASE UNCHANGED vars
    BY <2>1, SameHolder, QuietStep DEF vars, baseVars, deviceVars, loginVars
  <2> QED
    BY <2>1, ServeTokens, DeviceTokens, LoginTokens, OtherTokens DEF Next
<1> QED
  BY <1>1, <1>2, TypeInit, TypeStep, PTL DEF Spec, OneTimeSecrets, Secrets!Spec

-----------------------------------------------------------------------------
(* What rests on who waits for whom: the life of certificates, the effect  *)
(* of a revocation, and the gates of a login.                              *)

\* The steps a request goes through, and whom it answers.
JobOK(w) ==
  /\ job[w].op = "redeem" => job[w].pc \in {"select", "mark", "sign", "reply"}
  /\ job[w].op = "renew" => job[w].pc \in {"check", "sign", "reply"}
  /\ job[w].op = "agent" => job[w].pc \in {"cfg", "secret", "exchange", "ensure", "upsert", "sign", "issue", "reply"}
  /\ job[w].op = "login" => job[w].pc \in {"cfg", "secret", "put"}
  /\ job[w].op = "callback" => job[w].pc \in {"cfg", "secret", "exchange", "ensure", "issue"}
  /\ job[w].to # None => job[w].tok = job[w].to /\ job[w].op \in {"redeem", "renew", "agent"}
JobInv == \A w \in Workers : JobOK(w)

\* A device that waits for an answer has one request, and only such a device.
WaitInv ==
  /\ \A v, w \in Workers : v # w /\ job[v].to # None => job[v].to # job[w].to
  /\ \A w \in Workers : job[w].to # None => dev[job[w].to].pc \in {"asking", "renewing"}
  /\ \A i \in Identities : dev[i].pc \in {"asking", "renewing"} => \E w \in Workers : job[w].to = i

\* What the clock t leaves a device d: a renewal that is due begins at once,
\* each one that fails puts off the next by a unit at most.
TimeOK(d, t) ==
  /\ d.pc = "up" => t <= d.next
  /\ d.pc = "renewing" => d.next <= t /\ t <= d.next + 1
  /\ d.pc \in {"up", "renewing"} /\ d.missed < RenewLead => d.next <= d.till - RenewLead + d.missed
  /\ d.till <= t + CertTTL
  /\ d.conn # None => d.conn <= t /\ (d.how = "code" => t <= d.conn + ConnAge)

\* What a revocation leaves a device.
CutOK(i) ==
  rows[i].status = "revoked" =>
    /\ revokedAt[i] <= now
    /\ dev[i].till <= revokedAt[i] + CertTTL + 1
    /\ dev[i].conn # None => dev[i].conn <= revokedAt[i] + CertTTL

Signed == {"issue", "reply"}
Late == {"sign"} \cup Signed

\* A certificate that is on its way to a revoked device was asked for before.
Overtaken(w) ==
  job[w].to # None /\ job[w].pc \in Late /\ rows[job[w].to].status = "revoked"
    => job[w].at <= revokedAt[job[w].to]

\* A request takes a unit of time at most, its certificate is signed in it, and
\* a renewal began when the loop woke up.
Punctual(w) ==
  job[w].to # None =>
    /\ job[w].at <= now /\ now <= job[w].at + 1
    /\ job[w].pc \in Signed => /\ job[w].at + CertTTL <= job[w].cert
                               /\ job[w].cert <= now + CertTTL
                               /\ job[w].cert <= job[w].at + CertTTL + 1
    /\ dev[job[w].to].pc = "renewing" => job[w].at = dev[job[w].to].next

TimeInv ==
  /\ \A i \in Identities : TimeOK(dev[i], now) /\ CutOK(i)
  /\ \A w \in Workers : Overtaken(w) /\ Punctual(w)

\* What a request for a login has seen.
GateOK(w) ==
  /\ job[w].op \in {"login", "callback", "agent"} /\ cfg = "active" => job[w].live
  /\ job[w].op \in {"login", "callback", "agent"} /\ user # "disabled" => job[w].good
  /\ job[w].pc \in {"secret", "put", "exchange", "ensure", "upsert", "issue"} => job[w].live
  /\ job[w].pc \in {"upsert", "issue"} => job[w].good
  /\ job[w].op = "agent" /\ job[w].pc = "sign" => job[w].live /\ job[w].good
GateInv == \A w \in Workers : GateOK(w)

-----------------------------------------------------------------------------
(* What a step does to the requests. *)

\* Goto changes the next step of one request.
LEMMA GotoFields ==
  ASSUME TypeInv, NEW w \in Workers, job[w] # Free, NEW pc \in Steps, Goto(w, pc)
  PROVE  /\ \A v \in Workers : v # w => job'[v] = job[v]
         /\ job'[w].op = job[w].op /\ job'[w].pc = pc /\ job'[w].tok = job[w].tok /\ job'[w].to = job[w].to
         /\ job'[w].live = job[w].live /\ job'[w].good = job[w].good
         /\ job'[w].at = job[w].at /\ job'[w].cert = job[w].cert
<1>1. job \in [Workers -> Jobs]
  BY DEF TypeInv, TypeOK, BaseTypeOK
<1>2. job[w] \in [op : Ops, pc : Steps, tok : Tokens \cup {None}, to : Identities \cup {None},
                  at : Nat, cert : Nat, live : BOOLEAN, good : BOOLEAN]
  BY <1>1 DEF Jobs
<1>3. /\ \A v \in Workers : v # w => job'[v] = job[v]
      /\ job'[w] = [job[w] EXCEPT !.pc = pc]
  BY <1>1 DEF Goto
<1> QED
  BY <1>2, <1>3

\* SignCSR also notes when the certificate ends.
LEMMA SignFields ==
  ASSUME TypeInv, NEW w \in Workers, job[w] # Free, NEW pc \in Steps, SignCSR(w, pc)
  PROVE  /\ \A v \in Workers : v # w => job'[v] = job[v]
         /\ job'[w].op = job[w].op /\ job'[w].pc = pc /\ job'[w].tok = job[w].tok /\ job'[w].to = job[w].to
         /\ job'[w].live = job[w].live /\ job'[w].good = job[w].good
         /\ job'[w].at = job[w].at /\ job'[w].cert = now + CertTTL
<1>1. job \in [Workers -> Jobs]
  BY DEF TypeInv, TypeOK, BaseTypeOK
<1>2. job[w] \in [op : Ops, pc : Steps, tok : Tokens \cup {None}, to : Identities \cup {None},
                  at : Nat, cert : Nat, live : BOOLEAN, good : BOOLEAN]
  BY <1>1 DEF Jobs
<1>3. /\ \A v \in Workers : v # w => job'[v] = job[v]
      /\ job'[w] = [job[w] EXCEPT !.pc = pc, !.cert = now + CertTTL]
  BY <1>1 DEF SignCSR
<1> QED
  BY <1>2, <1>3

\* Done frees one worker.
LEMMA DoneFields ==
  ASSUME TypeInv, NEW w \in Workers, Done(w)
  PROVE  (\A v \in Workers : v # w => job'[v] = job[v]) /\ job'[w] = Free
BY DEF TypeInv, TypeOK, BaseTypeOK, Done

\* Begin makes the request of a login or of an agent.
LEMMA BeginFields ==
  ASSUME TypeInv, NEW w \in Workers, NEW op, NEW tok, NEW to, Begin(w, op, tok, to)
  PROVE  /\ \A v \in Workers : v # w => job'[v] = job[v]
         /\ job'[w].op = op /\ job'[w].pc = "cfg" /\ job'[w].tok = tok /\ job'[w].to = to
         /\ job'[w].live = (cfg = "active") /\ job'[w].good = (user # "disabled")
         /\ job'[w].at = now
BY DEF TypeInv, TypeOK, BaseTypeOK, Begin

\* Request makes the request of a device.
LEMMA RequestFields ==
  ASSUME TypeInv, NEW w \in Workers, NEW op, NEW pc, NEW i, Request(w, op, pc, i)
  PROVE  /\ \A v \in Workers : v # w => job'[v] = job[v]
         /\ job'[w].op = op /\ job'[w].pc = pc /\ job'[w].tok = i /\ job'[w].to = i /\ job'[w].at = now
BY DEF TypeInv, TypeOK, BaseTypeOK, Request, Free

\* Seen changes the history of requests only.
LEMMA SeenFields ==
  ASSUME TypeInv, NEW l \in BOOLEAN, NEW g \in BOOLEAN, Seen(l, g), NEW v \in Workers
  PROVE  /\ job'[v].op = job[v].op /\ job'[v].pc = job[v].pc /\ job'[v].tok = job[v].tok /\ job'[v].to = job[v].to
         /\ job'[v].at = job[v].at /\ job'[v].cert = job[v].cert
         /\ job[v] # Free => (job'[v].live <=> (job[v].live \/ l)) /\ (job'[v].good <=> (job[v].good \/ g))
<1>1. CASE job[v] = Free
  BY <1>1 DEF Seen
<1>2. CASE job[v] # Free
  <2>1. job'[v] = [job[v] EXCEPT !.live = @ \/ l, !.good = @ \/ g]
    BY <1>2 DEF Seen
  <2>2. job[v] \in [op : Ops, pc : Steps, tok : Tokens \cup {None}, to : Identities \cup {None},
                    at : Nat, cert : Nat, live : BOOLEAN, good : BOOLEAN]
    BY <1>2 DEF TypeInv, TypeOK, BaseTypeOK, Jobs
  <2> QED
    BY <2>1, <2>2
<1> QED
  BY <1>1, <1>2

\* A device that restarts leaves its requests without a receiver.
LEMMA RestartFields ==
  ASSUME TypeInv, NEW i \in Identities, DeviceRestart(i), NEW v \in Workers
  PROVE  /\ job'[v].op = job[v].op /\ job'[v].pc = job[v].pc /\ job'[v].tok = job[v].tok
         /\ job'[v].live = job[v].live /\ job'[v].good = job[v].good
         /\ job'[v].to = IF job[v].to = i THEN None ELSE job[v].to
         /\ job'[v].at = job[v].at /\ job'[v].cert = job[v].cert
<1>1. job'[v] = IF job[v].to = i THEN [job[v] EXCEPT !.to = None] ELSE job[v]
  BY DEF DeviceRestart
<1>2. job[v] \in Jobs
  BY DEF TypeInv, TypeOK, BaseTypeOK
<1> QED
  BY <1>1, <1>2 DEF Jobs, Free

\* A request that is not free is of a known kind.
LEMMA Kinds ==
  ASSUME TypeInv, NEW w \in Workers
  PROVE  /\ job[w] # Free => job[w].op \in Ops
         /\ Free.op = "none" /\ Free.pc = "idle" /\ Free.to = None
         /\ job[w].to \in Identities \cup {None}
         /\ job[w].at \in Nat /\ job[w].cert \in Nat
         /\ None \notin Identities
BY TokensAssumption DEF TypeInv, TypeOK, BaseTypeOK, Jobs, Free, Tokens

-----------------------------------------------------------------------------
(* The order of a request's steps, and what it has seen. *)

\* A step of one worker, the provider and the user left alone.
LEMMA OneJob ==
  ASSUME JobInv, GateInv, NEW w \in Workers, \A v \in Workers : v # w => job'[v] = job[v],
         UNCHANGED <<cfg, user>>, JobOK(w)', GateOK(w)'
  PROVE  JobInv' /\ GateInv'
BY DEF JobInv, GateInv, JobOK, GateOK

\* A worker that becomes free.
LEMMA FreedJob ==
  ASSUME TypeInv, JobInv, GateInv, NEW w \in Workers, Done(w), UNCHANGED <<cfg, user>>
  PROVE  JobInv' /\ GateInv'
<1>1. (\A v \in Workers : v # w => job'[v] = job[v]) /\ job'[w] = Free
  BY DoneFields
<1>2. JobOK(w)' /\ GateOK(w)'
  BY <1>1 DEF JobOK, GateOK, Free
<1> QED
  BY <1>1, <1>2, OneJob

\* The handlers of devices.
LEMMA ServeJobs ==
  ASSUME TypeInv, JobInv, GateInv, Serve
  PROVE  JobInv' /\ GateInv'
<1>0. UNCHANGED <<cfg, user>>
  BY DEF Serve, loginVars
<1>1. PICK w \in Workers : \/ RedeemSelect(w) \/ RedeemMark(w) \/ RenewCheck(w) \/ RedeemAgent(w)
                           \/ Sign(w) \/ Reply(w) \/ JobFails(w)
  BY DEF Serve
<1>2. {"mark", "sign", "issue", "reply"} \subseteq Steps
  BY DEF Steps
<1>3. JobOK(w) /\ GateOK(w) /\ Free.pc = "idle"
  BY DEF JobInv, GateInv, Free
<1>4. CASE Done(w)
  BY <1>0, <1>4, FreedJob
<1>5. CASE job[w].op = "redeem" /\ job[w].pc = "select" /\ Goto(w, "mark")
  <2>1. JobOK(w)' /\ GateOK(w)'
    BY <1>2, <1>3, <1>5, GotoFields DEF JobOK, GateOK
  <2> QED
    BY <1>0, <1>2, <1>3, <1>5, <2>1, GotoFields, OneJob
<1>6. CASE \/ job[w].op = "redeem" /\ job[w].pc = "mark" /\ Goto(w, "sign")
           \/ job[w].op = "renew" /\ job[w].pc = "check" /\ Goto(w, "sign")
           \/ job[w].op = "agent" /\ job[w].pc = "upsert" /\ Goto(w, "sign")
  <2>1. JobOK(w)' /\ GateOK(w)'
    BY <1>0, <1>2, <1>3, <1>6, GotoFields DEF JobOK, GateOK
  <2> QED
    BY <1>0, <1>2, <1>3, <1>6, <2>1, GotoFields, OneJob
<1>7. CASE Sign(w)
  <2>1. /\ job[w].pc = "sign" /\ job[w] # Free
        /\ SignCSR(w, IF job[w].op = "agent" THEN "issue" ELSE "reply")
    BY <1>3, <1>7 DEF Sign
  <2>2. job[w].op \in {"redeem", "renew", "agent"}
    BY <1>3, <2>1, Kinds DEF JobOK, Ops
  <2>3. JobOK(w)' /\ GateOK(w)'
    BY <1>0, <1>2, <1>3, <2>1, <2>2, SignFields DEF JobOK, GateOK
  <2> QED
    BY <1>0, <1>2, <2>1, <2>3, SignFields, OneJob
<1> QED
  BY <1>1, <1>4, <1>5, <1>6, <1>7
     DEF RedeemSelect, RedeemMark, RenewCheck, RedeemAgent, Reply, JobFails, Refuse

\* The handlers of logins: each check adds what the next steps rely on.
LEMMA LoginJobs ==
  ASSUME TypeInv, JobInv, GateInv, Login
  PROVE  JobInv' /\ GateInv'
<1>1. PICK w \in Workers :
        \/ LoginBegin(w) \/ PassConfig(w) \/ PassSecret(w) \/ PutState(w)
        \/ \E s \in States : TakeOnce(w, s)
        \/ Exchange(w) \/ EnsureUser(w) \/ IssueCredential(w)
  BY DEF Login
<1>2. {"secret", "put", "exchange", "ensure", "upsert", "issue", "reply"} \subseteq Steps
  BY DEF Steps
<1>3. JobOK(w) /\ GateOK(w) /\ Free.pc = "idle"
  BY DEF JobInv, GateInv, Free
<1>4. None \notin Identities
  BY Kinds
<1>5. ASSUME NEW op \in {"login", "callback"}, NEW tok, Begin(w, op, tok, None), UNCHANGED <<cfg, user>>
      PROVE  JobInv' /\ GateInv'
  <2>1. JobOK(w)' /\ GateOK(w)'
    BY <1>5, BeginFields DEF JobOK, GateOK
  <2> QED
    BY <1>5, <2>1, BeginFields, OneJob
<1>6. CASE LoginBegin(w)
  BY <1>5, <1>6 DEF LoginBegin, loginVars
<1>7. ASSUME NEW s \in States, TakeOnce(w, s)
      PROVE  JobInv' /\ GateInv'
  <2>1. CASE UNCHANGED <<job, cfg, user>>
    BY <2>1 DEF JobInv, GateInv, JobOK, GateOK
  <2> QED
    BY <1>5, <1>7, <2>1 DEF TakeOnce
<1>8. CASE PassConfig(w)
  <2>1. job[w].pc = "cfg" /\ cfg = "active" /\ Goto(w, "secret") /\ UNCHANGED <<cfg, user>> /\ job[w] # Free
    BY <1>3, <1>8 DEF PassConfig, Configured, loginVars
  <2>2. job[w].op \in {"login", "callback", "agent"}
    BY <1>3, <2>1, Kinds DEF JobOK, Ops
  <2>3. JobOK(w)' /\ GateOK(w)'
    BY <1>2, <1>3, <2>1, <2>2, GotoFields DEF JobOK, GateOK
  <2> QED
    BY <1>2, <2>1, <2>3, GotoFields, OneJob
<1>9. CASE PassSecret(w)
  <2>1. /\ job[w].pc = "secret" /\ UNCHANGED <<cfg, user>> /\ job[w] # Free
        /\ Goto(w, IF job[w].op = "login" THEN "put" ELSE "exchange")
    BY <1>3, <1>9 DEF PassSecret, loginVars
  <2>2. job[w].op \in {"login", "callback", "agent"}
    BY <1>3, <2>1, Kinds DEF JobOK, Ops
  <2>3. JobOK(w)' /\ GateOK(w)'
    BY <1>2, <1>3, <2>1, <2>2, GotoFields DEF JobOK, GateOK
  <2> QED
    BY <1>2, <2>1, <2>3, GotoFields, OneJob
<1>10. CASE PutState(w)
  BY <1>10, FreedJob DEF PutState
<1>11. CASE Exchange(w)
  <2>1. job[w].pc = "exchange" /\ UNCHANGED <<cfg, user>> /\ job[w] # Free /\ Goto(w, "ensure")
    BY <1>3, <1>11 DEF Exchange, loginVars
  <2>2. job[w].op \in {"callback", "agent"}
    BY <1>3, <2>1, Kinds DEF JobOK, Ops
  <2>3. JobOK(w)' /\ GateOK(w)'
    BY <1>2, <1>3, <2>1, <2>2, GotoFields DEF JobOK, GateOK
  <2> QED
    BY <1>2, <2>1, <2>3, GotoFields, OneJob
<1>12. CASE EnsureUser(w)
  <2>1. /\ job[w].pc = "ensure" /\ user # "disabled" /\ user' = "active" /\ cfg' = cfg /\ job[w] # Free
        /\ Goto(w, IF job[w].op = "agent" THEN "upsert" ELSE "issue")
    BY <1>3, <1>12 DEF EnsureUser
  <2>2. job[w].op \in {"callback", "agent"}
    BY <1>3, <2>1, Kinds DEF JobOK, Ops
  <2>3. JobOK(w)' /\ GateOK(w)'
    BY <1>2, <1>3, <2>1, <2>2, GotoFields DEF JobOK, GateOK
  <2>4. \A v \in Workers : v # w => job'[v] = job[v]
    BY <1>2, <2>1, GotoFields
  <2> QED
    BY <2>1, <2>3, <2>4 DEF JobInv, GateInv, JobOK, GateOK
<1>13. CASE IssueCredential(w)
  <2>1. job[w].pc = "issue" /\ UNCHANGED <<cfg, user>> /\ job[w] # Free
    BY <1>3, <1>13 DEF IssueCredential, loginVars
  <2>2. CASE job[w].op = "callback"
    BY <1>13, <2>1, <2>2, FreedJob DEF IssueCredential
  <2>3. CASE job[w].op # "callback"
    <3>1. Goto(w, "reply")
      BY <1>13, <2>3 DEF IssueCredential
    <3>2. job[w].op = "agent"
      BY <1>3, <2>1, <2>3, Kinds DEF JobOK, Ops
    <3>3. JobOK(w)' /\ GateOK(w)'
      BY <1>2, <1>3, <2>1, <3>1, <3>2, GotoFields DEF JobOK, GateOK
    <3> QED
      BY <1>2, <2>1, <3>1, <3>3, GotoFields, OneJob
  <2> QED
    BY <2>2, <2>3
<1> QED
  BY <1>1, <1>6, <1>7, <1>8, <1>9, <1>10, <1>11, <1>12, <1>13

\* All other steps; administrators change what requests have seen.
LEMMA OtherJobs ==
  ASSUME TypeInv, JobInv, GateInv,
         \/ Tick \/ Device \/ Administer \/ Collect \/ ServerRestart
         \/ \E w \in Workers : HandlerStops(w) \/ \E i \in Identities : AgentEnroll(w, i)
         \/ \E i \in Identities : Restart(i)
  PROVE  JobInv' /\ GateInv'
<1>1. CASE UNCHANGED <<job, cfg, user>>
  BY <1>1 DEF JobInv, GateInv, JobOK, GateOK
<1>2. ASSUME NEW w \in Workers, NEW i \in Identities, UNCHANGED <<cfg, user>>,
             Request(w, "redeem", "select", i) \/ Request(w, "renew", "check", i)
      PROVE  JobInv' /\ GateInv'
  <2>1. JobOK(w)' /\ GateOK(w)'
    BY <1>2, RequestFields DEF JobOK, GateOK
  <2> QED
    BY <1>2, <2>1, RequestFields, OneJob
<1>3. CASE Device
  BY <1>1, <1>2, <1>3
     DEF Device, loginVars, CreateEnrollment, RevokeDevice, DeviceStart, FetchCert, RenewCert, ConnOpen, ConnClose
<1>4. CASE Tick \/ Collect
  BY <1>1, <1>4 DEF Tick, Collect, Janitor, loginVars
<1>5. CASE CreateIDP \/ UpdateIDP \/ SetUserStatus
  <2>1. PICK l \in BOOLEAN, g \in BOOLEAN : /\ Seen(l, g)
                                            /\ l \/ cfg' = cfg \/ cfg' # "active"
                                            /\ g \/ user' = user \/ user' = "disabled"
    BY <1>5 DEF CreateIDP, UpdateIDP, SetUserStatus
  <2>2. ASSUME NEW v \in Workers
        PROVE  JobOK(v)' /\ GateOK(v)'
    <3>1. JobOK(v) /\ GateOK(v)
      BY DEF JobInv, GateInv
    <3>2. /\ job'[v].op = job[v].op /\ job'[v].pc = job[v].pc /\ job'[v].tok = job[v].tok /\ job'[v].to = job[v].to
          /\ job[v] # Free => (job'[v].live <=> (job[v].live \/ l)) /\ (job'[v].good <=> (job[v].good \/ g))
      BY <2>1, SeenFields
    <3>3. JobOK(v)'
      BY <3>1, <3>2 DEF JobOK
    <3>4. CASE job[v] = Free
      <4>1. job'[v].op = "none" /\ job'[v].pc = "idle"
        BY <3>2, <3>4, Kinds
      <4> QED
        BY <3>3, <4>1 DEF GateOK
    <3>5. CASE job[v] # Free
      <4>1. job[v].live => job'[v].live
        BY <3>2, <3>5
      <4>2. job[v].good => job'[v].good
        BY <3>2, <3>5
      <4>3. l => job'[v].live
        BY <3>2, <3>5
      <4>4. g => job'[v].good
        BY <3>2, <3>5
      <4>5. cfg' = "active" => cfg = "active" \/ l
        BY <2>1
      <4>6. user' # "disabled" => user # "disabled" \/ g
        BY <2>1
      <4>7. job'[v].op = job[v].op /\ job'[v].pc = job[v].pc
        BY <3>2
      <4>8. (job[v].op \in {"login", "callback", "agent"} /\ cfg = "active" => job[v].live)'
        BY <3>1, <4>1, <4>3, <4>5, <4>7 DEF GateOK
      <4>9. (job[v].op \in {"login", "callback", "agent"} /\ user # "disabled" => job[v].good)'
        BY <3>1, <4>2, <4>4, <4>6, <4>7 DEF GateOK
      <4>10. (job[v].pc \in {"secret", "put", "exchange", "ensure", "upsert", "issue"} => job[v].live)'
        BY <3>1, <4>1, <4>7 DEF GateOK
      <4>11. (job[v].pc \in {"upsert", "issue"} => job[v].good)'
        BY <3>1, <4>2, <4>7 DEF GateOK
      <4>12. (job[v].op = "agent" /\ job[v].pc = "sign" => job[v].live /\ job[v].good)'
        BY <3>1, <4>1, <4>2, <4>7 DEF GateOK
      <4> QED
        BY <3>3, <4>8, <4>9, <4>10, <4>11, <4>12 DEF GateOK
    <3> QED
      BY <3>3, <3>4, <3>5
  <2> QED
    BY <2>2 DEF JobInv, GateInv
<1>6. CASE DeleteIDP
  <2>1. job' = job /\ user' = user /\ cfg' = "deleted"
    BY <1>6 DEF DeleteIDP
  <2> QED
    BY <2>1 DEF JobInv, GateInv, JobOK, GateOK
<1>7. CASE ServerRestart
  <2>1. \A w \in Workers : job'[w] = Free
    BY <1>7 DEF ServerRestart
  <2> QED
    BY <2>1 DEF JobInv, GateInv, JobOK, GateOK, Free
<1>8. ASSUME NEW w \in Workers, HandlerStops(w)
      PROVE  JobInv' /\ GateInv'
  BY <1>8, FreedJob DEF HandlerStops, Refuse, loginVars
<1>9. ASSUME NEW w \in Workers, NEW i \in Identities, AgentEnroll(w, i)
      PROVE  JobInv' /\ GateInv'
  <2>1. Begin(w, "agent", i, i) /\ UNCHANGED <<cfg, user>>
    BY <1>9 DEF AgentEnroll, loginVars
  <2>2. /\ job'[w].op = "agent" /\ job'[w].pc = "cfg" /\ job'[w].tok = i /\ job'[w].to = i
        /\ job'[w].live = (cfg = "active") /\ job'[w].good = (user # "disabled")
        /\ \A v \in Workers : v # w => job'[v] = job[v]
    BY <2>1, BeginFields
  <2>3. JobOK(w)'
    BY <2>2 DEF JobOK
  <2>4. GateOK(w)'
    BY <2>1, <2>2 DEF GateOK
  <2> QED
    BY <2>1, <2>2, <2>3, <2>4, OneJob
<1>10. ASSUME NEW i \in Identities, Restart(i)
       PROVE  JobInv' /\ GateInv'
  <2>1. DeviceRestart(i) /\ UNCHANGED <<cfg, user>>
    BY <1>10 DEF Restart, loginVars
  <2>2. ASSUME NEW v \in Workers
        PROVE  JobOK(v)' /\ GateOK(v)'
    <3>1. JobOK(v) /\ GateOK(v)
      BY DEF JobInv, GateInv
    <3>2. /\ job'[v].op = job[v].op /\ job'[v].pc = job[v].pc /\ job'[v].tok = job[v].tok
          /\ job'[v].live = job[v].live /\ job'[v].good = job[v].good
          /\ job'[v].to = None \/ job'[v].to = job[v].to
      BY <2>1, RestartFields
    <3>3. JobOK(v)'
      BY <3>1, <3>2 DEF JobOK
    <3>4. GateOK(v)'
      BY <2>1, <3>1, <3>2 DEF GateOK
    <3> QED
      BY <3>3, <3>4
  <2> QED
    BY <2>2 DEF JobInv, GateInv
<1> QED
  BY <1>3, <1>4, <1>5, <1>6, <1>7, <1>8, <1>9, <1>10 DEF Administer

\* Every step keeps the order of steps, and what requests have seen.
LEMMA JobStep == TypeInv /\ JobInv /\ GateInv /\ [Next]_vars => JobInv' /\ GateInv'
<1> SUFFICES ASSUME TypeInv, JobInv, GateInv, [Next]_vars PROVE JobInv' /\ GateInv'
  OBVIOUS
<1>1. CASE UNCHANGED vars
  BY <1>1 DEF vars, baseVars, loginVars, JobInv, GateInv, JobOK, GateOK
<1> QED
  BY <1>1, ServeJobs, LoginJobs, OtherJobs DEF Next

\* They hold at the start.
LEMMA JobInit == Init => JobInv /\ GateInv
BY DEF Init, BaseInit, JobInv, GateInv, JobOK, GateOK, Free

(***************************************************************************)
(* A request that gets a session or an agent's certificate has seen the    *)
(* provider's configuration active and the user not disabled (the checks   *)
(* of CallbackHandler and of agentenroll.Enroll), for any number of        *)
(* requests and whatever administrators do meanwhile.                      *)
(***************************************************************************)
THEOREM Gated == Spec => []LoginGated
<1>1. GateInv => LoginGated
  BY DEF GateInv, GateOK, LoginGated
<1> QED
  BY <1>1, TypeInit, TypeStep, JobInit, JobStep, PTL DEF Spec

-----------------------------------------------------------------------------
(* Who waits for whom.                                                     *)

\* A step that sends no request and answers none.
LEMMA QuietWait ==
  ASSUME WaitInv, \A w \in Workers : job'[w].to = job[w].to,
         \A i \in Identities : dev'[i].pc \in {"asking", "renewing"} <=> dev[i].pc \in {"asking", "renewing"},
         \A w \in Workers : job[w].to \in Identities \cup {None}
  PROVE  WaitInv'
BY DEF WaitInv

\* A request ends, and the device that waited for it waits no more.
LEMMA AnswerWait ==
  ASSUME TypeInv, WaitInv, NEW w \in Workers, Done(w),
         \A i \in Identities : i # job[w].to => dev'[i] = dev[i],
         job[w].to # None => dev'[job[w].to].pc \notin {"asking", "renewing"}
  PROVE  WaitInv'
<1>1. (\A v \in Workers : v # w => job'[v] = job[v]) /\ job'[w] = Free /\ Free.to = None
  BY DoneFields, Kinds
<1>2. \A v \in Workers : job[v].to \in Identities \cup {None}
  BY Kinds
<1> QED
  BY <1>1, <1>2 DEF WaitInv

\* A device begins to wait for a request of its own.
LEMMA AskWait ==
  ASSUME TypeInv, WaitInv, NEW w \in Workers, NEW i \in Identities,
         job[w] = Free, \A v \in Workers : v # w => job'[v] = job[v], job'[w].to = i,
         dev[i].pc \notin {"asking", "renewing"},
         NEW pc \in {"asking", "renewing"}, dev' = [dev EXCEPT ![i].pc = pc]
  PROVE  WaitInv'
<1>1. Free.to = None /\ None \notin Identities /\ \A v \in Workers : job[v].to \in Identities \cup {None}
  BY Kinds
<1>2. dev \in [Identities -> Devs]
  BY DEF TypeInv, TypeOK, DeviceTypeOK
<1>3. /\ \A j \in Identities : j # i => dev'[j] = dev[j]
      /\ dev'[i].pc \in {"asking", "renewing"}
  BY <1>2 DEF Devs
<1> QED
  BY <1>1, <1>3 DEF WaitInv

\* What a request that ends without a certificate leaves.
LEMMA LeftWaiting ==
  ASSUME NEW d \in Devs
  PROVE  WithoutCert(d).pc \notin {"asking", "renewing"}
BY DEF WithoutCert, Devs

\* What one that ends with a certificate leaves.
LEMMA WithCertPc ==
  ASSUME NEW d \in Devs, NEW r
  PROVE  WithCert(d, r).pc = "up"
BY DEF WithCert, Devs

\* A request ends without a certificate.
LEMMA RefuseWait ==
  ASSUME TypeInv, WaitInv, NEW w \in Workers, Refuse(w)
  PROVE  WaitInv'
<1>1. job[w].to # None => dev[job[w].to] \in Devs
  BY Kinds DEF TypeInv, TypeOK, DeviceTypeOK
<1>2. job[w].to # None => WithoutCert(dev[job[w].to]).pc \notin {"asking", "renewing"}
  BY <1>1, LeftWaiting
<1>3. /\ \A i \in Identities : i # job[w].to => dev'[i] = dev[i]
      /\ job[w].to # None => dev'[job[w].to] = WithoutCert(dev[job[w].to])
  BY Kinds DEF Refuse, Disappointed, TypeInv, TypeOK, DeviceTypeOK
<1> QED
  BY <1>2, <1>3, AnswerWait DEF Refuse

-----------------------------------------------------------------------------
(* The kinds of steps, told apart by what they do to a device.             *)

\* No device and no row changes; a request that has not been admitted stays so,
\* and one that has no certificate.
Quiet ==
  /\ UNCHANGED <<now, dev, rows, revokedAt>>
  /\ \A w \in Workers : /\ job'[w].to = job[w].to
                        /\ job'[w].to # None =>
                             /\ job'[w].at = job[w].at /\ job'[w].cert = job[w].cert
                             /\ job'[w].pc \in Late => job[w].pc \in Late
                             /\ job'[w].pc \in Signed => job[w].pc \in Signed

\* A request ends without a certificate.
Ends(w) == Refuse(w) /\ UNCHANGED <<now, rows, revokedAt>>

\* A certificate will be signed: the row is that of an enrolled device.
Admits(w) ==
  /\ UNCHANGED <<now, dev, revokedAt>>
  /\ \A v \in Workers : v # w => job'[v] = job[v]
  /\ job'[w].to = job[w].to /\ job'[w].at = job[w].at /\ job'[w].pc = "sign"
  /\ job[w].to # None => rows'[job[w].to].status = "redeemed"
  /\ \A i \in Identities : rows'[i] = rows[i] \/ rows'[i].status = "redeemed"

\* A certificate is signed.
Signs(w) ==
  /\ UNCHANGED <<now, dev, rows, revokedAt>>
  /\ \A v \in Workers : v # w => job'[v] = job[v]
  /\ job'[w].to = job[w].to /\ job'[w].at = job[w].at /\ job'[w].cert = now + CertTTL
  /\ job[w].pc \in Late

\* One request moves on.
LEMMA GotoQuiet ==
  ASSUME TypeInv, NEW w \in Workers, job[w] # Free, NEW pc \in Steps, Goto(w, pc),
         job[w].to # None /\ pc \in Late => job[w].pc \in Signed /\ pc \in Signed,
         UNCHANGED <<now, dev, rows, revokedAt>>
  PROVE  Quiet
<1>1. Signed \subseteq Late
  BY DEF Late
<1> QED
  BY <1>1, GotoFields DEF Quiet

\* One worker begins or ends a request that no device waits for.
LEMMA UnawaitedQuiet ==
  ASSUME NEW w \in Workers, \A v \in Workers : v # w => job'[v] = job[v],
         job[w].to = None, job'[w].to = None, UNCHANGED <<now, dev, rows, revokedAt>>
  PROVE  Quiet
BY DEF Quiet

\* The handlers of devices end a request, admit one, sign, answer, or are quiet.
LEMMA ServeKinds ==
  ASSUME TypeInv, JobInv, Serve
  PROVE  Quiet \/ \E w \in Workers : Ends(w) \/ Admits(w) \/ Signs(w) \/ Reply(w)
<1>1. PICK w \in Workers : \/ RedeemSelect(w) \/ RedeemMark(w) \/ RenewCheck(w) \/ RedeemAgent(w)
                           \/ Sign(w) \/ Reply(w) \/ JobFails(w)
  BY DEF Serve
<1>2. {"mark", "sign", "issue", "reply"} \subseteq Steps
  BY DEF Steps
<1>3. JobOK(w) /\ Free.pc = "idle" /\ job[w].to \in Identities \cup {None}
  BY Kinds DEF JobInv
<1>4. rows \in [Identities -> Rows]
  BY DEF TypeInv, TypeOK, DeviceTypeOK
<1>5. CASE RedeemSelect(w)
  <2>1. CASE Pending(job[w].tok)
    <3>1. job[w] # Free /\ Goto(w, "mark") /\ UNCHANGED <<now, dev, rows, revokedAt>>
      BY <1>3, <1>5, <2>1 DEF RedeemSelect
    <3> QED
      BY <1>2, <3>1, GotoQuiet DEF Late, Signed
  <2> QED
    BY <1>5, <2>1 DEF RedeemSelect, Ends
<1>6. CASE RedeemMark(w)
  <2>1. CASE Marks(job[w].tok)
    <3>1. /\ job[w] # Free /\ Goto(w, "sign") /\ UNCHANGED <<now, dev, revokedAt>>
          /\ rows' = [rows EXCEPT ![job[w].tok].status = "redeemed"]
      BY <1>3, <1>6, <2>1 DEF RedeemMark
    <3>2. \A i \in Identities : IF i = job[w].tok THEN rows'[i].status = "redeemed" ELSE rows'[i] = rows[i]
      BY <1>4, <3>1 DEF Rows
    <3> QED
      BY <1>2, <1>3, <3>1, <3>2, GotoFields DEF Admits, JobOK
  <2> QED
    BY <1>6, <2>1 DEF RedeemMark, Ends
<1>7. CASE RenewCheck(w)
  <2>1. CASE Enrolled(job[w].tok)
    <3>1. /\ job[w] # Free /\ Goto(w, "sign") /\ UNCHANGED <<now, dev, rows, revokedAt>>
          /\ rows[job[w].tok].status = "redeemed"
      BY <1>3, <1>7, <2>1 DEF RenewCheck, Enrolled
    <3> QED
      BY <1>2, <1>3, <3>1, GotoFields DEF Admits, JobOK
  <2> QED
    BY <1>7, <2>1 DEF RenewCheck, Ends
<1>8. CASE RedeemAgent(w)
  <2>1. /\ job[w] # Free /\ Goto(w, "sign") /\ UNCHANGED <<now, dev, revokedAt>>
        /\ rows' = [rows EXCEPT ![job[w].tok] = [kind |-> "agent", code |-> rows[job[w].tok].code,
                                                 status |-> "redeemed"]]
    BY <1>3, <1>8 DEF RedeemAgent
  <2>2. \A i \in Identities : IF i = job[w].tok THEN rows'[i].status = "redeemed" ELSE rows'[i] = rows[i]
    BY <1>4, <2>1
  <2> QED
    BY <1>2, <1>3, <2>1, <2>2, GotoFields DEF Admits, JobOK
<1>9. CASE Sign(w)
  <2>1. /\ job[w].pc = "sign" /\ job[w] # Free /\ UNCHANGED <<now, dev, rows, revokedAt>>
        /\ SignCSR(w, IF job[w].op = "agent" THEN "issue" ELSE "reply")
    BY <1>3, <1>9 DEF Sign
  <2> QED
    BY <1>2, <2>1, SignFields DEF Signs, Late
<1>10. CASE JobFails(w)
  BY <1>10 DEF JobFails, Ends
<1> QED
  BY <1>1, <1>5, <1>6, <1>7, <1>8, <1>9, <1>10

\* A login changes no device.
LEMMA LoginKinds ==
  ASSUME TypeInv, JobInv, Login
  PROVE  Quiet
<1>1. PICK w \in Workers :
        \/ LoginBegin(w) \/ PassConfig(w) \/ PassSecret(w) \/ PutState(w)
        \/ \E s \in States : TakeOnce(w, s)
        \/ Exchange(w) \/ EnsureUser(w) \/ IssueCredential(w)
  BY DEF Login
<1>2. UNCHANGED <<now, dev, rows, revokedAt>>
  BY <1>1 DEF Login, deviceVars, LoginBegin, PassConfig, PassSecret, PutState, TakeOnce, Exchange, EnsureUser,
              IssueCredential
<1>3. /\ {"secret", "put", "exchange", "ensure", "upsert", "issue", "reply"} \subseteq Steps
      /\ JobOK(w) /\ Free.pc = "idle" /\ Free.to = None
  BY Kinds DEF JobInv, Steps
<1>4. ASSUME NEW op, NEW tok, Begin(w, op, tok, None)
      PROVE  Quiet
  BY <1>2, <1>3, <1>4, BeginFields, UnawaitedQuiet DEF Begin
<1>5. ASSUME NEW s \in States, TakeOnce(w, s)
      PROVE  Quiet
  <2>1. CASE job' = job
    BY <1>2, <2>1 DEF Quiet
  <2> QED
    BY <1>4, <1>5, <2>1 DEF TakeOnce
<1>6. ASSUME job[w].op \in {"login", "callback"} \/ job[w].to = None, Done(w)
      PROVE  Quiet
  <2>1. job[w].to = None
    BY <1>3, <1>6 DEF JobOK
  <2> QED
    BY <1>2, <1>3, <1>6, <2>1, DoneFields, UnawaitedQuiet
<1>7. CASE LoginBegin(w)
  BY <1>4, <1>7 DEF LoginBegin
<1>8. CASE PassConfig(w) \/ PassSecret(w) \/ Exchange(w)
  <2>1. PICK pc \in {"secret", "put", "exchange", "ensure"} : Goto(w, pc) /\ job[w] # Free
    BY <1>3, <1>8 DEF PassConfig, PassSecret, Exchange
  <2> QED
    BY <1>2, <1>3, <2>1, GotoQuiet DEF Late, Signed
<1>9. CASE PutState(w)
  <2>1. job[w].pc = "put" /\ job[w] # Free /\ Done(w)
    BY <1>3, <1>9 DEF PutState
  <2>2. job[w].op = "login"
    BY <1>3, <2>1, Kinds DEF JobOK, Ops
  <2> QED
    BY <1>6, <2>1, <2>2
<1>10. CASE EnsureUser(w)
  <2>1. /\ job[w].pc = "ensure" /\ job[w] # Free
        /\ Goto(w, IF job[w].op = "agent" THEN "upsert" ELSE "issue")
    BY <1>3, <1>10 DEF EnsureUser
  <2>2. job[w].op = "agent" \/ job[w].to = None
    BY <1>3, <2>1, Kinds DEF JobOK, Ops
  <2> QED
    BY <1>2, <1>3, <2>1, <2>2, GotoQuiet DEF Late, Signed
<1>11. CASE IssueCredential(w)
  <2>1. CASE job[w].op = "callback"
    BY <1>6, <1>11, <2>1 DEF IssueCredential
  <2>2. CASE job[w].op # "callback"
    <3>1. job[w].pc = "issue" /\ job[w] # Free /\ Goto(w, "reply")
      BY <1>3, <1>11, <2>2 DEF IssueCredential
    <3> QED
      BY <1>2, <1>3, <3>1, GotoQuiet DEF Late, Signed
  <2> QED
    BY <2>1, <2>2
<1> QED
  BY <1>1, <1>5, <1>7, <1>8, <1>9, <1>10, <1>11

\* Neither does the administration of the provider and of users.
LEMMA AdministerKinds ==
  ASSUME TypeInv, Administer \/ Collect
  PROVE  Quiet
<1>1. UNCHANGED <<now, dev, rows, revokedAt>>
  BY DEF Administer, Collect, deviceVars, CreateIDP, UpdateIDP, DeleteIDP, SetUserStatus, Janitor
<1>2. CASE job' = job
  BY <1>1, <1>2 DEF Quiet
<1>3. ASSUME NEW l \in BOOLEAN, NEW g \in BOOLEAN, Seen(l, g)
      PROVE  Quiet
  <2>1. \A v \in Workers : /\ job'[v].pc = job[v].pc /\ job'[v].to = job[v].to
                           /\ job'[v].at = job[v].at /\ job'[v].cert = job[v].cert
    BY <1>3, SeenFields
  <2> QED
    BY <1>1, <2>1 DEF Quiet
<1>4. CASE Collect \/ DeleteIDP
  BY <1>2, <1>4 DEF Collect, Janitor, DeleteIDP
<1> QED
  BY <1>3, <1>4 DEF Administer, CreateIDP, UpdateIDP, SetUserStatus

-----------------------------------------------------------------------------
(* Preservation of WaitInv.                                                *)

\* Every step keeps devices and their requests in agreement.
LEMMA WaitStep == TypeInv /\ JobInv /\ WaitInv /\ [Next]_vars => WaitInv'
<1> SUFFICES ASSUME TypeInv, JobInv, WaitInv, [Next]_vars PROVE WaitInv'
  OBVIOUS
<1>1. \A w \in Workers : job[w].to \in Identities \cup {None}
  BY Kinds
<1>2. dev \in [Identities -> Devs]
  BY DEF TypeInv, TypeOK, DeviceTypeOK
<1>3. CASE job' = job /\ \A i \in Identities : dev'[i].pc = dev[i].pc
  BY <1>1, <1>3, QuietWait
<1>4. CASE Quiet
  BY <1>1, <1>4, QuietWait DEF Quiet
<1>5. CASE UNCHANGED vars \/ Tick
  BY <1>3, <1>5 DEF Tick, vars, baseVars, deviceVars
<1>6. CASE Serve
  <2>1. ASSUME NEW w \in Workers, Ends(w)
        PROVE  WaitInv'
    BY <2>1, RefuseWait DEF Ends
  <2>2. ASSUME NEW w \in Workers, Admits(w) \/ Signs(w)
        PROVE  WaitInv'
    <3>1. dev' = dev /\ \A v \in Workers : job'[v].to = job[v].to
      BY <2>2 DEF Admits, Signs
    <3> QED
      BY <1>1, <3>1, QuietWait
  <2>3. ASSUME NEW w \in Workers, Reply(w)
        PROVE  WaitInv'
    <3>1. /\ Done(w)
          /\ \A i \in Identities : i # job[w].to => dev'[i] = dev[i]
          /\ job[w].to # None => dev'[job[w].to] = WithCert(dev[job[w].to], job[w]) /\ dev[job[w].to] \in Devs
      BY <1>1, <1>2, <2>3, Kinds DEF Reply
    <3>2. job[w].to # None => dev'[job[w].to].pc \notin {"asking", "renewing"}
      BY <3>1, WithCertPc
    <3> QED
      BY <3>1, <3>2, AnswerWait
  <2> QED
    BY <1>4, <1>6, <2>1, <2>2, <2>3, ServeKinds
<1>7. CASE Login \/ Administer \/ Collect
  BY <1>4, <1>7, LoginKinds, AdministerKinds
<1>8. CASE Device
  <2>1. PICK i \in Identities :
          \/ CreateEnrollment(i) \/ RevokeDevice(i)
          \/ \E how \in {"code", "tunnel", "idp"} : DeviceStart(i, how)
          \/ \E w \in Workers : FetchCert(w, i) \/ RenewCert(w, i)
          \/ ConnOpen(i) \/ ConnClose(i)
    BY <1>8 DEF Device
  <2>2. CASE CreateEnrollment(i) \/ RevokeDevice(i)
    BY <1>3, <2>2 DEF CreateEnrollment, RevokeDevice
  <2>3. ASSUME NEW how \in {"code", "tunnel", "idp"}, DeviceStart(i, how)
        PROVE  WaitInv'
    <3>1. /\ job' = job /\ dev[i].pc = "off" /\ dev'[i].pc = "boot"
          /\ \A j \in Identities : j # i => dev'[j] = dev[j]
      BY <1>2, <2>3 DEF DeviceStart, Off
    <3>2. \A j \in Identities : dev'[j].pc \in {"asking", "renewing"} <=> dev[j].pc \in {"asking", "renewing"}
      BY <3>1
    <3> QED
      BY <1>1, <3>1, <3>2, QuietWait
  <2>4. ASSUME NEW w \in Workers, FetchCert(w, i)
        PROVE  WaitInv'
    <3>1. /\ job[w] = Free /\ Request(w, "redeem", "select", i)
          /\ dev[i].pc = "boot" /\ dev' = [dev EXCEPT ![i].pc = "asking"]
      BY <2>4 DEF FetchCert, Request
    <3>2. (\A v \in Workers : v # w => job'[v] = job[v]) /\ job'[w].to = i
      BY <3>1, RequestFields
    <3> QED
      BY <3>1, <3>2, AskWait
  <2>5. ASSUME NEW w \in Workers, RenewCert(w, i)
        PROVE  WaitInv'
    <3>1. CASE now < dev[i].till
      <4>1. /\ job[w] = Free /\ Request(w, "renew", "check", i)
            /\ dev[i].pc = "up" /\ dev' = [dev EXCEPT ![i].pc = "renewing"]
        BY <2>5, <3>1 DEF RenewCert, Request
      <4>2. (\A v \in Workers : v # w => job'[v] = job[v]) /\ job'[w].to = i
        BY <4>1, RequestFields
      <4> QED
        BY <4>1, <4>2, AskWait
    <3>2. CASE ~(now < dev[i].till)
      <4>1. job' = job /\ dev' = [dev EXCEPT ![i].next = NextTry(dev[i].till, now), ![i].missed = RenewLead]
        BY <2>5, <3>2 DEF RenewCert
      <4>2. \A j \in Identities : dev'[j].pc = dev[j].pc
        BY <1>2, <4>1 DEF Devs
      <4> QED
        BY <1>3, <4>1, <4>2
    <3> QED
      BY <3>1, <3>2
  <2>6. CASE ConnOpen(i) \/ ConnClose(i)
    <3>1. \A j \in Identities : dev'[j].pc = dev[j].pc
      BY <1>2, <2>6 DEF ConnOpen, ConnClose, Devs
    <3> QED
      BY <1>3, <2>6, <3>1 DEF ConnOpen, ConnClose
  <2> QED
    BY <2>1, <2>2, <2>3, <2>4, <2>5, <2>6
<1>9. ASSUME NEW w \in Workers, HandlerStops(w)
      PROVE  WaitInv'
  BY <1>9, RefuseWait DEF HandlerStops
<1>10. ASSUME NEW w \in Workers, NEW i \in Identities, AgentEnroll(w, i)
       PROVE  WaitInv'
  <2>1. /\ job[w] = Free /\ Begin(w, "agent", i, i)
        /\ dev[i].pc = "boot" /\ dev' = [dev EXCEPT ![i].pc = "asking"]
    BY <1>10 DEF AgentEnroll, Begin
  <2>2. (\A v \in Workers : v # w => job'[v] = job[v]) /\ job'[w].to = i
    BY <2>1, BeginFields
  <2> QED
    BY <2>1, <2>2, AskWait
<1>11. CASE ServerRestart
  <2>1. \A w \in Workers : job'[w].to = None
    BY <1>11, Kinds DEF ServerRestart
  <2>2. \A i \in Identities : dev'[i].pc \notin {"asking", "renewing"}
    BY <1>2, <1>11, LeftWaiting DEF ServerRestart
  <2> QED
    BY <2>1, <2>2 DEF WaitInv
<1>12. ASSUME NEW i \in Identities, Restart(i)
       PROVE  WaitInv'
  <2>1. /\ DeviceRestart(i)
        /\ \A j \in Identities : j # i => dev'[j] = dev[j]
        /\ dev'[i].pc = "boot"
    BY <1>2, <1>12 DEF Restart, DeviceRestart, Off
  <2>2. \A v \in Workers : job'[v].to = IF job[v].to = i THEN None ELSE job[v].to
    BY <2>1, RestartFields
  <2>3. (\A v, w \in Workers : v # w /\ job[v].to # None => job[v].to # job[w].to)'
    BY <2>2 DEF WaitInv
  <2>4. (\A w \in Workers : job[w].to # None => dev[job[w].to].pc \in {"asking", "renewing"})'
    BY <1>1, <2>1, <2>2 DEF WaitInv
  <2>5. ASSUME NEW j \in Identities, dev'[j].pc \in {"asking", "renewing"}
        PROVE  \E w \in Workers : job'[w].to = j
    <3>1. j # i /\ dev[j].pc \in {"asking", "renewing"}
      BY <2>1, <2>5
    <3>2. PICK w \in Workers : job[w].to = j
      BY <3>1 DEF WaitInv
    <3> QED
      BY <2>2, <3>1, <3>2
  <2> QED
    BY <2>3, <2>4, <2>5 DEF WaitInv
<1> QED
  BY <1>5, <1>6, <1>7, <1>8, <1>9, <1>10, <1>11, <1>12 DEF Next

-----------------------------------------------------------------------------
(* What the clock leaves a device.                                         *)

\* A failed renewal moves the next one by a unit, and counts one more failure.
LEMMA LapseTime ==
  ASSUME now \in Nat, NEW d \in Devs, TimeOK(d, now)
  PROVE  TimeOK(WithoutCert(d), now) /\ WithoutCert(d).till = d.till /\ WithoutCert(d).conn = d.conn
<1>1. /\ d.till \in Nat /\ d.next \in Nat /\ d.missed \in 0 .. RenewLead
      /\ RenewLead \in Nat \ {0} /\ CertTTL \in Nat
  BY DeviceAssumption DEF Devs
<1>2. CASE d.pc = "asking"
  <2>1. WithoutCert(d) = [d EXCEPT !.pc = "boot"]
    BY <1>2 DEF WithoutCert
  <2>2. /\ WithoutCert(d).pc = "boot" /\ WithoutCert(d).till = d.till /\ WithoutCert(d).conn = d.conn
        /\ WithoutCert(d).how = d.how
    BY <2>1 DEF Devs
  <2> QED
    BY <2>2 DEF TimeOK
<1>3. CASE d.pc = "renewing"
  <2>1. WithoutCert(d) = [d EXCEPT !.pc = "up", !.next = NextTry(d.till, d.next),
                                   !.missed = IF d.missed < RenewLead THEN d.missed + 1 ELSE d.missed]
    BY <1>3 DEF WithoutCert
  <2>2. /\ WithoutCert(d).pc = "up" /\ WithoutCert(d).till = d.till /\ WithoutCert(d).conn = d.conn
        /\ WithoutCert(d).how = d.how /\ WithoutCert(d).next = NextTry(d.till, d.next)
        /\ WithoutCert(d).missed = IF d.missed < RenewLead THEN d.missed + 1 ELSE d.missed
    BY <2>1 DEF Devs
  <2>3. now <= NextTry(d.till, d.next)
    BY <1>1, <1>3 DEF NextTry, TimeOK
  <2>4. d.missed + 1 < RenewLead => NextTry(d.till, d.next) <= d.till - RenewLead + (d.missed + 1)
    <3>1. d.missed + 1 < RenewLead => d.next <= d.till - RenewLead + d.missed
      BY <1>1, <1>3 DEF TimeOK
    <3> QED
      BY <1>1, <3>1 DEF NextTry
  <2>5. WithoutCert(d).missed < RenewLead
          => d.missed + 1 < RenewLead /\ WithoutCert(d).missed = d.missed + 1
    BY <1>1, <2>2
  <2> QED
    BY <2>2, <2>3, <2>4, <2>5 DEF TimeOK
<1>4. CASE d.pc \notin {"asking", "renewing"}
  BY <1>4 DEF WithoutCert
<1> QED
  BY <1>2, <1>3, <1>4

\* A new certificate, signed while the request was served.
LEMMA CertTime ==
  ASSUME now \in Nat, NEW d \in Devs, TimeOK(d, now), NEW r, r.at \in Nat, r.cert \in Nat,
         r.at <= now, now <= r.at + 1, r.at + CertTTL <= r.cert, r.cert <= now + CertTTL
  PROVE  TimeOK(WithCert(d, r), now) /\ WithCert(d, r).till = r.cert /\ WithCert(d, r).conn = d.conn
<1>1. RenewLead \in Nat /\ CertTTL \in Nat /\ RenewLead < CertTTL
  BY DeviceAssumption
<1>2. /\ WithCert(d, r).pc = "up" /\ WithCert(d, r).till = r.cert /\ WithCert(d, r).conn = d.conn
      /\ WithCert(d, r).how = d.how /\ WithCert(d, r).next = NextTry(r.cert, r.at)
      /\ WithCert(d, r).missed = 0
  BY DEF WithCert, Devs
<1>3. now <= NextTry(r.cert, r.at) /\ NextTry(r.cert, r.at) <= r.cert - RenewLead + 0
  BY <1>1 DEF NextTry
<1> QED
  BY <1>1, <1>2, <1>3 DEF TimeOK

\* A renewal is asked for in time.
LEMMA AskTime ==
  ASSUME NEW t \in Nat, NEW d \in Devs, TimeOK(d, t), NEW pc \in {"asking", "renewing"},
         pc = "renewing" => d.pc = "up" /\ d.next = t
  PROVE  LET e == [d EXCEPT !.pc = pc]
         IN TimeOK(e, t) /\ e.till = d.till /\ e.conn = d.conn
<1>1. d.till \in Nat /\ d.next \in Nat /\ d.missed \in 0 .. RenewLead /\ RenewLead \in Nat
  BY DeviceAssumption DEF Devs
<1> DEFINE e == [d EXCEPT !.pc = pc]
<1>2. /\ e.pc = pc /\ e.till = d.till /\ e.next = d.next /\ e.missed = d.missed /\ e.conn = d.conn
      /\ e.how = d.how
  BY DEF Devs
<1>3. pc = "renewing" => /\ d.next <= t /\ t <= d.next + 1
                         /\ d.missed < RenewLead => d.next <= d.till - RenewLead + d.missed
  BY <1>1 DEF TimeOK
<1>4. pc # "up"
  OBVIOUS
<1> HIDE DEF e
<1>5. TimeOK(e, t)
  BY <1>2, <1>3, <1>4 DEF TimeOK
<1> QED
  BY <1>2, <1>5 DEF e

\* A device whose certificate and connection stay as they are.
LEMMA SameCut ==
  ASSUME NEW i \in Identities, CutOK(i), now' = now, rows'[i] = rows[i], revokedAt'[i] = revokedAt[i],
         dev'[i].till = dev[i].till, dev'[i].conn = dev[i].conn \/ dev'[i].conn = None
  PROVE  CutOK(i)'
BY DEF CutOK

\* Requests that are not admitted by a step, and no revocation.
LEMMA SameOvertaken ==
  ASSUME NEW w \in Workers, Overtaken(w), rows' = rows, revokedAt' = revokedAt,
         job'[w].to = None \/ /\ job'[w].to = job[w].to /\ job'[w].at = job[w].at
                              /\ job'[w].pc \in Late => job[w].pc \in Late
  PROVE  Overtaken(w)'
BY DEF Overtaken

\* Requests for which no certificate is signed by a step, and whose device does
\* not begin to renew.
LEMMA SamePunctual ==
  ASSUME NEW w \in Workers, Punctual(w), now' = now,
         job'[w].to = None \/ /\ job'[w].to = job[w].to /\ job'[w].at = job[w].at
                              /\ job'[w].pc \in Signed => job[w].pc \in Signed /\ job'[w].cert = job[w].cert
                              /\ dev'[job[w].to].pc = "renewing" => dev'[job[w].to] = dev[job[w].to]
  PROVE  Punctual(w)'
BY DEF Punctual

\* A quiet step keeps the bounds of time.
LEMMA QuietTime ==
  ASSUME TimeInv, Quiet
  PROVE  TimeInv'
<1>1. \A i \in Identities : TimeOK(dev[i], now)' /\ CutOK(i)'
  BY DEF TimeInv, Quiet, TimeOK, CutOK
<1>2. ASSUME NEW w \in Workers
      PROVE  Overtaken(w)' /\ Punctual(w)'
  BY SameOvertaken, SamePunctual DEF TimeInv, Quiet
<1> QED
  BY <1>1, <1>2 DEF TimeInv

\* So does a request that ends without a certificate.
LEMMA EndsTime ==
  ASSUME TypeInv, TimeInv, NEW w \in Workers, Ends(w)
  PROVE  TimeInv'
<1>1. /\ \A v \in Workers : v # w => job'[v] = job[v]
      /\ job'[w].to = None /\ UNCHANGED <<now, rows, revokedAt>>
      /\ dev \in [Identities -> Devs] /\ now \in Nat
      /\ dev' = IF job[w].to = None THEN dev ELSE [dev EXCEPT ![job[w].to] = WithoutCert(dev[job[w].to])]
  BY DoneFields, Kinds DEF Ends, Refuse, Disappointed, TypeInv, TypeOK, DeviceTypeOK, BaseTypeOK
<1>2. ASSUME NEW i \in Identities
      PROVE  dev'[i] = dev[i] \/ (dev'[i] = WithoutCert(dev[i]) /\ dev'[i].pc # "renewing")
  BY <1>1, LeftWaiting
<1>3. ASSUME NEW i \in Identities
      PROVE  TimeOK(dev[i], now)' /\ CutOK(i)'
  <2>1. TimeOK(dev[i], now) /\ CutOK(i) /\ dev[i] \in Devs
    BY <1>1 DEF TimeInv
  <2>2. TimeOK(dev'[i], now) /\ dev'[i].till = dev[i].till /\ dev'[i].conn = dev[i].conn
    BY <1>1, <1>2, <2>1, LapseTime
  <2> QED
    BY <1>1, <2>1, <2>2, SameCut
<1>4. ASSUME NEW v \in Workers
      PROVE  Overtaken(v)' /\ Punctual(v)'
  <2>1. job[v].to \in Identities \cup {None}
    BY Kinds
  <2> QED
    BY <1>1, <1>2, <2>1, SameOvertaken, SamePunctual DEF TimeInv
<1> QED
  BY <1>3, <1>4 DEF TimeInv

\* So does a request that is admitted.
LEMMA AdmitsTime ==
  ASSUME TypeInv, TimeInv, NEW w \in Workers, Admits(w)
  PROVE  TimeInv'
<1>1. ASSUME NEW i \in Identities
      PROVE  TimeOK(dev[i], now)' /\ CutOK(i)'
  <2>1. TimeOK(dev[i], now) /\ CutOK(i) /\ UNCHANGED <<now, dev, revokedAt>>
    BY DEF TimeInv, Admits
  <2>2. rows'[i] = rows[i] \/ rows'[i].status # "revoked"
    BY DEF Admits
  <2> QED
    BY <2>1, <2>2 DEF CutOK
<1>2. ASSUME NEW v \in Workers
      PROVE  Overtaken(v)' /\ Punctual(v)'
  <2>0. Overtaken(v) /\ Punctual(v) /\ UNCHANGED <<now, dev, revokedAt>>
    BY DEF TimeInv, Admits
  <2>1. CASE v = w
    <3>1. Overtaken(v)'
      BY <2>1 DEF Admits, Overtaken
    <3>2. job'[v].to = job[v].to /\ job'[v].at = job[v].at /\ job'[v].pc \notin Signed
      BY <2>1 DEF Admits, Signed
    <3> QED
      BY <2>0, <3>1, <3>2, SamePunctual
  <2>2. CASE v # w
    <3>1. job'[v] = job[v]
      BY <2>2 DEF Admits
    <3>2. job[v].to # None => rows'[job[v].to] = rows[job[v].to] \/ rows'[job[v].to].status # "revoked"
      BY Kinds DEF Admits
    <3>3. Overtaken(v)'
      BY <2>0, <3>1, <3>2 DEF Overtaken
    <3> QED
      BY <2>0, <3>1, <3>3, SamePunctual
  <2> QED
    BY <2>1, <2>2
<1> QED
  BY <1>1, <1>2 DEF TimeInv

\* So does the signature, which comes a unit after the request at the latest.
LEMMA SignsTime ==
  ASSUME TypeInv, TimeInv, NEW w \in Workers, Signs(w)
  PROVE  TimeInv'
<1>1. \A i \in Identities : TimeOK(dev[i], now)' /\ CutOK(i)'
  BY DEF TimeInv, Signs, TimeOK, CutOK
<1>2. ASSUME NEW v \in Workers
      PROVE  Overtaken(v)' /\ Punctual(v)'
  <2>0. Overtaken(v) /\ Punctual(v) /\ UNCHANGED <<now, dev, rows, revokedAt>>
    BY DEF TimeInv, Signs
  <2>1. CASE v = w
    <3>1. /\ job'[v].to = job[v].to /\ job'[v].at = job[v].at /\ job'[v].cert = now + CertTTL
          /\ job[v].pc \in Late
      BY <2>1 DEF Signs
    <3>2. Overtaken(v)'
      BY <2>0, <3>1, SameOvertaken
    <3>3. now \in Nat /\ job[v].at \in Nat /\ CertTTL \in Nat
      BY Kinds, DeviceAssumption DEF TypeInv, TypeOK, BaseTypeOK
    <3>4. Punctual(v)'
      BY <2>0, <3>1, <3>3 DEF Punctual
    <3> QED
      BY <3>2, <3>4
  <2>2. CASE v # w
    <3>1. job'[v] = job[v]
      BY <2>2 DEF Signs
    <3> QED
      BY <2>0, <3>1, SameOvertaken, SamePunctual
  <2> QED
    BY <2>1, <2>2
<1> QED
  BY <1>1, <1>2 DEF TimeInv

\* The answer was asked for before the revocation, if there is one: its
\* certificate is a unit younger at most.
LEMMA ReplyTime ==
  ASSUME TypeInv, TimeInv, NEW w \in Workers, Reply(w)
  PROVE  TimeInv'
<1>1. /\ \A v \in Workers : v # w => job'[v] = job[v]
      /\ job'[w].to = None /\ UNCHANGED <<now, rows, revokedAt>>
      /\ dev \in [Identities -> Devs] /\ now \in Nat /\ CertTTL \in Nat /\ revokedAt \in [Identities -> Nat]
      /\ dev' = IF job[w].to = None THEN dev ELSE [dev EXCEPT ![job[w].to] = WithCert(dev[job[w].to], job[w])]
      /\ job[w].pc = "reply" /\ None \notin Identities /\ job[w].at \in Nat /\ job[w].cert \in Nat
  BY DoneFields, Kinds, DeviceAssumption DEF Reply, TypeInv, TypeOK, DeviceTypeOK, BaseTypeOK
<1>2. ASSUME NEW i \in Identities
      PROVE  \/ dev'[i] = dev[i]
             \/ i = job[w].to /\ dev'[i] = WithCert(dev[i], job[w]) /\ dev'[i].pc # "renewing"
  BY <1>1, WithCertPc
<1>3. ASSUME NEW i \in Identities
      PROVE  TimeOK(dev[i], now)' /\ CutOK(i)'
  <2>1. TimeOK(dev[i], now) /\ CutOK(i) /\ dev[i] \in Devs /\ Overtaken(w) /\ Punctual(w)
    BY <1>1 DEF TimeInv
  <2>2. CASE dev'[i] = dev[i]
    BY <1>1, <2>1, <2>2, SameCut
  <2>3. CASE i = job[w].to /\ dev'[i] = WithCert(dev[i], job[w])
    <3>0. /\ job[w].at <= now /\ now <= job[w].at + 1 /\ job[w].at + CertTTL <= job[w].cert
          /\ job[w].cert <= now + CertTTL /\ job[w].cert <= job[w].at + CertTTL + 1
      BY <1>1, <2>1, <2>3 DEF Punctual, Signed
    <3>1. TimeOK(dev'[i], now) /\ dev'[i].till = job[w].cert /\ dev'[i].conn = dev[i].conn
      BY <1>1, <2>1, <2>3, <3>0, CertTime
    <3>2. rows[i].status = "revoked" => job[w].at <= revokedAt[i]
      BY <1>1, <2>1, <2>3 DEF Overtaken, Late, Signed
    <3>3. rows[i].status = "revoked" => job[w].cert <= revokedAt[i] + CertTTL + 1
      BY <1>1, <3>0, <3>2
    <3>4. CutOK(i)'
      BY <1>1, <2>1, <3>1, <3>3 DEF CutOK
    <3> QED
      BY <1>1, <3>1, <3>4
  <2> QED
    BY <1>2, <2>2, <2>3
<1>4. ASSUME NEW v \in Workers
      PROVE  Overtaken(v)' /\ Punctual(v)'
  <2>1. job[v].to \in Identities \cup {None}
    BY Kinds
  <2> QED
    BY <1>1, <1>2, <2>1, SameOvertaken, SamePunctual DEF TimeInv
<1> QED
  BY <1>3, <1>4 DEF TimeInv

\* A step of the device i alone, or of its row.
LEMMA OwnTime ==
  ASSUME TimeInv, NEW i \in Identities, UNCHANGED now,
         \A j \in Identities : j # i => dev'[j] = dev[j] /\ rows'[j] = rows[j] /\ revokedAt'[j] = revokedAt[j],
         TimeOK(dev[i], now)', CutOK(i)', \A w \in Workers : Punctual(w)',
         \A w \in Workers : job[w].to \in Identities \cup {None},
         \A w \in Workers : \/ job'[w].to = None \/ job'[w].pc \notin Late
                            \/ job'[w] = job[w] /\ (job[w].to = i /\ rows'[i].status = "revoked" =>
                                                     rows'[i] = rows[i] /\ revokedAt'[i] = revokedAt[i])
                            \/ revokedAt'[i] = now /\ job'[w] = job[w]
  PROVE  TimeInv'
<1>1. ASSUME NEW j \in Identities
      PROVE  TimeOK(dev[j], now)' /\ CutOK(j)'
  BY DEF TimeInv, TimeOK, CutOK
<1>2. ASSUME NEW w \in Workers
      PROVE  Overtaken(w)'
  <2>1. CASE job'[w].to = None \/ job'[w].pc \notin Late
    BY <2>1 DEF Overtaken
  <2>2. CASE job'[w] = job[w] /\ job[w].to # i /\ job[w].to # None
    BY <2>2 DEF Overtaken, TimeInv
  <2>3. CASE job'[w] = job[w] /\ job[w].to = i /\ job[w].to # None
    <3>1. CASE revokedAt'[i] = now
      BY <2>3, <3>1 DEF Overtaken, TimeInv, Punctual
    <3>2. CASE rows'[i].status = "revoked" => rows'[i] = rows[i] /\ revokedAt'[i] = revokedAt[i]
      BY <2>3, <3>2 DEF Overtaken, TimeInv
    <3> QED
      BY <2>1, <2>3, <3>1, <3>2
  <2> QED
    BY <2>1, <2>2, <2>3
<1> QED
  BY <1>1, <1>2 DEF TimeInv

\* A device sends a request, a renewal at the moment its loop wakes up.
LEMMA AskPunctual ==
  ASSUME TypeInv, WaitInv, TimeInv, NEW w \in Workers, NEW i \in Identities, now' = now,
         \A v \in Workers : v # w => job'[v] = job[v],
         job'[w].to = i, job'[w].at = now, job'[w].pc \notin Signed,
         NEW pc \in {"asking", "renewing"}, pc = "renewing" => dev[i].pc = "up" /\ dev[i].next = now,
         dev' = [dev EXCEPT ![i].pc = pc]
  PROVE  \A v \in Workers : Punctual(v)'
<1>1. dev \in [Identities -> Devs] /\ now \in Nat
  BY DEF TypeInv, TypeOK, DeviceTypeOK, BaseTypeOK
<1>2. /\ \A j \in Identities : j # i => dev'[j] = dev[j]
      /\ dev'[i].pc = pc /\ dev'[i].next = dev[i].next
  BY <1>1 DEF Devs
<1>3. Punctual(w)'
  BY <1>1, <1>2 DEF Punctual
<1>4. ASSUME NEW v \in Workers, v # w
      PROVE  Punctual(v)'
  <2>1. Punctual(v) /\ job'[v] = job[v] /\ job[v].to \in Identities \cup {None}
    BY <1>4, Kinds DEF TimeInv
  <2>2. CASE job[v].to = i /\ pc = "renewing"
    BY <2>2, Kinds DEF WaitInv
  <2>3. CASE job[v].to # i \/ pc = "asking"
    BY <1>2, <2>1, <2>3, SamePunctual
  <2> QED
    BY <2>2, <2>3
<1> QED
  BY <1>3, <1>4

\* Administration of a device, and its own steps.
LEMMA DeviceTime ==
  ASSUME TypeInv, WaitInv, TimeInv, Device
  PROVE  TimeInv'
<1>1. PICK i \in Identities :
        \/ CreateEnrollment(i) \/ RevokeDevice(i)
        \/ \E how \in {"code", "tunnel", "idp"} : DeviceStart(i, how)
        \/ \E w \in Workers : FetchCert(w, i) \/ RenewCert(w, i)
        \/ ConnOpen(i) \/ ConnClose(i)
  BY DEF Device
<1>2. /\ dev \in [Identities -> Devs] /\ dev[i] \in Devs /\ rows \in [Identities -> Rows] /\ now \in Nat
      /\ revokedAt \in [Identities -> Nat] /\ revokedAt[i] \in Nat /\ CertTTL \in Nat /\ None \notin Nat
      /\ dev[i].till \in Nat /\ dev[i].next \in Nat /\ dev[i].missed \in 0 .. RenewLead
      /\ dev[i].conn \in Nat \cup {None} /\ RenewLead \in Nat /\ ConnAge \in Nat
  BY DeviceAssumption DEF TypeInv, TypeOK, DeviceTypeOK, BaseTypeOK, Devs
<1>3. TimeOK(dev[i], now) /\ CutOK(i) /\ \A w \in Workers : job[w].to \in Identities \cup {None}
  BY Kinds DEF TimeInv
\* The device's steps other than those of its loop.
<1>0. ASSUME UNCHANGED <<now, job>>,
             \A j \in Identities : j # i => dev'[j] = dev[j],
             dev'[i].pc = "renewing" => dev[i].pc = "renewing" /\ dev'[i].next = dev[i].next
      PROVE  \A w \in Workers : Punctual(w)'
  BY <1>0, <1>3 DEF TimeInv, Punctual
<1>4. ASSUME UNCHANGED <<now, job, rows, revokedAt>>,
             \A j \in Identities : j # i => dev'[j] = dev[j],
             dev'[i].pc = "renewing" => dev[i].pc = "renewing" /\ dev'[i].next = dev[i].next,
             TimeOK(dev'[i], now), CutOK(i)'
      PROVE  TimeInv'
  BY <1>0, <1>3, <1>4, OwnTime
<1>5. CASE CreateEnrollment(i)
  <2>1. /\ UNCHANGED <<now, job, revokedAt, dev>> /\ rows'[i].status = "pending"
        /\ \A j \in Identities : j # i => rows'[j] = rows[j]
    BY <1>2, <1>5 DEF CreateEnrollment
  <2>2. CutOK(i)'
    BY <2>1 DEF CutOK
  <2>3. TimeOK(dev[i], now)' /\ \A w \in Workers : Punctual(w)'
    BY <1>0, <1>3, <2>1
  <2> QED
    BY <1>3, <2>1, <2>2, <2>3, OwnTime
<1>6. CASE RevokeDevice(i)
  <2>1. /\ UNCHANGED <<now, job, dev>> /\ revokedAt'[i] = now
        /\ \A j \in Identities : j # i => rows'[j] = rows[j] /\ revokedAt'[j] = revokedAt[j]
    BY <1>2, <1>6 DEF RevokeDevice
  <2>2. CutOK(i)'
    BY <1>2, <1>3, <2>1 DEF CutOK, TimeOK
  <2>3. TimeOK(dev[i], now)' /\ \A w \in Workers : Punctual(w)'
    BY <1>0, <1>3, <2>1
  <2> QED
    BY <1>3, <2>1, <2>2, <2>3, OwnTime
<1>7. ASSUME NEW how \in {"code", "tunnel", "idp"}, DeviceStart(i, how)
      PROVE  TimeInv'
  <2>1. /\ UNCHANGED <<now, job, rows, revokedAt>>
        /\ dev'[i].pc = "boot" /\ dev'[i].till = 0 /\ dev'[i].conn = None
        /\ \A j \in Identities : j # i => dev'[j] = dev[j]
    BY <1>2, <1>7 DEF DeviceStart, Off
  <2>2. TimeOK(dev'[i], now)
    BY <1>2, <2>1 DEF TimeOK
  <2>3. CutOK(i)'
    BY <1>2, <1>3, <2>1, <2>2 DEF CutOK
  <2> QED
    BY <1>4, <2>1, <2>2, <2>3
<1>8. ASSUME NEW w \in Workers, NEW op, NEW pc \in {"select", "check"}, Request(w, op, pc, i),
             NEW to \in {"asking", "renewing"}, to = "renewing" => dev[i].pc = "up" /\ dev[i].next = now,
             dev' = [dev EXCEPT ![i].pc = to], UNCHANGED <<now, rows, revokedAt>>
      PROVE  TimeInv'
  <2>1. /\ dev'[i] = [dev[i] EXCEPT !.pc = to]
        /\ \A j \in Identities : j # i => dev'[j] = dev[j]
    BY <1>2, <1>8
  <2>2. TimeOK(dev'[i], now) /\ dev'[i].till = dev[i].till /\ dev'[i].conn = dev[i].conn
    <3> DEFINE e == [dev[i] EXCEPT !.pc = to]
    <3>1. TimeOK(e, now) /\ e.till = dev[i].till /\ e.conn = dev[i].conn
      BY <1>2, <1>3, <1>8, AskTime
    <3> QED
      BY <2>1, <3>1
  <2>3. CutOK(i)'
    BY <1>3, <1>8, <2>2, SameCut
  <2>4. /\ \A v \in Workers : v # w => job'[v] = job[v]
        /\ job'[w].pc \notin Late /\ job'[w].pc \notin Signed /\ job'[w].to = i /\ job'[w].at = now
    BY <1>8, RequestFields DEF Late, Signed
  <2>5. \A v \in Workers : Punctual(v)'
    BY <1>8, <2>4, AskPunctual
  <2> QED
    BY <1>3, <1>8, <2>1, <2>2, <2>3, <2>4, <2>5, OwnTime
<1>9. ASSUME NEW w \in Workers, FetchCert(w, i)
      PROVE  TimeInv'
  BY <1>8, <1>9 DEF FetchCert
<1>10. ASSUME NEW w \in Workers, RenewCert(w, i)
       PROVE  TimeInv'
  <2>1. CASE now < dev[i].till
    <3>1. dev[i].pc = "up" /\ dev[i].next = now
      BY <1>2, <1>3, <1>10 DEF RenewCert, TimeOK
    <3> QED
      BY <1>8, <1>10, <2>1, <3>1 DEF RenewCert
  <2>2. CASE ~(now < dev[i].till)
    <3>1. /\ UNCHANGED <<now, job, rows, revokedAt>> /\ dev[i].pc = "up"
          /\ dev' = [dev EXCEPT ![i].next = NextTry(dev[i].till, now), ![i].missed = RenewLead]
      BY <1>10, <2>2 DEF RenewCert
    <3>2. /\ dev'[i].pc = "up" /\ dev'[i].till = dev[i].till /\ dev'[i].conn = dev[i].conn
          /\ dev'[i].next = NextTry(dev[i].till, now) /\ dev'[i].missed = RenewLead
          /\ dev'[i].how = dev[i].how
          /\ \A j \in Identities : j # i => dev'[j] = dev[j]
      BY <1>2, <3>1 DEF Devs
    <3>3. now <= NextTry(dev[i].till, now)
      BY <1>2 DEF NextTry
    <3>4. TimeOK(dev'[i], now)
      BY <1>2, <1>3, <3>2, <3>3 DEF TimeOK
    <3>5. CutOK(i)'
      BY <1>3, <3>1, <3>2, SameCut
    <3> QED
      BY <1>4, <3>1, <3>2, <3>4, <3>5
  <2> QED
    BY <2>1, <2>2
<1>11. CASE ConnOpen(i) \/ ConnClose(i)
  <2>1. /\ UNCHANGED <<now, job, rows, revokedAt>>
        /\ \A j \in Identities : j # i => dev'[j] = dev[j]
        /\ dev'[i].pc = dev[i].pc /\ dev'[i].till = dev[i].till /\ dev'[i].next = dev[i].next
        /\ dev'[i].missed = dev[i].missed /\ dev'[i].how = dev[i].how
        /\ dev'[i].conn = None \/ (dev'[i].conn = now /\ now < dev[i].till)
    BY <1>2, <1>11 DEF ConnOpen, ConnClose, Devs
  <2>2. TimeOK(dev'[i], now)
    BY <1>2, <1>3, <2>1 DEF TimeOK
  <2>3. CutOK(i)'
    BY <1>2, <1>3, <2>1 DEF CutOK
  <2> QED
    BY <1>4, <2>1, <2>2, <2>3
<1> QED
  BY <1>1, <1>5, <1>6, <1>7, <1>9, <1>10, <1>11

\* The clock moves once at most while a device waits for an answer.
LEMMA TickTime ==
  ASSUME TypeInv, WaitInv, TimeInv, Tick
  PROVE  TimeInv'
<1>1. /\ now' = now + 1 /\ UNCHANGED <<job, dev, rows, revokedAt>> /\ InTime
      /\ now \in Nat /\ CertTTL \in Nat /\ ConnAge \in Nat /\ RenewLead \in Nat
      /\ revokedAt \in [Identities -> Nat]
  BY DeviceAssumption DEF Tick, deviceVars, TypeInv, TypeOK, BaseTypeOK, DeviceTypeOK
<1>2. ASSUME NEW w \in Workers, job[w].to # None
      PROVE  job[w].at = now /\ job[w].to \in Identities /\ Punctual(w)
  BY <1>1, <1>2, Kinds DEF InTime, TimeInv
<1>3. ASSUME NEW i \in Identities
      PROVE  TimeOK(dev[i], now)' /\ CutOK(i)'
  <2>1. TimeOK(dev[i], now) /\ CutOK(i) /\ ~Aged(i) /\ (dev[i].pc = "up" => now < dev[i].next)
    BY <1>1 DEF TimeInv, InTime
  <2>2. /\ dev[i].till \in Nat /\ dev[i].next \in Nat /\ dev[i].missed \in 0 .. RenewLead
        /\ dev[i].conn \in Nat \cup {None} /\ revokedAt[i] \in Nat
    BY <1>1 DEF TypeInv, TypeOK, DeviceTypeOK, Devs
  <2>3. ASSUME dev[i].pc = "renewing"
        PROVE  dev[i].next = now
    <3>1. PICK w \in Workers : job[w].to = i
      BY <2>3 DEF WaitInv
    <3>2. job[w].to # None
      BY <3>1, Kinds
    <3> QED
      BY <1>2, <2>3, <3>1, <3>2 DEF Punctual
  <2>4. dev[i].conn # None => /\ dev[i].conn <= now + 1
                              /\ dev[i].how = "code" => now + 1 <= dev[i].conn + ConnAge
    BY <1>1, <2>1, <2>2 DEF TimeOK, Aged
  <2>5. TimeOK(dev[i], now + 1)
    BY <1>1, <2>1, <2>2, <2>3, <2>4 DEF TimeOK
  <2>6. CutOK(i)'
    BY <1>1, <2>1, <2>2 DEF CutOK
  <2> QED
    BY <1>1, <2>5, <2>6
<1>4. ASSUME NEW w \in Workers
      PROVE  Overtaken(w)' /\ Punctual(w)'
  <2>1. Overtaken(w)'
    BY <1>1, SameOvertaken DEF TimeInv
  <2>2. CASE job[w].to = None
    BY <1>1, <2>1, <2>2 DEF Punctual
  <2>3. CASE job[w].to # None
    <3>1. job[w].at \in Nat /\ job[w].cert \in Nat
      BY Kinds
    <3>2. Punctual(w)'
      BY <1>1, <1>2, <2>3, <3>1 DEF Punctual
    <3> QED
      BY <2>1, <3>2
  <2> QED
    BY <2>1, <2>2, <2>3
<1> QED
  BY <1>3, <1>4 DEF TimeInv

\* A device or the server starts again.
LEMMA RestartTime ==
  ASSUME TypeInv, TimeInv, ServerRestart \/ \E i \in Identities : Restart(i)
  PROVE  TimeInv'
<1>1. /\ UNCHANGED <<now, rows, revokedAt>> /\ now \in Nat
      /\ dev \in [Identities -> Devs] /\ revokedAt \in [Identities -> Nat] /\ CertTTL \in Nat
  BY DeviceAssumption DEF ServerRestart, Restart, DeviceRestart, TypeInv, TypeOK, BaseTypeOK, DeviceTypeOK
<1>2. ASSUME NEW j \in Identities
      PROVE  /\ TimeOK(dev[j], now)' /\ CutOK(j)'
             /\ dev'[j] = dev[j] \/ dev'[j].pc # "renewing"
  <2>1. TimeOK(dev[j], now) /\ CutOK(j) /\ dev[j] \in Devs
    BY <1>1 DEF TimeInv
  <2>2. CASE dev'[j] = dev[j]
    BY <1>1, <2>1, <2>2, SameCut
  <2>3. CASE dev'[j] = WithoutCert(dev[j])
    <3>1. TimeOK(dev'[j], now) /\ dev'[j].till = dev[j].till /\ dev'[j].conn = dev[j].conn
      BY <1>1, <2>1, <2>3, LapseTime
    <3>2. dev'[j].pc # "renewing"
      BY <2>1, <2>3, LeftWaiting
    <3> QED
      BY <1>1, <2>1, <3>1, <3>2, SameCut
  <2>4. CASE dev'[j] = [Off EXCEPT !.pc = "boot", !.how = dev[j].how]
    <3>1. dev'[j].pc = "boot" /\ dev'[j].till = 0 /\ dev'[j].conn = None
      BY <2>4 DEF Off
    <3>2. TimeOK(dev'[j], now)
      BY <1>1, <3>1 DEF TimeOK
    <3>3. CutOK(j)'
      BY <1>1, <2>1, <3>1 DEF CutOK
    <3> QED
      BY <1>1, <3>1, <3>2, <3>3
  <2> QED
    BY <1>1, <2>2, <2>3, <2>4 DEF ServerRestart, Restart, DeviceRestart
<1>3. ASSUME NEW v \in Workers
      PROVE  Overtaken(v)' /\ Punctual(v)'
  <2>1. \/ job'[v].to = None
        \/ /\ job'[v].to = job[v].to /\ job'[v].pc = job[v].pc
           /\ job'[v].at = job[v].at /\ job'[v].cert = job[v].cert
    BY RestartFields, Kinds DEF ServerRestart, Restart
  <2>2. job[v].to \in Identities \cup {None} /\ Overtaken(v) /\ Punctual(v)
    BY Kinds DEF TimeInv
  <2> QED
    BY <1>1, <1>2, <2>1, <2>2, SameOvertaken, SamePunctual
<1> QED
  BY <1>2, <1>3 DEF TimeInv

\* An agent asks for its first certificate.
LEMMA AgentTime ==
  ASSUME TypeInv, WaitInv, TimeInv, NEW w \in Workers, NEW i \in Identities, AgentEnroll(w, i)
  PROVE  TimeInv'
<1>1. /\ Begin(w, "agent", i, i) /\ UNCHANGED <<now, rows, revokedAt>>
      /\ dev' = [dev EXCEPT ![i].pc = "asking"]
      /\ dev \in [Identities -> Devs] /\ dev[i] \in Devs /\ now \in Nat
  BY DEF AgentEnroll, TypeInv, TypeOK, BaseTypeOK, DeviceTypeOK
<1>2. TimeOK(dev[i], now) /\ CutOK(i) /\ \A v \in Workers : job[v].to \in Identities \cup {None}
  BY Kinds DEF TimeInv
<1>3. /\ dev'[i] = [dev[i] EXCEPT !.pc = "asking"]
      /\ \A j \in Identities : j # i => dev'[j] = dev[j]
  BY <1>1
<1>4. TimeOK(dev'[i], now) /\ dev'[i].till = dev[i].till /\ dev'[i].conn = dev[i].conn
  BY <1>1, <1>2, <1>3, AskTime
<1>5. CutOK(i)'
  BY <1>1, <1>2, <1>4, SameCut
<1>6. /\ \A v \in Workers : v # w => job'[v] = job[v]
      /\ job'[w].pc \notin Late /\ job'[w].pc \notin Signed /\ job'[w].to = i /\ job'[w].at = now
  BY <1>1, BeginFields DEF Late, Signed
<1>7. \A v \in Workers : Punctual(v)'
  BY <1>1, <1>6, AskPunctual
<1> QED
  BY <1>1, <1>2, <1>3, <1>4, <1>5, <1>6, <1>7, OwnTime

\* Every step keeps the bounds of time.
LEMMA TimeStep == TypeInv /\ JobInv /\ WaitInv /\ TimeInv /\ [Next]_vars => TimeInv'
<1> SUFFICES ASSUME TypeInv, JobInv, WaitInv, TimeInv, [Next]_vars PROVE TimeInv'
  OBVIOUS
<1>1. CASE UNCHANGED vars
  BY <1>1 DEF vars, baseVars, deviceVars, TimeInv, TimeOK, CutOK, Overtaken, Punctual
<1>2. CASE Serve
  BY <1>2, ServeKinds, QuietTime, EndsTime, AdmitsTime, SignsTime, ReplyTime
<1>3. CASE Login \/ Administer \/ Collect
  BY <1>3, LoginKinds, AdministerKinds, QuietTime
<1>4. ASSUME NEW w \in Workers, HandlerStops(w)
      PROVE  TimeInv'
  <2>1. Ends(w)
    BY <1>4 DEF HandlerStops, Ends
  <2> QED
    BY <2>1, EndsTime
<1> QED
  BY <1>1, <1>2, <1>3, <1>4, DeviceTime, TickTime, RestartTime, AgentTime DEF Next

\* They hold at the start.
LEMMA TimeInit == Init => WaitInv /\ TimeInv
BY DeviceAssumption DEF Init, BaseInit, DeviceInit, WaitInv, TimeInv, TimeOK, CutOK, Overtaken, Punctual, Free, Off, NoRow

\* The inductive invariant of the two theorems that follow.
LEMMA Timely == Spec => [](TypeInv /\ WaitInv /\ TimeInv)
BY TypeInit, TypeStep, JobInit, JobStep, TimeInit, WaitStep, TimeStep, PTL DEF Spec

(***************************************************************************)
(* RunRenewLoop never lets the certificate of a device lapse while fewer   *)
(* than RenewLead - 1 renewals in a row have failed, each as late as its   *)
(* timeout lets it, for any life and lead of certificates, any number of   *)
(* devices and any order of the requests.                                  *)
(***************************************************************************)
THEOREM NoLapse == Spec => []NeverLapses
<1>1. TypeInv /\ TimeInv => NeverLapses
  <2> SUFFICES ASSUME TypeInv, TimeInv, NEW i \in Identities,
                      dev[i].pc \in {"up", "renewing"}, dev[i].missed + 1 < RenewLead
               PROVE  now < dev[i].till
    BY DEF NeverLapses
  <2>1. /\ now \in Nat /\ dev[i].till \in Nat /\ dev[i].next \in Nat /\ dev[i].missed \in 0 .. RenewLead
        /\ RenewLead \in Nat /\ TimeOK(dev[i], now)
    BY DeviceAssumption DEF TypeInv, TypeOK, BaseTypeOK, DeviceTypeOK, Devs, TimeInv
  <2> QED
    BY <2>1 DEF TimeOK
<1> QED
  BY <1>1, Timely, PTL

(***************************************************************************)
(* A revoked device has no valid certificate CertTTL + 1 after the         *)
(* revocation, and opens no connection or tunnel after CertTTL; what       *)
(* serveLoop has opened is closed ConnAge later at the latest (the comment *)
(* on serveLoop in cmd/connector).  This holds also when RevokeDevice      *)
(* comes between the check of a renewal and its signature, however much of *)
(* its unit the request takes.  Nothing is claimed of how long a tunnel    *)
(* lasts.                                                                  *)
(***************************************************************************)
THEOREM RevocationBites == Spec => []RevokedCut
<1>1. TypeInv /\ TimeInv => RevokedCut
  <2> SUFFICES ASSUME TypeInv, TimeInv, NEW i \in Identities, rows[i].status = "revoked"
               PROVE  /\ dev[i].till <= revokedAt[i] + CertTTL + 1
                      /\ dev[i].conn # None =>
                           /\ dev[i].conn <= revokedAt[i] + CertTTL
                           /\ dev[i].how = "code" => now <= revokedAt[i] + CertTTL + ConnAge
    BY DEF RevokedCut
  <2>1. /\ now \in Nat /\ revokedAt[i] \in Nat /\ dev[i].conn \in Nat \cup {None}
        /\ CertTTL \in Nat /\ ConnAge \in Nat /\ TimeOK(dev[i], now) /\ CutOK(i)
    BY DeviceAssumption DEF TypeInv, TypeOK, BaseTypeOK, DeviceTypeOK, Devs, TimeInv
  <2> QED
    BY <2>1 DEF TimeOK, CutOK
<1> QED
  BY <1>1, Timely, PTL

=============================================================================
