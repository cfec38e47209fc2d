------------------------- MODULE MarketplacesProofs -------------------------
(***************************************************************************)
(* Marketplaces, for either facade, any set of calls, any threshold and    *)
(* any number of retries: its types, that tokens are judged rightly, that  *)
(* each breaker follows its own host, and that a close leaves no session.  *)
(***************************************************************************)
EXTENDS Marketplaces, WellFoundedInduction, TLAPS

-----------------------------------------------------------------------------
(* The invariant, by who changes its variables: the owner, the calls, and the
   attempts on the hosts. *)

OwnerOK ==
    /\ facade \in Facades
    /\ badUrl \in Range(facade.hosts) \cup {"none"}
    /\ owner \in {"out", "in", "leaving", "left"}
    /\ at \in 0..Len(facade.hosts)
    /\ session \in [Hosts -> {"none", "open", "closing"}]

\* Hosts of other facades have no session.
NoStrangers == \A h \in Hosts \ Range(facade.hosts) : session[h] = "none"

\* close has done with the hosts before the one it is at.
InTurn ==
    owner = "leaving" =>
        /\ at \in DOMAIN facade.hosts
        /\ \A i \in 1..(at - 1) : session[facade.hosts[i]] = "none"

OwnerInv == OwnerOK /\ NoStrangers /\ InTurn /\ CloseClosesAll

CallsOK ==
    /\ facade \in Facades
    /\ pc \in [Calls -> {"calling", "cut", "backoff", "reading", "done"}]
    /\ op \in [Calls -> DOMAIN facade.endpoints]
    /\ attempts \in [Calls -> 0..(MaxRetries + 1)]
    /\ \A c \in Calls : attempts[c] = 0 <=> pc[c] = "done"
    /\ status \in [Calls -> Statuses]
    /\ result \in [Calls -> DomainErrors \cup {"none", "ok", "false", "other_error"}]
    /\ token \in {"valid", "revoked"}
    /\ vouched \subseteq Calls

RetriesLeft == \A c \in Calls : pc[c] = "backoff" => attempts[c] <= MaxRetries

\* What is known of the token while a call is under way: as long as it is good,
\* every attempt was sent with a good one.
Judging ==
    \A c \in Calls :
        /\ pc[c] = "calling" /\ token = "valid" => c \in vouched
        /\ pc[c] = "reading" /\ status[c] = "ok" => c \in vouched
        /\ pc[c] = "reading" /\ status[c] = "auth" => token = "revoked"
        /\ pc[c] # "done" => result[c] = "none"

CallInv == CallsOK /\ RetriesLeft /\ Judging /\ TokenIsJudgedRightly

CountsOK ==
    /\ streak \in [Hosts -> 0..Threshold]
    /\ silent \in [Hosts -> 0..Threshold]
    /\ trouble \in [Hosts -> 0..Threshold]

CountInv == CountsOK /\ BreakersFollowTheirHosts

\* Inductive.
MarketInv == OwnerInv /\ CallInv /\ CountInv

-----------------------------------------------------------------------------
(* The tables of the facades, and the least position. *)

LEMMA WBFacts ==
    /\ WBHosts \in Seq(Hosts)
    /\ DOMAIN WBHosts = 1..Len(WBHosts)
    /\ \A e \in DOMAIN WBEndpoints : WBEndpoints[e].host \in Hosts
    /\ "ping" \in DOMAIN WBEndpoints
  <1>1. DOMAIN WBHosts = 1..5 /\ Len(WBHosts) = 5
    BY DEF WBHosts
  <1>2. \A i \in 1..5 : WBHosts[i] \in Hosts
    BY <1>1 DEF Hosts, Range
  <1>3. WBHosts \in Seq(Hosts)
    BY <1>1, <1>2 DEF WBHosts
  <1>4. \A e \in DOMAIN WBEndpoints : \E i \in 1..5 : WBEndpoints[e].host = WBHosts[i]
    BY DEF WBHosts, WBEndpoints, Endpoint
  <1>5. "ping" \in DOMAIN WBEndpoints
    BY DEF WBEndpoints
  <1> QED
    BY <1>1, <1>2, <1>3, <1>4, <1>5

LEMMA OzonFacts ==
    ASSUME NEW p \in BOOLEAN
    PROVE  /\ OzonHosts(p) \in Seq(Hosts)
           /\ DOMAIN OzonHosts(p) = 1..Len(OzonHosts(p))
           /\ \A e \in DOMAIN OzonEndpoints : OzonEndpoints[e].host \in Hosts
           /\ "ping" \in DOMAIN OzonEndpoints
  <1>1. \A i \in DOMAIN OzonHosts(TRUE) : OzonHosts(TRUE)[i] \in Hosts
    BY DEF Hosts, Range
  <1>2. "seller" \in Hosts /\ "performance" \in Hosts
    <2>1. 1 \in DOMAIN OzonHosts(TRUE) /\ 2 \in DOMAIN OzonHosts(TRUE)
      BY DEF OzonHosts
    <2>2. OzonHosts(TRUE)[1] = "seller" /\ OzonHosts(TRUE)[2] = "performance"
      BY DEF OzonHosts
    <2> QED
      BY <1>1, <2>1, <2>2
  <1>3. OzonHosts(p) \in Seq(Hosts) /\ DOMAIN OzonHosts(p) = 1..Len(OzonHosts(p))
    <2>1. OzonHosts(p) = <<"seller", "performance">> \/ OzonHosts(p) = <<"seller">>
      BY DEF OzonHosts
    <2>2. CASE OzonHosts(p) = <<"seller", "performance">>
      BY <1>2, <2>2
    <2>3. CASE OzonHosts(p) = <<"seller">>
      BY <1>2, <2>3
    <2> QED
      BY <2>1, <2>2, <2>3
  <1>4. \A e \in DOMAIN OzonEndpoints : OzonEndpoints[e].host = "seller"
    BY DEF OzonEndpoints, Endpoint
  <1>5. "ping" \in DOMAIN OzonEndpoints
    BY DEF OzonEndpoints
  <1> QED
    BY <1>2, <1>3, <1>4, <1>5

LEMMA FacadeFacts ==
    ASSUME facade \in Facades
    PROVE  /\ facade.hosts \in Seq(Hosts)
           /\ DOMAIN facade.hosts = 1..Len(facade.hosts)
           /\ \A e \in DOMAIN facade.endpoints : facade.endpoints[e].host \in Hosts
           /\ "ping" \in DOMAIN facade.endpoints
  <1>1. CASE facade = [hosts |-> WBHosts, endpoints |-> WBEndpoints]
    BY <1>1, WBFacts
  <1>2. ASSUME NEW p \in BOOLEAN,
               facade = [hosts |-> OzonHosts(p), endpoints |-> OzonEndpoints]
        PROVE  /\ facade.hosts \in Seq(Hosts)
               /\ DOMAIN facade.hosts = 1..Len(facade.hosts)
               /\ \A e \in DOMAIN facade.endpoints : facade.endpoints[e].host \in Hosts
               /\ "ping" \in DOMAIN facade.endpoints
    BY <1>2, OzonFacts
  <1> QED
    BY <1>1, <1>2 DEF Facades

LEMMA MinOf ==
    ASSUME NEW S, S \subseteq Nat, S # {}
    PROVE  Min(S) \in S /\ \A y \in S : Min(S) <= y
  <1> DEFINE Less == {ss \in Nat \X Nat : ss[1] < ss[2]}
  <1>1. IsWellFoundedOn(Less, Nat)
    BY NatLessThanWellFounded DEF OpToRel
  <1>2. PICK x \in S : \A y \in S : ~ (<<y, x>> \in Less)
    <2> HIDE DEF Less
    <2> QED
      BY <1>1, WFMin
  <1>3. ASSUME NEW y \in S  PROVE x <= y
    <2>1. <<y, x>> \in Nat \X Nat /\ <<y, x>>[1] = y /\ <<y, x>>[2] = x
      OBVIOUS
    <2>2. ~ (y < x)
      BY <1>2, <2>1
    <2> QED
      BY <2>2
  <1> QED
    BY <1>3 DEF Min

-----------------------------------------------------------------------------
(* The owner. *)

LEMMA CloseFromStep ==
    ASSUME OwnerInv, NEW k \in 1..(Len(facade.hosts) + 1), CloseFrom(k),
           \A i \in 1..(k - 2) : session[facade.hosts[i]] = "none"
    PROVE  OwnerInv'
  <1> DEFINE hosts == facade.hosts
             n == Len(facade.hosts)
             Open == {i \in k..n : session[hosts[i]] = "open"}
             next == IF Open = {} THEN n + 1 ELSE Min(Open)
  <1>1. /\ hosts \in Seq(Hosts) /\ n \in Nat /\ DOMAIN hosts = 1..n
        /\ \A i \in 1..n : hosts[i] \in Hosts
    BY FacadeFacts DEF OwnerInv, OwnerOK
  <1>2. /\ Open # {} => next \in Open
        /\ Open = {} => next = n + 1
        /\ next \in 1..(n + 1)
    <2>1. Open \subseteq Nat
      BY <1>1
    <2>2. Open # {} => Min(Open) \in Open
      BY <2>1, MinOf
    <2>3. Open \subseteq 1..n
      BY <1>1
    <2> HIDE DEF Open, n
    <2>4. CASE Open = {}
      BY <1>1, <2>4
    <2>5. CASE Open # {}
      <3>1. next = Min(Open)
        BY <2>5
      <3> HIDE DEF next
      <3>2. next \in Open
        BY <2>2, <2>5, <3>1
      <3> QED
        BY <1>1, <2>3, <2>5, <3>2
    <2> QED
      BY <2>4, <2>5
  <1>3. /\ session' = [h \in Hosts |->
               IF \E i \in DOMAIN hosts \cap (k - 1)..(next - 1) : hosts[i] = h
               THEN "none"
               ELSE IF next \in Open /\ h = hosts[next] THEN "closing"
               ELSE session[h]]
        /\ IF Open = {} THEN owner' = "left" /\ at' = 0
                        ELSE owner' = "leaving" /\ at' = next
        /\ UNCHANGED <<facade, badUrl>>
    BY DEF CloseFrom
  <1>4. next \in Open => session[hosts[next]] = "open" /\ next \in 1..n
    BY <1>1
  <1> HIDE DEF Open, next
  <1>5. OwnerOK'
    BY <1>1, <1>2, <1>3, <1>4 DEF OwnerInv, OwnerOK
  <1>6. ASSUME NEW i \in 1..(next - 1)  PROVE session'[hosts[i]] = "none"
    <2>1. i \in 1..n /\ hosts[i] \in Hosts
      BY <1>1, <1>2
    <2>2. CASE k - 1 <= i
      <3>1. i \in DOMAIN hosts \cap (k - 1)..(next - 1)
        BY <1>1, <1>2, <2>1, <2>2
      <3> QED
        BY <1>3, <2>1, <3>1
    <2>3. CASE ~(k - 1 <= i)
      <3>1. i \in 1..(k - 2)
        BY <2>1, <2>3
      <3>2. session[hosts[i]] = "none"
        BY <3>1
      <3> QED
        BY <1>3, <1>4, <2>1, <3>2
    <2> QED
      BY <2>2, <2>3
  <1>7. NoStrangers'
    <2>1. ASSUME NEW h \in Hosts, h \notin Range(hosts)  PROVE session'[h] = "none"
      <3>1. \A i \in 1..n : hosts[i] # h
        BY <1>1, <2>1 DEF Range
      <3>2. session[h] = "none"
        BY <2>1 DEF OwnerInv, NoStrangers
      <3> QED
        BY <1>1, <1>3, <1>4, <3>1, <3>2
    <2> QED
      BY <1>3, <2>1 DEF NoStrangers
  <1>8. InTurn'
    BY <1>1, <1>2, <1>3, <1>4, <1>6 DEF InTurn
  <1>9. CloseClosesAll'
    <2>1. ASSUME Open = {}, NEW h \in Hosts  PROVE session'[h] = "none"
      <3>1. CASE h \in Range(hosts)
        <4>1. PICK i \in 1..n : hosts[i] = h
          BY <1>1, <3>1 DEF Range
        <4> QED
          BY <1>1, <1>2, <1>6, <2>1, <4>1
      <3>2. CASE h \notin Range(hosts)
        BY <1>3, <1>7, <3>2 DEF NoStrangers
      <3> QED
        BY <3>1, <3>2
    <2> QED
      BY <1>3, <2>1 DEF CloseClosesAll
  <1> QED
    BY <1>5, <1>7, <1>8, <1>9 DEF OwnerInv

LEMMA OwnerStep ==
    ASSUME OwnerInv, Next
    PROVE  OwnerInv'
  <1>1. /\ Len(facade.hosts) \in Nat
        /\ DOMAIN facade.hosts = 1..Len(facade.hosts)
        /\ \A i \in 1..Len(facade.hosts) : facade.hosts[i] \in Hosts
    BY FacadeFacts DEF OwnerInv, OwnerOK
  <1>2. CASE Start
    <2>1. OwnerOK'
      BY <1>2 DEF Start, OwnerInv, OwnerOK
    <2>2. NoStrangers'
      BY <1>2 DEF Start, Reached, OwnerInv, OwnerOK, NoStrangers, Range
    <2>3. InTurn' /\ CloseClosesAll'
      BY <1>2 DEF Start, InTurn, CloseClosesAll
    <2> QED
      BY <2>1, <2>2, <2>3 DEF OwnerInv
  <1>3. CASE Leave
    BY <1>1, <1>3, CloseFromStep DEF Leave
  <1>4. CASE CloseHost
    <2>1. /\ at \in 1..Len(facade.hosts)
          /\ \A i \in 1..(at - 1) : session[facade.hosts[i]] = "none"
      BY <1>1, <1>4 DEF CloseHost, OwnerInv, InTurn
    <2>2. at + 1 \in 1..(Len(facade.hosts) + 1) /\ (at + 1) - 2 = at - 1
      BY <1>1, <2>1
    <2> QED
      BY <1>4, <2>1, <2>2, CloseFromStep DEF CloseHost
  <1>5. CASE Abandon
    BY <1>1, <1>5
    DEF Abandon, OwnerInv, OwnerOK, NoStrangers, InTurn, CloseClosesAll
  <1>6. ASSUME UNCHANGED facadeVars  PROVE OwnerInv'
    BY <1>6
    DEF facadeVars, OwnerInv, OwnerOK, NoStrangers, InTurn, CloseClosesAll
  <1>7. CASE Revoke
    BY <1>6, <1>7 DEF Revoke
  <1>8. ASSUME NEW c \in Calls, NEW e, Call(c, e)  PROVE OwnerInv'
    BY <1>6, <1>8 DEF Call
  <1>9. ASSUME NEW c \in Calls, NEW s, Respond(c, s)  PROVE OwnerInv'
    BY <1>6, <1>9 DEF Respond
  <1>10. ASSUME NEW c \in Calls,
                RespondTransient(c) \/ NoResponse(c) \/ Retry(c) \/ Read(c) \/ Cancel(c)
         PROVE  OwnerInv'
    BY <1>6, <1>10 DEF RespondTransient, NoResponse, Retry, Read, Cancel
  <1> QED
    BY <1>2, <1>3, <1>4, <1>5, <1>7, <1>8, <1>9, <1>10 DEF Next

-----------------------------------------------------------------------------
(* The calls. *)

\* A call is over with what its last attempt justifies.
LEMMA FinishStep ==
    ASSUME CallInv, NEW c \in Calls, NEW x \in DomainErrors \cup {"ok", "other_error"},
           Finish(c, x), UNCHANGED <<facade, token>>,
           x = "ok" => c \in vouched,
           x = "auth_error" => token = "revoked"
    PROVE  CallInv'
  <1>1. \A d \in Calls :
          /\ d = c => pc'[d] = "done" /\ result'[d] = Returned(c, x) /\ op'[d] = "ping"
                                      /\ attempts'[d] = 0 /\ status'[d] = "ok"
          /\ d # c => /\ pc'[d] = pc[d] /\ result'[d] = result[d] /\ op'[d] = op[d]
                      /\ attempts'[d] = attempts[d] /\ status'[d] = status[d]
                      /\ d \in vouched' <=> d \in vouched
    BY DEF Finish, CallInv, CallsOK
  <1>2. /\ Returned(c, x) \in DomainErrors \cup {"false", "ok", "other_error"}
        /\ Returned(c, x) = "ok" => x = "ok"
        /\ Returned(c, x) = "auth_error" => x = "auth_error"
    BY DEF Returned, DomainErrors
  <1>3. CallsOK'
    <2>1. "ping" \in DOMAIN facade.endpoints
      BY FacadeFacts DEF CallInv, CallsOK
    <2>2. MaxRetries \in Nat
      BY MarketplacesAssumption
    <2>3. /\ pc' \in [Calls -> {"calling", "cut", "backoff", "reading", "done"}]
          /\ op' \in [Calls -> DOMAIN facade'.endpoints]
          /\ attempts' \in [Calls -> 0..(MaxRetries + 1)]
          /\ status' \in [Calls -> Statuses]
      BY <2>1, <2>2 DEF Finish, CallInv, CallsOK, Statuses
    <2>4. result' \in [Calls -> DomainErrors \cup {"none", "ok", "false", "other_error"}]
      BY <1>2 DEF Finish, CallInv, CallsOK
    <2>5. vouched' \subseteq Calls
      BY DEF Finish, CallInv, CallsOK
    <2>6. \A d \in Calls : attempts'[d] = 0 <=> pc'[d] = "done"
      BY <1>1 DEF CallInv, CallsOK
    <2> QED
      BY <2>3, <2>4, <2>5, <2>6 DEF CallInv, CallsOK
  <1>4. RetriesLeft' /\ Judging'
    BY <1>1 DEF CallInv, RetriesLeft, Judging
  <1>5. TokenIsJudgedRightly'
    <2>1. Returned(c, x) = "ok" => c \in vouched'
      BY <1>2 DEF Finish
    <2> QED
      BY <1>1, <1>2, <2>1 DEF CallInv, TokenIsJudgedRightly
  <1> QED
    BY <1>3, <1>4, <1>5 DEF CallInv

LEMMA AttemptStep ==
    ASSUME CallInv, NEW c \in Calls, NEW e \in DOMAIN facade.endpoints, Attempt(c, e),
           attempts[c] <= MaxRetries, UNCHANGED <<facade, token>>
    PROVE  CallInv'
  <1>1. CASE Finish(c, "other_error")
    BY <1>1, FinishStep
  <1>2. CASE /\ Goes(c, "calling")
             /\ op' = [op EXCEPT ![c] = e]
             /\ attempts' = [attempts EXCEPT ![c] = @ + 1]
             /\ result' = [result EXCEPT ![c] = "none"]
             /\ vouched' = IF token = "valid" THEN vouched \cup {c} ELSE vouched \ {c}
             /\ UNCHANGED status
    <2>1. attempts[c] \in Nat /\ MaxRetries \in Nat
      BY MarketplacesAssumption DEF CallInv, CallsOK
    <2>2. attempts[c] + 1 \in 0..(MaxRetries + 1) /\ attempts[c] + 1 # 0
      BY <2>1
    <2>3. \A d \in Calls :
            /\ d = c => pc'[d] = "calling" /\ result'[d] = "none"
                                           /\ attempts'[d] = attempts[c] + 1
            /\ d # c => /\ pc'[d] = pc[d] /\ result'[d] = result[d]
                        /\ attempts'[d] = attempts[d]
                        /\ d \in vouched' <=> d \in vouched
            /\ status'[d] = status[d]
      BY <1>2 DEF Goes, CallInv, CallsOK
    <2>4. CallsOK'
      <3>1. \A d \in Calls : attempts'[d] = 0 <=> pc'[d] = "done"
        BY <2>2, <2>3 DEF CallInv, CallsOK
      <3> QED
        BY <1>2, <2>2, <3>1 DEF Goes, CallInv, CallsOK
    <2>5. RetriesLeft'
      BY <2>3 DEF CallInv, RetriesLeft
    <2>6. token = "valid" => c \in vouched'
      BY <1>2
    <2>7. Judging' /\ TokenIsJudgedRightly'
      BY <2>3, <2>6 DEF CallInv, Judging, TokenIsJudgedRightly
    <2> QED
      BY <2>4, <2>5, <2>7 DEF CallInv
  <1> QED
    BY <1>1, <1>2 DEF Attempt

\* A call that goes on, with the attempts it has.
LEMMA GoesStep ==
    ASSUME CallInv, NEW c \in Calls, NEW phase \in {"backoff", "reading"},
           pc[c] # "done", Goes(c, phase), UNCHANGED <<facade, token>>,
           UNCHANGED <<op, attempts, result, vouched>>,
           phase = "backoff" => attempts[c] <= MaxRetries,
           NEW s \in Statuses, status' = [status EXCEPT ![c] = s],
           phase = "reading" /\ s = "ok" => c \in vouched,
           phase = "reading" /\ s = "auth" => token = "revoked"
    PROVE  CallInv'
  <1>1. \A d \in Calls :
          /\ d = c => pc'[d] = phase /\ status'[d] = s
          /\ d # c => pc'[d] = pc[d] /\ status'[d] = status[d]
    BY DEF Goes, CallInv, CallsOK
  <1>2. CallsOK'
    <2>1. \A d \in Calls : attempts'[d] = 0 <=> pc'[d] = "done"
      BY <1>1 DEF CallInv, CallsOK
    <2> QED
      BY <2>1 DEF Goes, CallInv, CallsOK
  <1>3. RetriesLeft' /\ Judging' /\ TokenIsJudgedRightly'
    BY <1>1 DEF CallInv, RetriesLeft, Judging, TokenIsJudgedRightly
  <1> QED
    BY <1>2, <1>3 DEF CallInv

LEMMA AgainStep ==
    ASSUME CallInv, NEW c \in Calls, NEW error \in {"api_error", "other_error"},
           pc[c] # "done", Again(c, error), UNCHANGED <<facade, token>>
    PROVE  CallInv'
  <1>1. CASE Finish(c, error)
    BY <1>1, FinishStep DEF DomainErrors
  <1>2. CASE /\ attempts[c] <= MaxRetries
             /\ Goes(c, "backoff") /\ UNCHANGED <<op, attempts, status, result, vouched>>
    <2>1. status[c] \in Statuses /\ status' = [status EXCEPT ![c] = status[c]]
      BY <1>2 DEF CallInv, CallsOK
    <2> QED
      BY <1>2, <2>1, GoesStep
  <1> QED
    BY <1>1, <1>2 DEF Again

\* close cuts calls short, which nothing is known of then.
LEMMA CutStep ==
    ASSUME CallInv, NEW k, CloseFrom(k)
    PROVE  CallInv'
  <1>1. /\ pc' \in [Calls -> {"calling", "cut", "backoff", "reading", "done"}]
        /\ \A d \in Calls : pc'[d] = pc[d] \/ (pc[d] = "calling" /\ pc'[d] = "cut")
    BY DEF CloseFrom, CallInv, CallsOK
  <1>2. UNCHANGED <<facade, op, attempts, status, result, vouched, token>>
    BY DEF CloseFrom, hostVars
  <1>3. CallsOK'
    <2>1. \A d \in Calls : attempts'[d] = 0 <=> pc'[d] = "done"
      BY <1>1, <1>2 DEF CallInv, CallsOK
    <2> QED
      BY <1>1, <1>2, <2>1 DEF CallInv, CallsOK
  <1>4. RetriesLeft' /\ Judging' /\ TokenIsJudgedRightly'
    BY <1>1, <1>2 DEF CallInv, RetriesLeft, Judging, TokenIsJudgedRightly
  <1> QED
    BY <1>3, <1>4 DEF CallInv

LEMMA CallStep ==
    ASSUME CallInv, Next
    PROVE  CallInv'
  <1> USE DEF facadeVars
  <1>1. CASE Start \/ Abandon
    BY <1>1 DEF Start, Abandon, callVars, CallInv, CallsOK, RetriesLeft, Judging,
                TokenIsJudgedRightly
  <1>2. CASE Leave \/ CloseHost
    BY <1>2, CutStep DEF Leave, CloseHost
  <1>3. CASE Revoke
    <2>1. CallsOK'
      BY <1>3 DEF Revoke, callVars, CallInv, CallsOK
    <2>2. RetriesLeft' /\ Judging' /\ TokenIsJudgedRightly'
      BY <1>3 DEF Revoke, callVars, CallInv, CallsOK, RetriesLeft, Judging,
                  TokenIsJudgedRightly
    <2> QED
      BY <2>1, <2>2 DEF CallInv
  <1>4. ASSUME NEW c \in Calls, NEW e \in DOMAIN facade.endpoints, Call(c, e)
        PROVE  CallInv'
    <2>1. attempts[c] <= MaxRetries
      BY <1>4, MarketplacesAssumption DEF Call, CallInv, CallsOK
    <2> QED
      BY <1>4, <2>1, AttemptStep, FinishStep DEF Call
  <1>5. ASSUME NEW c \in Calls, NEW s \in Statuses, Respond(c, s)  PROVE CallInv'
    <2>1. s = "ok" => c \in vouched
      BY <1>5 DEF Respond, Says, CallInv, Judging
    <2>2. s = "auth" => token = "revoked"
      BY <1>5 DEF Respond, Says
    <2> QED
      BY <1>5, <2>1, <2>2, GoesStep DEF Respond
  <1>6. ASSUME NEW c \in Calls, RespondTransient(c)  PROVE CallInv'
    <2>1. MapHttpError("transient") = "api_error"
      BY DEF MapHttpError
    <2> QED
      BY <1>6, <2>1, AgainStep, FinishStep DEF RespondTransient
  <1>7. ASSUME NEW c \in Calls, NoResponse(c)  PROVE CallInv'
    BY <1>7, AgainStep, FinishStep DEF NoResponse
  <1>8. ASSUME NEW c \in Calls, Retry(c)  PROVE CallInv'
    BY <1>8, AttemptStep DEF Retry, CallInv, CallsOK, RetriesLeft
  <1>9. ASSUME NEW c \in Calls, Read(c)  PROVE CallInv'
    <2>1. PICK x \in {IF status[c] = "ok" THEN "ok" ELSE MapHttpError(status[c]),
                      IF op[c] = "list_stocks" /\ status[c] = "ok"
                      THEN "api_error" ELSE "other_error",
                      "other_error"} : Finish(c, x)
      BY <1>9 DEF Read
    <2>2. /\ x \in DomainErrors \cup {"ok", "other_error"}
          /\ x = "ok" => status[c] = "ok"
          /\ x = "auth_error" => status[c] = "auth"
      BY <2>1 DEF MapHttpError, DomainErrors
    <2>3. /\ x = "ok" => c \in vouched
          /\ x = "auth_error" => token = "revoked"
      BY <1>9, <2>2 DEF Read, CallInv, Judging
    <2> QED
      BY <1>9, <2>1, <2>2, <2>3, FinishStep DEF Read
  <1>10. ASSUME NEW c \in Calls, Cancel(c)  PROVE CallInv'
    BY <1>10, FinishStep DEF Cancel
  <1> QED
    BY <1>1, <1>2, <1>3, <1>4, <1>5, <1>6, <1>7, <1>8, <1>9, <1>10 DEF Next

-----------------------------------------------------------------------------
(* The counts of the hosts. *)

LEMMA MoreFacts ==
    ASSUME NEW n \in 0..Threshold, NEW m \in 0..Threshold, n <= m
    PROVE  More(n) \in 0..Threshold /\ More(n) <= More(m) /\ 0 <= More(n)
  BY MarketplacesAssumption DEF More

LEMMA FailsStep ==
    ASSUME CountInv, NEW h \in Hosts, NEW silence \in BOOLEAN, Fails(h, silence)
    PROVE  CountInv'
  <1>1. \A g \in Hosts :
          /\ streak[g] \in 0..Threshold /\ silent[g] \in 0..Threshold
          /\ trouble[g] \in 0..Threshold
          /\ silent[g] <= streak[g] /\ streak[g] <= trouble[g]
    BY DEF CountInv, CountsOK, BreakersFollowTheirHosts
  <1>2. /\ streak' = [streak EXCEPT ![h] = More(streak[h])]
        /\ silent' = [silent EXCEPT ![h] = IF silence THEN More(silent[h]) ELSE 0]
        /\ trouble' = [trouble EXCEPT ![h] = More(trouble[h])]
    BY DEF Fails
  <1>3. /\ More(streak[h]) \in 0..Threshold /\ More(silent[h]) \in 0..Threshold
        /\ More(trouble[h]) \in 0..Threshold
        /\ More(silent[h]) <= More(streak[h]) /\ More(streak[h]) <= More(trouble[h])
        /\ 0 <= More(streak[h]) /\ 0 \in 0..Threshold
    BY <1>1, MoreFacts, MarketplacesAssumption
  <1>4. CountsOK'
    BY <1>2, <1>3 DEF CountInv, CountsOK
  <1>5. ASSUME NEW g \in Hosts  PROVE silent'[g] <= streak'[g] /\ streak'[g] <= trouble'[g]
    <2>1. CASE g = h
      BY <1>2, <1>3, <2>1 DEF CountInv, CountsOK
    <2>2. CASE g # h
      BY <1>1, <1>2, <2>2 DEF CountInv, CountsOK
    <2> QED
      BY <2>1, <2>2
  <1> QED
    BY <1>4, <1>5 DEF CountInv, BreakersFollowTheirHosts

\* Any response but one that is retried ends the silence and the streak; only a
\* transient one leaves trouble.
LEMMA RespondStep ==
    ASSUME CountInv, NEW c \in Calls, HostOf(c) \in Hosts, NEW s, Respond(c, s)
    PROVE  CountInv'
  <1> DEFINE h == HostOf(c)
             t == IF s = "transient" THEN More(trouble[h]) ELSE 0
  <1>1. /\ streak' = [streak EXCEPT ![h] = 0]
        /\ silent' = [silent EXCEPT ![h] = 0]
        /\ trouble' = [trouble EXCEPT ![h] = t]
    BY DEF Respond
  <1>2. 0 \in 0..Threshold /\ t \in 0..Threshold /\ 0 <= t
    BY MoreFacts, MarketplacesAssumption DEF CountInv, CountsOK
  <1> HIDE DEF h, t
  <1>3. CountsOK'
    BY <1>1, <1>2 DEF CountInv, CountsOK
  <1>4. ASSUME NEW g \in Hosts  PROVE silent'[g] <= streak'[g] /\ streak'[g] <= trouble'[g]
    <2>1. CASE g = h
      BY <1>1, <1>2, <2>1 DEF CountInv, CountsOK
    <2>2. CASE g # h
      BY <1>1, <2>2 DEF CountInv, CountsOK, BreakersFollowTheirHosts
    <2> QED
      BY <2>1, <2>2
  <1> QED
    BY <1>3, <1>4 DEF CountInv, BreakersFollowTheirHosts

LEMMA CountStep ==
    ASSUME CallInv, CountInv, Next
    PROVE  CountInv'
  <1>1. \A e \in DOMAIN facade.endpoints : facade.endpoints[e].host \in Hosts
    BY FacadeFacts DEF CallInv, CallsOK
  <1>2. \A c \in Calls : HostOf(c) \in Hosts
    BY <1>1 DEF CallInv, CallsOK, HostOf
  <1>3. ASSUME UNCHANGED hostVars  PROVE CountInv'
    BY <1>3 DEF hostVars, CountInv, CountsOK, BreakersFollowTheirHosts
  <1>4. CASE Start \/ Leave \/ CloseHost \/ Abandon \/ Revoke
    BY <1>3, <1>4 DEF Start, Leave, CloseHost, CloseFrom, Abandon, Revoke
  <1>5. ASSUME NEW c \in Calls, NEW e \in DOMAIN facade.endpoints, Attempt(c, e)
        PROVE  CountInv'
    BY <1>1, <1>3, <1>5, FailsStep DEF Attempt, hostVars
  <1>6. ASSUME NEW c \in Calls, NEW e \in DOMAIN facade.endpoints, Call(c, e)
        PROVE  CountInv'
    BY <1>3, <1>5, <1>6 DEF Call
  <1>7. ASSUME NEW c \in Calls, Retry(c)  PROVE CountInv'
    BY <1>5, <1>7 DEF Retry, CallInv, CallsOK
  <1>8. ASSUME NEW c \in Calls, NEW s \in Statuses, Respond(c, s)  PROVE CountInv'
    BY <1>2, <1>8, RespondStep
  <1>9. ASSUME NEW c \in Calls, RespondTransient(c) \/ NoResponse(c)  PROVE CountInv'
    BY <1>2, <1>9, FailsStep DEF RespondTransient, NoResponse
  <1>10. ASSUME NEW c \in Calls, Read(c) \/ Cancel(c)  PROVE CountInv'
    BY <1>3, <1>10 DEF Read, Cancel
  <1> QED
    BY <1>4, <1>6, <1>7, <1>8, <1>9, <1>10 DEF Next

-----------------------------------------------------------------------------

LEMMA MarketInvariant == Spec => []MarketInv
  <1>1. ASSUME Init  PROVE MarketInv
    <2>1. facade \in Facades /\ "ping" \in DOMAIN facade.endpoints
      BY <1>1, FacadeFacts DEF Init
    <2>2. Len(facade.hosts) \in Nat
      BY <2>1, FacadeFacts
    <2>3. OwnerInv
      BY <1>1, <2>1, <2>2
      DEF Init, OwnerInv, OwnerOK, NoStrangers, InTurn, CloseClosesAll
    <2>4. CallInv
      BY <1>1, <2>1, MarketplacesAssumption
      DEF Init, CallInv, CallsOK, RetriesLeft, Judging, TokenIsJudgedRightly, Statuses
    <2>5. CountInv
      BY <1>1, MarketplacesAssumption
      DEF Init, CountInv, CountsOK, BreakersFollowTheirHosts
    <2> QED
      BY <2>3, <2>4, <2>5 DEF MarketInv
  <1>2. MarketInv /\ [Next]_vars => MarketInv'
    <2>1. ASSUME MarketInv, Next  PROVE MarketInv'
      BY <2>1, OwnerStep, CallStep, CountStep DEF MarketInv
    <2>2. ASSUME MarketInv, UNCHANGED vars  PROVE MarketInv'
      <3>1. OwnerInv'
        BY <2>2 DEF vars, facadeVars, MarketInv, OwnerInv, OwnerOK, NoStrangers, InTurn,
                    CloseClosesAll
      <3>2. CallInv'
        BY <2>2 DEF vars, facadeVars, callVars, MarketInv, CallInv, CallsOK, RetriesLeft,
                    Judging, TokenIsJudgedRightly
      <3>3. CountInv'
        BY <2>2 DEF vars, hostVars, MarketInv, CountInv, CountsOK, BreakersFollowTheirHosts
      <3> QED
        BY <3>1, <3>2, <3>3 DEF MarketInv
    <2> QED
      BY <2>1, <2>2
  <1> QED
    BY <1>1, <1>2, PTL DEF Spec

(* A call has sent as many attempts as its phase and max_retries allow, and the
   breakers count up to their threshold. *)
THEOREM MarketTypeCorrect == Spec => []TypeOK
  <1>1. MarketInv => TypeOK
    BY DEF MarketInv, OwnerInv, OwnerOK, CallInv, CallsOK, CountInv, CountsOK, TypeOK
  <1> QED
    BY <1>1, MarketInvariant, PTL

(* ping is True only of a token that was good when it was sent, and only a
   revoked token raises the authentication error, whatever the outages and
   retries in between. *)
THEOREM TokensAreJudgedRightly == Spec => []TokenIsJudgedRightly
  <1>1. MarketInv => TokenIsJudgedRightly
    BY DEF MarketInv, CallInv
  <1> QED
    BY <1>1, MarketInvariant, PTL

(* However many calls share a facade, the breaker of each host counts all of
   that host's silence and none of another's trouble. *)
THEOREM BreakersKeepToTheirHosts == Spec => []BreakersFollowTheirHosts
  <1>1. MarketInv => BreakersFollowTheirHosts
    BY DEF MarketInv, CountInv
  <1> QED
    BY <1>1, MarketInvariant, PTL

(* A close that runs to its end leaves no session, after any sequence of failed
   starts and interrupted closes. *)
THEOREM NoSessionIsLeft == Spec => []CloseClosesAll
  <1>1. MarketInv => CloseClosesAll
    BY DEF MarketInv, OwnerInv
  <1> QED
    BY <1>1, MarketInvariant, PTL

=============================================================================
