-------------------------------- MODULE Api --------------------------------
(***************************************************************************)
(* The HTTP API: require_auth stands before every handler, the accounts'   *)
(* own and the devices'.  The two share nothing but the process, which     *)
(* ends and starts again for both.                                         *)
(***************************************************************************)
EXTENDS Accounts, Devices

CONSTANTS
  Cases,       \* where the model may begin: [acc, open, dev, rows, restarts]
  Timed        \* tokens whose time may pass

\* The requests name devices' requests, and the token of a login is a fresh one.
ASSUME ApiAssumption ==
  /\ \A r \in AccReqs : r.op = "device" => r.dev \in DevReqs
  /\ Cases \subseteq [acc : SUBSET AccReqs, open : [Tokens -> Users \cup {Nobody}],
                      dev : SUBSET DevReqs, rows : [Ids -> Seq(Cfgs)], restarts : Nat]
  /\ \A s \in Cases, r \in AccReqs : r.op = "login" => s.open[r] = Nobody
  /\ Timed \subseteq Tokens

VARIABLE restarts   \* bound: how often the process may still end

apivars == <<avars, dvars, restarts>>

ApiInit ==
  \E s \in Cases : /\ AccInit(s.acc, s.open) /\ DevInit(s.dev, s.rows)
                   /\ restarts = s.restarts

\* A request to the devices that was let in.
Serve(r) ==
  /\ r.op = "device" /\ AccAt(r, "in") /\ DevBegin(r.dev)
  /\ To(r, "done") /\ UNCHANGED <<users, session, cache, expired, gen, version, restarts>> /\ Watch({})

Restart ==
  /\ restarts > 0 /\ restarts' = restarts - 1
  /\ AccRestart /\ DevRestart

ApiNext ==
  \/ \E r \in AccReqs : Serve(r) \/ (AccStep(r) /\ UNCHANGED <<dvars, restarts>>)
  \/ \E t \in Timed : Expire(t) /\ UNCHANGED <<dvars, restarts>>
  \/ \E r \in DevReqs : DevStep(r) /\ UNCHANGED <<avars, restarts>>
  \/ Boot /\ UNCHANGED <<avars, restarts>>
  \/ Restart

ApiSpec == ApiInit /\ [][ApiNext]_apivars

ApiTypeOK == DevTypeOK /\ cache \in [Tokens -> Users \cup {Nobody}]
             /\ session \in [Tokens -> Users \cup {Nobody}]
=============================================================================
