--------------------------- MODULE PromptRegistry ---------------------------
(***************************************************************************)
(* Prompt versions, their deployment and the prompt each session is bound  *)
(* to (prompt_registry.py, prompt_release.py, scripts/prompt_release.py).  *)
(* Every operation is one BEGIN IMMEDIATE transaction of a SQLite file     *)
(* shared by the server processes and the operators' commands, with two    *)
(* exceptions: a server's bootstrap is three transactions, and publishing  *)
(* compares two release manifests before its transaction begins.           *)
(*                                                                         *)
(* A version's identifier is the hash of its text and tool contract, so a  *)
(* version is that pair.  Rows are never updated, so tampering aside the   *)
(* hash checks always hold and are left out.                               *)
(***************************************************************************)
EXTENDS Integers, Sequences, SequencesExt, FiniteSets

CONSTANTS Version,              \* the versions there are files for: records [text, toolset]
          PromptServer, Operator, PromptSession,
          CodeOf,               \* [PromptServer -> Version]: its globex.yml and its tools
          PinOf,                \* [PromptServer -> Version]: PROMPT_PIN_VERSION, or NoVersion
          Shares,               \* candidate_bps an operator may ask for
          Bucket,               \* [PromptSession -> 0..9999]: of its buyer, in the one experiment
          Manifests,            \* the release manifests there are
          MaxDeployments, MaxRevocations, NoVersion

VARIABLES imported,      \* prompt_versions
          revoked,       \* [version revoked -> number of deployments made before]
          deployments,   \* prompt_deployments, oldest first
          assigned,      \* prompt_assignments, [PromptSession -> row or NoVersion]
          server,        \* where each server process is
          desk           \* the comparison an operator has passed and not yet published

promptVars == <<imported, revoked, deployments, assigned, server, desk>>
-----------------------------------------------------------------------------
Contract == {v.toolset : v \in Version}
BasisPoints == 0..10000
Deployment == [baseline : Version, candidate : Version \cup {NoVersion}, bps : BasisPoints,
               action : {"bootstrap", "publish", "rollback"}]

ASSUME PromptAssumption == Bucket \in [PromptSession -> BasisPoints \ {10000}] /\ Shares \subseteq BasisPoints
                           /\ CodeOf \in [PromptServer -> Version] /\ PinOf \in [PromptServer -> Version \cup {NoVersion}]
                           /\ NoVersion \notin Version
                           /\ MaxDeployments \in Nat /\ MaxRevocations \in Nat
                           /\ \A m \in Manifests : m.version \in Version

Names(d) == {d.baseline, d.candidate} \ {NoVersion}
Current == Last(deployments)

\* The version can be used by code that offers this tool contract.
Usable(v, contract) == v \in imported \ DOMAIN revoked /\ v.toolset = contract
Deploy(baseline, candidate, bps, action) ==
  /\ Len(deployments) < MaxDeployments
  /\ deployments' = Append(deployments,
       [baseline |-> baseline, candidate |-> candidate, bps |-> bps, action |-> action])
-----------------------------------------------------------------------------
(* The gate on a pair of release manifests.  The stated rates must equal   *)
(* those derived from the cases, which are 1 when every case passed.       *)
Milliseconds(m) == SortSeq([i \in DOMAIN m.cases |-> m.cases[i].ms], <)
Tokens(m) == FoldSeq(LAMBDA case, sum : case.tokens + sum, 0, m.cases)
P95(m) == Milliseconds(m)[(95 * Len(m.cases) + 99) \div 100]
Genuine(m) == /\ m.complete /\ m.cases # <<>> /\ \A i \in DOMAIN m.cases : m.cases[i].ms > 0
              /\ m.p95 = P95(m) /\ m.tokens = Tokens(m) /\ m.tokens > 0

Passes(old, new) ==
  /\ Genuine(old) /\ Genuine(new) /\ old.version # new.version
  /\ old.frozen = new.frozen /\ old.version.toolset = new.version.toolset
  /\ 100 * new.p95 <= 120 * old.p95
  /\ 100 * new.tokens <= 110 * old.tokens
-----------------------------------------------------------------------------
(* A server: bootstrap, then the assignment of its sessions' turns.        *)
Goes(p, to) == server' = [server EXCEPT ![p] = to]

StartServer(p) ==
  /\ server[p] = "down" /\ Goes(p, "check")
  /\ UNCHANGED <<imported, revoked, deployments, assigned, desk>>

StopServer(p) ==
  /\ server[p] # "down" /\ Goes(p, "down")
  /\ UNCHANGED <<imported, revoked, deployments, assigned, desk>>

CheckDeployed(p) ==
  /\ server[p] = "check" /\ Goes(p, IF deployments = <<>> THEN "import" ELSE "describe")
  /\ UNCHANGED <<imported, revoked, deployments, assigned, desk>>

ImportOwn(p) ==
  /\ server[p] = "import"
  /\ IF CodeOf[p] \in DOMAIN revoked THEN Goes(p, "down") /\ UNCHANGED imported
     ELSE Goes(p, "deploy") /\ imported' = imported \cup {CodeOf[p]}
  /\ UNCHANGED <<revoked, deployments, assigned, desk>>

DeployOwn(p) ==
  /\ server[p] = "deploy" /\ Goes(p, "describe")
  /\ IF deployments = <<>> THEN Deploy(CodeOf[p], NoVersion, 0, "bootstrap") ELSE UNCHANGED deployments
  /\ UNCHANGED <<imported, revoked, assigned, desk>>

\* The version every new session gets, when there is just one.
Effective(p) ==
  IF PinOf[p] # NoVersion THEN {PinOf[p]}
  ELSE IF Current.candidate = NoVersion \/ Current.bps = 0 THEN {Current.baseline}
  ELSE IF Current.bps = 10000 THEN {Current.candidate} ELSE {}

Describe(p) ==
  /\ server[p] = "describe"
  /\ Goes(p, IF \A v \in Effective(p) : Usable(v, CodeOf[p].toolset) THEN "up" ELSE "down")
  /\ UNCHANGED <<imported, revoked, deployments, assigned, desk>>

Drawn(p, s) ==
  IF PinOf[p] # NoVersion THEN PinOf[p]
  ELSE IF Current.candidate # NoVersion /\ Bucket[s] < Current.bps
       THEN Current.candidate ELSE Current.baseline

\* A new session's turn draws a version; the later ones keep it or are refused.
Assign(p, s) ==
  /\ server[p] = "up" /\ assigned[s] = NoVersion /\ Usable(Drawn(p, s), CodeOf[p].toolset)
  /\ assigned' = [assigned EXCEPT ![s] = Drawn(p, s)]
  /\ UNCHANGED <<imported, revoked, deployments, server, desk>>
-----------------------------------------------------------------------------
(* The operators' commands, run by code of any tool contract.              *)
ImportVersion(v) ==
  /\ v \notin imported /\ imported' = imported \cup {v}
  /\ UNCHANGED <<revoked, deployments, assigned, server, desk>>

CompareManifests(o, old, new) ==
  /\ desk[o] = NoVersion /\ Passes(old, new)
  /\ desk' = [desk EXCEPT ![o] = [baseline |-> old.version, candidate |-> new.version]]
  /\ UNCHANGED <<imported, revoked, deployments, assigned, server>>

\* Faulty variant of Compatible: what is deployed now does not matter.
CompatibleAlways(baseline) == deployments # <<>>

\* The baseline is deployed, or has the deployed baseline's text on new tools.
Compatible(baseline) ==
  /\ deployments # <<>>
  /\ \/ baseline \in Names(Current)
     \/ Current.baseline \notin DOMAIN revoked /\ baseline.text = Current.baseline.text

Publish(o, contract, bps) ==
  /\ desk[o] # NoVersion /\ desk' = [desk EXCEPT ![o] = NoVersion]
  /\ IF Usable(desk[o].baseline, contract) /\ Usable(desk[o].candidate, contract) /\ Compatible(desk[o].baseline)
     THEN Deploy(desk[o].baseline, desk[o].candidate, bps, "publish")
     ELSE UNCHANGED deployments
  /\ UNCHANGED <<imported, revoked, assigned, server>>

RollBack(i, contract) ==
  /\ \A v \in Names(deployments[i]) : Usable(v, contract)
  /\ Deploy(deployments[i].baseline, deployments[i].candidate, deployments[i].bps, "rollback")
  /\ UNCHANGED <<imported, revoked, assigned, server, desk>>

Revoke(v) ==
  /\ v \in imported \ DOMAIN revoked /\ Cardinality(DOMAIN revoked) < MaxRevocations
  /\ revoked' = [w \in DOMAIN revoked \cup {v} |-> IF w = v THEN Len(deployments) ELSE revoked[w]]
  /\ UNCHANGED <<imported, deployments, assigned, server, desk>>
-----------------------------------------------------------------------------
PromptInit ==
  /\ imported = {} /\ revoked = [v \in {} |-> 0] /\ deployments = <<>>
  /\ assigned = [s \in PromptSession |-> NoVersion] /\ desk = [o \in Operator |-> NoVersion]
  /\ server = [p \in PromptServer |-> "down"]

PromptNext ==
  \/ \E p \in PromptServer :
       \/ StartServer(p) \/ StopServer(p) \/ CheckDeployed(p) \/ ImportOwn(p) \/ DeployOwn(p) \/ Describe(p)
       \/ \E s \in PromptSession : Assign(p, s)
  \/ \E v \in Version : ImportVersion(v) \/ Revoke(v)
  \/ \E o \in Operator : \/ \E old, new \in Manifests : CompareManifests(o, old, new)
                         \/ \E c \in Contract, bps \in Shares : Publish(o, c, bps)
  \/ \E i \in DOMAIN deployments, c \in Contract : RollBack(i, c)

PromptSpec == PromptInit /\ [][PromptNext]_promptVars
-----------------------------------------------------------------------------
PromptTypeOK ==
  /\ imported \subseteq Version /\ DOMAIN revoked \subseteq imported
  /\ deployments \in Seq(Deployment)
  /\ assigned \in [PromptSession -> Version \cup {NoVersion}]
  /\ server \in [PromptServer -> {"down", "check", "import", "deploy", "describe", "up"}]
  /\ desk \in [Operator -> [baseline : Version, candidate : Version] \cup {NoVersion}]

\* However many servers start at once, only the first deployment is a bootstrap.
OneBootstrap == \A i \in DOMAIN deployments : deployments[i].action = "bootstrap" <=> i = 1

\* Evidence that went stale between the comparison and the transaction publishes nothing:
\* what is published was measured against what the previous deployment served.
PublishedAgainstCurrent ==
  \A i \in DOMAIN deployments :
    LET d == deployments[i] IN
    d.action = "publish" =>
      /\ \E old, new \in Manifests : Passes(old, new) /\ <<old.version, new.version>> = <<d.baseline, d.candidate>>
      /\ i > 1
      /\ \/ d.baseline \in Names(deployments[i - 1])
         \/ d.baseline.text = deployments[i - 1].baseline.text

\* No deployment made after a revocation names the revoked version.
RevokedStaysOut ==
  \A v \in DOMAIN revoked, i \in DOMAIN deployments :
    i > revoked[v] /\ deployments[i].action # "bootstrap" => v \notin Names(deployments[i])

\* The deployments form one history (prompt_registry.py): see the three parts above.
DeploymentsSound == OneBootstrap /\ PublishedAgainstCurrent /\ RevokedStaysOut
=============================================================================
