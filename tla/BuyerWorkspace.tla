---------------------------- MODULE BuyerWorkspace ----------------------------
(***************************************************************************)
(* What one buyer keeps between sessions: personal skills (buyer_skills.py)*)
(* and preferences, in their two stores (repositories.py and               *)
(* json_file_stores.py) side by side.  The buyer's pages                   *)
(* (buyer_workspace.py) and the tools of agents (remember_, update_ and    *)
(* forget_preference_tool.py, capability_tools.py) work on them at the     *)
(* same time.  Every store operation is one transaction, or holds the      *)
(* file's lock throughout; what is read apart from the operation that uses *)
(* it is the page or catalogue a tab or an agent looks at.                 *)
(***************************************************************************)
EXTENDS Integers, FiniteSets, FiniteSetsExt, Functions, Selection

CONSTANTS Reader,       \* browser tabs and agents
          SkillId, Body, Statement,
          MaxSkills,    \* 50
          MaxVersions,  \* bound on the revisions of a skill
          TopK          \* preference_top_k

VARIABLES bodies,   \* [SkillId -> the bodies of its versions, oldest first]
          retired,  \* the skills whose head is inactive
          page,     \* [Reader -> [SkillId -> version it displays, 0 for none]]
          read,     \* [Reader -> the skill <<id, body>> it has loaded, or <<>>]
          rows,     \* the preferences <<kind, statement>> in SQL, by row id
          file      \* and in the JSON file

workspaceVars == <<bodies, retired, page, read, rows, file>>
skillVars == <<bodies, retired, page, read>>
-----------------------------------------------------------------------------
ASSUME WorkspaceAssumption == {MaxSkills, TopK} \subseteq Nat /\ MaxVersions \in Nat \ {0}

Kind == {"like", "dislike"}
Preference == Kind \X Statement
HeadOf(s) == Len(bodies[s])
Alive == {s \in SkillId : bodies[s] # <<>> /\ s \notin retired}

\* GET /commerce/my-skills, or the catalogue of an agent's turn.
Display(r) ==
  /\ page' = [page EXCEPT ![r] = [s \in SkillId |-> IF s \in Alive THEN HeadOf(s) ELSE 0]]
  /\ UNCHANGED <<bodies, retired, read, rows, file>>

CreateSkill(s, body) ==
  /\ bodies[s] = <<>> /\ Cardinality(Alive) < MaxSkills
  /\ bodies' = [bodies EXCEPT ![s] = <<body>>]
  /\ UNCHANGED <<retired, page, read, rows, file>>

\* The version the reader has before it is still the head's.
Expected(r, s) == s \in Alive /\ page[r][s] = HeadOf(s)

UpdateSkill(r, s, body) ==
  /\ page[r][s] > 0 /\ Expected(r, s) /\ HeadOf(s) < MaxVersions
  /\ bodies' = [bodies EXCEPT ![s] = Append(@, body)]
  /\ UNCHANGED <<retired, page, read, rows, file>>

DeleteSkill(r, s) ==
  /\ page[r][s] > 0 /\ Expected(r, s) /\ retired' = retired \cup {s}
  /\ UNCHANGED <<bodies, page, read, rows, file>>

LoadBody(r, s) ==
  /\ page[r][s] > 0 /\ Expected(r, s)
  /\ read' = [read EXCEPT ![r] = <<s, bodies[s][page[r][s]]>>]
  /\ UNCHANGED <<bodies, retired, page, rows, file>>

\* clear_personal_skill_outputs: bodies are kept for the turn that read them.
ForgetBody(r) ==
  /\ read' = [read EXCEPT ![r] = <<>>] /\ UNCHANGED <<bodies, retired, page, rows, file>>
-----------------------------------------------------------------------------
(* Preferences: what each store makes of an operation.                     *)
Holds(prefs, p) == p \in Range(prefs)
Says(prefs, statement) == \E p \in Range(prefs) : p[2] = statement
Without(prefs, statement) == Only(prefs, Kind \X (Statement \ {statement}))
Plus(prefs, p) == IF Holds(prefs, p) THEN prefs ELSE Append(prefs, p)

ReplacedInRows(prefs, old, p) == Plus(Without(prefs, old), p)
ReplacedInFile(prefs, old, p) == Append(Only(Without(prefs, old), Preference \ {p}), p)

Remember(p) ==
  /\ rows' = Plus(rows, p) /\ file' = Plus(file, p) /\ UNCHANGED skillVars

\* A miss changes nothing and is reported with the statements there are.
Replace(old, p) ==
  /\ rows' = IF Says(rows, old) THEN ReplacedInRows(rows, old, p) ELSE rows
  /\ file' = IF Says(file, old) THEN ReplacedInFile(file, old, p) ELSE file
  /\ UNCHANGED skillVars

ForgetStatement(statement) ==
  /\ rows' = Without(rows, statement) /\ file' = Without(file, statement)
  /\ UNCHANGED skillVars

\* PreferenceSelector.select without relevance: every dislike, and the latest likes.
OfKind(prefs, kind) == Only(prefs, {kind} \X Statement)
LatestOf(likes) == SubSeq(likes, Len(likes) - Min({TopK, Len(likes)}) + 1, Len(likes))
Select(prefs) == OfKind(prefs, "dislike") \o LatestOf(OfKind(prefs, "like"))
-----------------------------------------------------------------------------
WorkspaceInit ==
  /\ bodies = [s \in SkillId |-> <<>>] /\ retired = {}
  /\ page = [r \in Reader |-> [s \in SkillId |-> 0]] /\ read = [r \in Reader |-> <<>>]
  /\ rows = <<>> /\ file = <<>>

WorkspaceNext ==
  \/ \E r \in Reader : Display(r) \/ ForgetBody(r)
  \/ \E r \in Reader, s \in SkillId : DeleteSkill(r, s) \/ LoadBody(r, s)
  \/ \E s \in SkillId, body \in Body : CreateSkill(s, body) \/ \E r \in Reader : UpdateSkill(r, s, body)
  \/ \E p \in Preference : Remember(p) \/ \E old \in Statement : Replace(old, p)
  \/ \E statement \in Statement : ForgetStatement(statement)

WorkspaceSpec == WorkspaceInit /\ [][WorkspaceNext]_workspaceVars
-----------------------------------------------------------------------------
WorkspaceTypeOK ==
  /\ bodies \in [SkillId -> Seq(Body)] /\ retired \subseteq SkillId
  /\ page \in [Reader -> [SkillId -> 0..MaxVersions]]
  /\ rows \in Seq(Preference) /\ file \in Seq(Preference)

\* Neither store keeps a preference twice, both keep the same ones, and from either a turn
\* is told every dislike (repositories.py, json_file_stores.py, preference_selector.py).
StoresAgree ==
  /\ Range(rows) = Range(file) /\ IsInjective(rows) /\ IsInjective(file)
  /\ \A prefs \in {rows, file} :
       \A p \in Range(prefs) : p[1] = "dislike" => Holds(Select(prefs), p)

\* No edit is lost between tabs: a revision is only ever made by someone who had the one
\* before it on the page, and what was deleted neither changes nor comes back, although
\* the statement that writes a head would set it active again (buyer_skills.py, save).
NoEditLost ==
  \A s \in SkillId :
    /\ bodies'[s] # bodies[s] /\ bodies[s] # <<>> =>
         s \notin retired /\ \E r \in Reader : page[r][s] = Len(bodies[s])
    /\ s \in retired => s \in retired'

WorkspaceSound == []StoresAgree /\ [][NoEditLost]_workspaceVars
=============================================================================
