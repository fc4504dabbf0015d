------------------------------- MODULE Deploy -------------------------------
(***************************************************************************)
(* deploy/autodeploy.sh: the server pulls main of the repository, installs *)
(* what changed, and restarts the hub if the hub changed.  The timer       *)
(* starts the script every two minutes, never twice at once; "evctl        *)
(* deploy" starts it too, beside the timer.                                *)
(*                                                                         *)
(* A step is one command of the script.  set -e ends it at the first one   *)
(* that fails; nothing it has done is undone.  The copy of the nginx       *)
(* configuration, whose failure does not end the script, is left out.      *)
(***************************************************************************)
EXTENDS Naturals

CONSTANTS
  Runs,      \* who starts the script: the timer, and evctl
  MaxPushes  \* bound: pushes to main, a natural number

\* The files of a push the script tells apart: hub/, requirements.txt and
\* deploy/evhub.service.
Files == {"hub", "requirements", "service"}

Revisions == 1 .. MaxPushes

VARIABLES
  main,     \* the newest revision on GitHub, 0 is the installed one
  touched,  \* what each push changed
  origin,   \* origin/main of the server's clone
  head,     \* HEAD of /opt/evhub
  at,       \* the next command of each run of the script
  old,      \* OLD_REV
  new,      \* NEW_REV
  venv,     \* the revision whose requirements are installed
  running   \* the revision of hub/ that runs

vars == <<main, touched, origin, head, at, old, new, venv, running>>

Init ==
  /\ main = 0 /\ origin = 0 /\ head = 0 /\ venv = 0 /\ running = 0
  /\ touched = [v \in Revisions |-> {}]
  /\ at = [r \in Runs |-> "idle"]
  /\ old = [r \in Runs |-> 0]
  /\ new = [r \in Runs |-> 0]

Push(files) ==
  /\ main < MaxPushes
  /\ main' = main + 1
  /\ touched' = [touched EXCEPT ![main'] = files]
  /\ UNCHANGED <<origin, head, at, old, new, venv, running>>

\* git diff --name-only OLD_REV NEW_REV
Changed(r) == UNION {touched[v] : v \in {v \in Revisions : old[r] < v /\ v <= new[r]}}

From(r, command, next) == at[r] = command /\ at' = [at EXCEPT ![r] = next]

-----------------------------------------------------------------------------
Begin(r) ==
  /\ From(r, "idle", "fetch")
  /\ old' = [old EXCEPT ![r] = head]
  /\ UNCHANGED <<main, touched, origin, head, new, venv, running>>

Fetch(r) ==
  /\ From(r, "fetch", "compare")
  /\ origin' = main
  /\ UNCHANGED <<main, touched, head, old, new, venv, running>>

\* NEW_REV, and the exit when it is OLD_REV.
Compare(r) ==
  /\ From(r, "compare", IF old[r] = origin THEN "idle" ELSE "reset")
  /\ new' = [new EXCEPT ![r] = origin]
  /\ UNCHANGED <<main, touched, origin, head, old, venv, running>>

Reset(r) ==
  /\ From(r, "reset", "chown")
  /\ head' = origin
  /\ UNCHANGED <<main, touched, origin, old, new, venv, running>>

Chown(r) ==
  /\ From(r, "chown", "pip")
  /\ UNCHANGED <<main, touched, origin, head, old, new, venv, running>>

Pip(r) ==
  /\ From(r, "pip", "restart")
  /\ venv' = IF "requirements" \in Changed(r) THEN head ELSE venv
  /\ UNCHANGED <<main, touched, origin, head, old, new, running>>

Restart(r) ==
  /\ From(r, "restart", "service")
  /\ running' = IF Changed(r) \cap {"hub", "requirements"} # {} THEN head ELSE running
  /\ UNCHANGED <<main, touched, origin, head, old, new, venv>>

Service(r) ==
  /\ From(r, "service", "idle")
  /\ running' = IF "service" \in Changed(r) THEN head ELSE running
  /\ UNCHANGED <<main, touched, origin, head, old, new, venv>>

\* A command fails: no network for fetch or pip, a lock or a full disk for git,
\* a unit that does not come up.
Fails(r) ==
  /\ at[r] \notin {"idle", "compare"}
  /\ at' = [at EXCEPT ![r] = "idle"]
  /\ UNCHANGED <<main, touched, origin, head, old, new, venv, running>>

Step(r) ==
  Begin(r) \/ Fetch(r) \/ Compare(r) \/ Reset(r) \/ Chown(r) \/ Pip(r) \/ Restart(r) \/ Service(r)

Next ==
  \/ \E files \in SUBSET Files : Push(files)
  \/ \E r \in Runs : Step(r) \/ Fails(r)

Spec == Init /\ [][Next]_vars

\* The timer goes on for ever, and a time comes from which no command fails.
FairSpec ==
  /\ Spec
  /\ \A r \in Runs : WF_vars(Step(r))
  /\ <>[][\A r \in Runs : ~Fails(r)]_vars

-----------------------------------------------------------------------------
\* "git push origin main: within 2 minutes it is out on the server"
\* (README.md:77): what a push changed in hub/ gets to run.
PushRuns ==
  \A v \in Revisions : (v <= main /\ "hub" \in touched[v]) ~> running >= v
=============================================================================
