--------------------------- MODULE PlaybookVersions ---------------------------
(***************************************************************************)
(* The versions of one playbook (cpkit.playbooks) and which of them is the  *)
(* default: administrators save, delete and mark versions, each statement   *)
(* on its own; the command line's initialisation replaces the default by    *)
(* the file an application ships; a run loads the default.                  *)
(*                                                                          *)
(* A version is the second it was saved in, rounded (TIMESTAMPTZ(0)); the   *)
(* mark of a default is the instant it was set.  A tick is half a second,   *)
(* and two marks never carry the same instant.                              *)
(***************************************************************************)
EXTENDS AuditHook, FiniteSetsExt

CONSTANTS
    Admin,        \* administrators' requests at one time
    CommandLine,  \* the initialisation command
    MaxNow,       \* bound: ticks
    MaxCalls      \* bound: calls

ASSUME PlaybookAssumption ==
    /\ CommandLine \notin Admin
    /\ MaxNow \in Nat \ {0}
    /\ MaxCalls \in Nat

VARIABLES
    rows,       \* the table: the versions there are
    content,    \* what each version says: "file", what the application ships
    mark,       \* default_version of each version; 0 is NULL
    now,
    does,       \* what each actor is doing
    version,    \* the version it does that to
    default,    \* the default version it has read
    respelled,  \* administrators who write the version in another way than
                \* strftime does
    calls,
    passed      \* history: actors whose reading of the default is out of date

table  == <<rows, content, mark>>
actors == <<does, version, default, respelled, calls>>
vbVars == <<table, actors, now, passed>>

Actor == Admin \cup {CommandLine}

Shown(tick)   == tick \div 2          \* strftime leaves the fraction out
Rounded(tick) == (tick + 1) \div 2
Version == 1 .. Rounded(MaxNow)

VersionsInit ==
    /\ rows = {}
    /\ content = [v \in Version |-> "other"]
    /\ mark = [v \in Version |-> 0]
    /\ now = 1
    /\ does = [a \in Actor |-> "idle"]
    /\ version = [a \in Actor |-> 0]
    /\ default = [a \in Actor |-> 0]
    /\ respelled = {}
    /\ calls = 0
    /\ passed = {}

-----------------------------------------------------------------------------
(* Readings of the table.                                                   *)

(* get_default_playbook: ORDER BY default_version DESC NULLS LAST, version  *)
(* DESC.  0 when there is no version.                                       *)
Ahead(v, w) == mark[v] > mark[w] \/ (mark[v] = mark[w] /\ v >= w)

Default ==
    IF rows = {} THEN 0
    ELSE CHOOSE v \in rows : \A w \in rows : Ahead(v, w)

(* Mutant: the latest version that has a mark. *)
LatestMarked ==
    IF \E v \in rows : mark[v] # 0 THEN Max({v \in rows : mark[v] # 0})
    ELSE IF rows = {} THEN 0 ELSE Min(rows)

(* _find_default_version, over the versions in descending order: the first  *)
(* with the latest mark, as it is shown; without marks the last one.        *)
ServiceDefault ==
    LET marked == {v \in rows : mark[v] # 0}
        latest == Max({Shown(mark[v]) : v \in marked})
    IN  IF marked # {} THEN Max({v \in marked : Shown(mark[v]) = latest})
        ELSE IF rows = {} THEN 0 ELSE Min(rows)

-----------------------------------------------------------------------------
(* Statements.                                                              *)

Becomes(a, from, to) ==
    /\ does[a] = from
    /\ does' = [does EXCEPT ![a] = to]

Calls(a, to) ==
    /\ calls < MaxCalls
    /\ calls' = calls + 1
    /\ Becomes(a, "idle", to)

(* Whoever still acts on a default that is no longer the one. *)
Tells ==
    passed' = {a \in Actor :
                  /\ does'[a] \in {"checked", "replacing"}
                  /\ a \in passed \/ default'[a] # Default'}

(* create_playbook, which conflicts with a version of the same second. *)
Insert(a, c) ==
    LET v == Rounded(now)
    IN  /\ v \notin rows
        /\ rows' = rows \cup {v}
        /\ content' = [content EXCEPT ![v] = c]
        /\ mark' = [mark EXCEPT ![v] = 0]
        /\ version' = [version EXCEPT ![a] = v]

(* set_default_playbook: nothing happens to a version that is gone.  Each   *)
(* mark takes a tick of its own.                                            *)
Mark(v) ==
    /\ now < MaxNow
    /\ now' = now + 1
    /\ mark' = IF v \in rows THEN [mark EXCEPT ![v] = now'] ELSE mark
    /\ UNCHANGED <<rows, content>>

Delete(v) ==
    /\ rows' = rows \ {v}
    /\ content' = [content EXCEPT ![v] = "other"]
    /\ mark' = [mark EXCEPT ![v] = 0]

Tick ==
    /\ now < MaxNow
    /\ now' = now + 1
    /\ UNCHANGED <<table, actors, passed, auditVars>>

-----------------------------------------------------------------------------
(* Administrators.  Every change is followed by the audit hook, best-effort *)
(* or not; it raises after the change.                                      *)

Audits(a, from, event) ==
    /\ Becomes(a, from, "idle")
    /\ \E quiet \in BOOLEAN :
          HookReturns(quiet, event) \/ HookRaises(quiet, event)

(* save_playbook. *)
Save(a, c) ==
    /\ Calls(a, "saved")
    /\ Insert(a, c)
    /\ UNCHANGED <<now, default, respelled, auditVars>>
    /\ Tells

(* set_default_playbook: reports success when there is no such version. *)
SetDefault(a, v) ==
    /\ Calls(a, "marked")
    /\ Mark(v)
    /\ version' = [version EXCEPT ![a] = v]
    /\ UNCHANGED <<default, respelled, auditVars>>
    /\ Tells

(* Mutant: the default version can be deleted. *)
AnyVersion(v, exact) == v \in Version

(* "Cannot delete the default version": the string of the route is compared *)
(* with the one strftime makes of the default.                              *)
Deletable(v, exact) == v \in Version /\ ~(exact /\ v = Default)

(* delete_playbook_version reads the default; without any version it fails. *)
CheckDelete(a, v, exact) ==
    /\ Default # 0
    /\ Deletable(v, exact)
    /\ Calls(a, "checked")
    /\ version' = [version EXCEPT ![a] = v]
    /\ default' = [default EXCEPT ![a] = Default]
    /\ respelled' = IF exact THEN respelled ELSE respelled \cup {a}
    /\ UNCHANGED <<table, now, auditVars>>
    /\ Tells

(* The DELETE compares instants, however the string writes them. *)
DeleteVersion(a) ==
    /\ Becomes(a, "checked", "deleted")
    /\ Delete(version[a])
    /\ respelled' = respelled \ {a}
    /\ UNCHANGED <<version, default, calls, now, auditVars>>
    /\ Tells

(* The event is written and the versions are read for the answer.           *)
Finish(a) ==
    /\ \/ Audits(a, "saved", "PLAYBOOK_VERSION_CREATED")
       \/ Audits(a, "marked", "PLAYBOOK_DEFAULT_SET")
       \/ Audits(a, "deleted", "PLAYBOOK_VERSION_DELETED")
    /\ UNCHANGED <<table, now, version, default, respelled, calls>>
    /\ Tells

-----------------------------------------------------------------------------
(* _initialize_playbook_file.                                               *)

(* The file is the default already; a default that is not marked becomes a  *)
(* marked one.                                                              *)
InitFinds ==
    /\ Default # 0 /\ content[Default] = "file"
    /\ Calls(CommandLine, IF mark[Default] = 0 THEN "marking" ELSE "idle")
    /\ version' = [version EXCEPT ![CommandLine] = Default]
    /\ UNCHANGED <<table, now, default, respelled, auditVars>>
    /\ Tells

(* Mutant: the content is not compared. *)
ReplacesAlways == TRUE

Replaces == Default # 0 => content[Default] # "file"

(* The file is another one: its predecessor is going to be deleted. *)
InitDiffers ==
    /\ Replaces
    /\ Calls(CommandLine, IF Default = 0 THEN "emptied" ELSE "replacing")
    /\ default' = [default EXCEPT ![CommandLine] = Default]
    /\ UNCHANGED <<table, now, version, respelled, auditVars>>
    /\ Tells

InitDeletes ==
    /\ Becomes(CommandLine, "replacing", "emptied")
    /\ Delete(default[CommandLine])
    /\ UNCHANGED <<now, version, default, respelled, calls, auditVars>>
    /\ Tells

InitInserts ==
    /\ Becomes(CommandLine, "emptied", "marking")
    /\ Insert(CommandLine, "file")
    /\ UNCHANGED <<now, default, respelled, calls, auditVars>>
    /\ Tells

(* It conflicts with a version saved in the same second, or the command     *)
(* dies: what was deleted is not put back.                                  *)
InitFails ==
    /\ does[CommandLine] # "idle"
    /\ does' = [does EXCEPT ![CommandLine] = "idle"]
    /\ UNCHANGED <<table, now, version, default, respelled, calls, auditVars>>
    /\ Tells

InitMarks ==
    /\ Becomes(CommandLine, "marking", "idle")
    /\ Mark(version[CommandLine])
    /\ UNCHANGED <<version, default, respelled, calls, auditVars>>
    /\ Tells

-----------------------------------------------------------------------------

VersionsNext ==
    \/ Tick
    \/ \E a \in Admin :
          \/ \E c \in {"file", "other"} : Save(a, c)
          \/ \E v \in Version :
                \/ SetDefault(a, v)
                \/ \E exact \in BOOLEAN : CheckDelete(a, v, exact)
          \/ DeleteVersion(a)
          \/ Finish(a)
    \/ InitFinds
    \/ InitDiffers
    \/ InitDeletes
    \/ InitInserts
    \/ InitFails
    \/ InitMarks

VersionsSpec ==
    VersionsInit /\ AuditInit /\ [][VersionsNext]_<<vbVars, auditVars>>

-----------------------------------------------------------------------------
(* Correctness.                                                             *)

(* The shape of the state. *)
VersionsTypeOK ==
    /\ rows \in SUBSET Version
    /\ content \in [Version -> {"file", "other"}]
    /\ mark \in [Version -> 0 .. MaxNow]
    /\ now \in 1 .. MaxNow
    /\ does \in [Actor -> {"idle", "saved", "marked", "checked", "deleted",
                           "replacing", "emptied", "marking"}]
    /\ version \in [Actor -> {0} \cup Version]
    /\ default \in [Actor -> {0} \cup Version]
    /\ respelled \in SUBSET Admin
    /\ calls \in 0 .. MaxCalls
    /\ passed \in SUBSET Actor

(* The version the routes show as the default is the one that runs load,    *)
(* whatever was saved, marked and deleted in between, once a version has a  *)
(* mark, except when the two latest marks fall in one second.               *)
ShownDefaultRuns ==
    \/ \A v \in rows : mark[v] = 0
    \/ ServiceDefault = Default
    \/ \E v \in rows \ {Default} :
          mark[v] # 0 /\ Shown(mark[v]) = Shown(mark[Default])

(* The version that runs would load disappears only when a call removes it  *)
(* that was overtaken by another one since it looked at the default, or an  *)
(* administrator who wrote it in another way than the routes do, or         *)
(* initialisation, and then the file the application ships says something   *)
(* else.                                                                    *)
AdminRemoves(a) ==
    /\ does[a] = "checked" /\ does'[a] = "deleted"
    /\ a \in passed \cup respelled

InitRemoves ==
    /\ does[CommandLine] = "replacing" /\ does'[CommandLine] = "emptied"
    /\ CommandLine \in passed \/ content[Default] # "file"

DefaultIsRemovedForCause ==
    [][Default # 0 /\ Default \notin rows' =>
          InitRemoves \/ \E a \in Admin : AdminRemoves(a)]_vbVars
=============================================================================
