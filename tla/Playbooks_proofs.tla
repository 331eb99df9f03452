---------------------------- MODULE Playbooks_proofs ----------------------------
(***************************************************************************)
(* What TLAPS proves of PlaybookVersions, for any administrators and any    *)
(* number of versions, calls and ticks: the shape of the state, that the    *)
(* version the routes show as the default is the one that runs load, and    *)
(* what a deletion that takes the default away goes back to; and of         *)
(* MCPlaybooks that the versions and the runs side by side are what each is *)
(* alone.                                                                   *)
(***************************************************************************)
EXTENDS MCPlaybooks, AnsibleRun_proofs, FiniteSetTheorems, WellFoundedInduction

-----------------------------------------------------------------------------
(* The default of a table.                                                  *)

(* What is strictly ahead of a version. *)
Beaten(v) == {w \in rows : ~Ahead(v, w)}

(* Among the versions there are, one is ahead of all: one whose set of      *)
(* predecessors is minimal, for a predecessor's set would be smaller.       *)
LEMMA DefaultIsAhead ==
    ASSUME VersionsTypeOK, rows # {}
    PROVE  Default \in rows /\ \A w \in rows : Ahead(Default, w)
<1> DEFINE Sets == {Beaten(v) : v \in rows}
<1>1. /\ rows \subseteq Version
      /\ \A v \in Version : v \in Nat /\ mark[v] \in Nat
  BY PlaybookAssumption DEF VersionsTypeOK, Version, Rounded
<1>2. IsFiniteSet(rows)
  <2>1. 1 \in Int /\ Rounded(MaxNow) \in Int
    BY PlaybookAssumption DEF Rounded
  <2>2. IsFiniteSet(Version)
    BY <2>1, FS_Interval DEF Version
  <2>3. QED
    BY <1>1, <2>2, FS_Subset
<1>3. Sets \subseteq FiniteSubsetsOf(rows) /\ Sets # {}
  <2>1. \A v \in rows : Beaten(v) \in SUBSET rows
    BY DEF Beaten
  <2>2. \A T \in SUBSET rows : T \in FiniteSubsetsOf(rows)
    BY <1>2, FS_Subset DEF FiniteSubsetsOf
  <2>3. QED
    BY <2>1, <2>2
<1>4. PICK U \in Sets :
         \A T \in Sets : <<T, U>> \notin StrictSubsetOrdering(rows)
  <2> HIDE DEF Sets
  <2>1. IsWellFoundedOn(StrictSubsetOrdering(rows), FiniteSubsetsOf(rows))
    BY FS_StrictSubsetOrderingWellFounded
  <2>2. QED
    BY <1>3, <2>1, WFMin
<1>5. PICK v \in rows : U = Beaten(v)
  OBVIOUS
<1>6. ASSUME NEW w \in rows PROVE Ahead(v, w)
  <2> SUFFICES ASSUME ~Ahead(v, w) PROVE FALSE
    OBVIOUS
  <2>1. /\ v \in Nat /\ w \in Nat /\ mark[v] \in Nat /\ mark[w] \in Nat
    BY <1>1, <1>6
  <2>2. Beaten(w) \subseteq Beaten(v)
    <3> SUFFICES ASSUME NEW u \in rows, ~Ahead(w, u) PROVE ~Ahead(v, u)
      BY DEF Beaten
    <3>1. u \in Nat /\ mark[u] \in Nat
      BY <1>1
    <3>2. QED
      BY <2>1, <3>1 DEF Ahead
  <2>3. w \in Beaten(v) /\ w \notin Beaten(w)
    BY <1>6, <2>1 DEF Beaten, Ahead
  <2>4. <<Beaten(w), Beaten(v)>> \in StrictSubsetOrdering(rows)
    BY <2>2, <2>3 DEF StrictSubsetOrdering, Beaten
  <2>5. QED
    BY <1>4, <1>5, <1>6, <2>4
<1>7. QED
  BY <1>6 DEF Default

LEMMA DefaultType ==
    ASSUME VersionsTypeOK
    PROVE  /\ Default \in {0} \cup Version
           /\ Default # 0 => Default \in rows
BY DefaultIsAhead DEF Default, VersionsTypeOK

LEMMA DefaultIsThere == VersionsTypeOK => Default = 0 \/ Default \in rows
BY DefaultType

LEMMA MaxIs ==
    ASSUME NEW T \in SUBSET Nat, NEW m \in T, \A y \in T : y <= m
    PROVE  Max(T) = m
<1>1. Max(T) \in T /\ \A y \in T : Max(T) >= y
  BY DEF Max
<1>2. Max(T) \in Nat /\ m \in Nat /\ Max(T) <= m /\ m <= Max(T)
  BY <1>1
<1>3. QED
  BY <1>2

(* Both readings of the table find the same version: the latest mark is the *)
(* latest as shown, and no other version is shown with it.                  *)
LEMMA ReadingsAgree == VersionsTypeOK => ShownDefaultRuns
<1> SUFFICES ASSUME VersionsTypeOK,
                    NEW m \in rows, mark[m] # 0,
                    \A v \in rows \ {Default} :
                       mark[v] = 0 \/ Shown(mark[v]) # Shown(mark[Default])
             PROVE  ServiceDefault = Default
  BY DEF ShownDefaultRuns
<1> DEFINE D == Default
           marked == {v \in rows : mark[v] # 0}
           latest == Max({Shown(mark[v]) : v \in marked})
<1>1. D \in rows /\ \A w \in rows : Ahead(D, w)
  BY DefaultIsAhead
<1>2. \A v \in rows : v \in Nat /\ mark[v] \in Nat
  BY PlaybookAssumption DEF VersionsTypeOK, Version, Rounded
<1>3. D \in marked /\ \A v \in marked : mark[v] <= mark[D]
  BY <1>1, <1>2 DEF Ahead
<1>4. latest = Shown(mark[D])
  <2>1. \A v \in marked : /\ Shown(mark[v]) \in Nat
                          /\ Shown(mark[v]) <= Shown(mark[D])
    BY <1>2, <1>3 DEF Shown
  <2> DEFINE T == {Shown(mark[v]) : v \in marked}
  <2>2. /\ T \in SUBSET Nat /\ Shown(mark[D]) \in T
        /\ \A y \in T : y <= Shown(mark[D])
    BY <1>3, <2>1
  <2> HIDE DEF T
  <2>3. Max(T) = Shown(mark[D])
    BY <2>2, MaxIs
  <2>4. QED
    BY <2>3 DEF T
<1>5. {v \in marked : Shown(mark[v]) = latest} = {D}
  BY <1>3, <1>4
<1>6. Max({D}) = D
  BY <1>1, <1>2, MaxIs
<1>7. ServiceDefault = Max({v \in marked : Shown(mark[v]) = latest})
  BY <1>3 DEF ServiceDefault
<1>8. QED
  BY <1>5, <1>6, <1>7

-----------------------------------------------------------------------------
(* The deletion of the default.                                             *)

(* Whoever is about to delete a version has found that it is not the        *)
(* default, or writes it in another way, and the default is the one it      *)
(* read, or it has been overtaken.                                          *)
CheckedIsNotDefault ==
    \A a \in Admin : does[a] = "checked" =>
        /\ version[a] # default[a] \/ a \in respelled
        /\ a \in passed \/ default[a] = Default

(* What initialisation is about to replace is the default that it found to  *)
(* say something else, or it has been overtaken.                            *)
ReplacedIsOther ==
    does[CommandLine] = "replacing" =>
        /\ default[CommandLine] # 0
        /\ \/ CommandLine \in passed
           \/ default[CommandLine] = Default /\ content[Default] # "file"

VersionsIInv == VersionsTypeOK /\ CheckedIsNotDefault /\ ReplacedIsOther

LEMMA VersionsInitInv == VersionsInit => VersionsIInv
<1> SUFFICES ASSUME VersionsInit PROVE VersionsIInv
  OBVIOUS
<1>1. VersionsTypeOK
  BY PlaybookAssumption DEF VersionsInit, VersionsTypeOK
<1>2. CheckedIsNotDefault
  BY DEF VersionsInit, CheckedIsNotDefault, Actor
<1>3. ReplacedIsOther
  BY DEF VersionsInit, ReplacedIsOther, Actor
<1>4. QED
  BY <1>1, <1>2, <1>3 DEF VersionsIInv

LEMMA RoundedIsVersion ==
    ASSUME NEW t \in 1 .. MaxNow
    PROVE  Rounded(t) \in Version
BY PlaybookAssumption DEF Rounded, Version

LEMMA TellsType == ASSUME Tells PROVE passed' \in SUBSET Actor
BY DEF Tells

(* An actor that Tells of is overtaken, or its default is the one. *)
LEMMA TellsOfDefaults ==
    ASSUME Tells,
           \A a \in Admin : does'[a] = "checked" =>
              version'[a] # default'[a] \/ a \in respelled'
    PROVE  CheckedIsNotDefault'
BY DEF Tells, CheckedIsNotDefault, Actor

(* A default that initialisation was not overtaken at says what it said: a  *)
(* version that stays keeps its content.                                    *)
LEMMA TellsOfContent ==
    ASSUME VersionsIInv, VersionsTypeOK', Tells,
           does'[CommandLine] = "replacing" =>
              /\ does[CommandLine] = "replacing"
              /\ default'[CommandLine] = default[CommandLine],
           \A v \in rows \cap rows' : content'[v] = content[v]
    PROVE  ReplacedIsOther'
<1> SUFFICES ASSUME does'[CommandLine] = "replacing"
             PROVE  /\ default'[CommandLine] # 0
                    /\ \/ CommandLine \in passed'
                       \/ /\ default'[CommandLine] = Default'
                          /\ content'[Default'] # "file"
  BY DEF ReplacedIsOther
<1>1. /\ does[CommandLine] = "replacing"
      /\ default'[CommandLine] = default[CommandLine]
      /\ default[CommandLine] # 0
  BY DEF VersionsIInv, ReplacedIsOther
<1>2. CASE CommandLine \in passed'
  BY <1>1, <1>2
<1>3. CASE CommandLine \notin passed'
  <2>1. CommandLine \notin passed /\ default'[CommandLine] = Default'
    BY <1>3 DEF Tells, Actor
  <2>2. Default = Default' /\ content[Default] # "file"
    BY <1>1, <2>1 DEF VersionsIInv, ReplacedIsOther
  <2>3. Default \in rows
    BY <1>1, <2>1, <2>2, DefaultType DEF VersionsIInv
  <2>4. Default' \in rows'
    <3>1. (VersionsTypeOK => Default = 0 \/ Default \in rows)'
      BY DefaultIsThere, PTL
    <3>2. QED
      BY <1>1, <2>1, <3>1
  <2>5. QED
    BY <1>1, <2>1, <2>2, <2>3, <2>4
<1>4. QED
  BY <1>2, <1>3

LEMMA DeleteType ==
    ASSUME VersionsTypeOK, NEW v \in {0} \cup Version, Delete(v)
    PROVE  /\ rows' \in SUBSET Version
           /\ content' \in [Version -> {"file", "other"}]
           /\ mark' \in [Version -> 0 .. MaxNow]
<1>1. rows' \in SUBSET Version
  BY DEF VersionsTypeOK, Delete
<1>2. content' \in [Version -> {"file", "other"}]
  BY DEF VersionsTypeOK, Delete
<1>3. 0 \in 0 .. MaxNow
  BY PlaybookAssumption
<1>4. mark' \in [Version -> 0 .. MaxNow]
  BY <1>3 DEF VersionsTypeOK, Delete
<1>5. QED
  BY <1>1, <1>2, <1>4

LEMMA VersionsStepType ==
    ASSUME VersionsTypeOK, [VersionsNext]_<<vbVars, auditVars>>
    PROVE  VersionsTypeOK'
<1> USE PlaybookAssumption DEF table, actors
<1>1. CASE UNCHANGED <<vbVars, auditVars>>
  BY <1>1 DEF vbVars, VersionsTypeOK
<1>2. CASE Tick
  BY <1>2, TellsType, RoundedIsVersion, DefaultType
     DEF Tick, VersionsTypeOK, Actor
<1>3. ASSUME NEW a \in Admin, NEW c \in {"file", "other"}, Save(a, c)
      PROVE  VersionsTypeOK'
  BY <1>3, TellsType, RoundedIsVersion, DefaultType
     DEF Save, Calls, Becomes, Insert, VersionsTypeOK, Actor
<1>4. ASSUME NEW a \in Admin, NEW v \in Version, SetDefault(a, v)
      PROVE  VersionsTypeOK'
  BY <1>4, TellsType, RoundedIsVersion, DefaultType
     DEF SetDefault, Calls, Becomes, Mark, VersionsTypeOK, Actor
<1>5. ASSUME NEW a \in Admin, NEW v \in Version, NEW exact \in BOOLEAN,
             CheckDelete(a, v, exact)
      PROVE  VersionsTypeOK'
  BY <1>5, TellsType, RoundedIsVersion, DefaultType
     DEF CheckDelete, Calls, Becomes, Deletable, VersionsTypeOK, Actor
<1>6. ASSUME NEW a \in Admin, DeleteVersion(a)
      PROVE  VersionsTypeOK'
  BY <1>6, TellsType, DeleteType
     DEF DeleteVersion, Becomes, VersionsTypeOK, Actor
<1>7. ASSUME NEW a \in Admin, Finish(a)
      PROVE  VersionsTypeOK'
  BY <1>7, TellsType, RoundedIsVersion, DefaultType
     DEF Finish, Audits, Becomes, VersionsTypeOK, Actor
<1>8. CASE InitFinds
  BY <1>8, TellsType, RoundedIsVersion, DefaultType
     DEF InitFinds, Calls, Becomes, VersionsTypeOK, Actor
<1>9. CASE InitDiffers
  BY <1>9, TellsType, RoundedIsVersion, DefaultType
     DEF InitDiffers, Calls, Becomes, VersionsTypeOK, Actor
<1>10. CASE InitDeletes
  BY <1>10, TellsType, DeleteType
     DEF InitDeletes, Becomes, VersionsTypeOK, Actor
<1>11. CASE InitInserts
  BY <1>11, TellsType, RoundedIsVersion, DefaultType
     DEF InitInserts, Becomes, Insert, VersionsTypeOK, Actor
<1>12. CASE InitFails
  BY <1>12, TellsType, RoundedIsVersion, DefaultType
     DEF InitFails, VersionsTypeOK, Actor
<1>13. CASE InitMarks
  BY <1>13, TellsType, RoundedIsVersion, DefaultType
     DEF InitMarks, Becomes, Mark, VersionsTypeOK, Actor
<1>14. QED
  BY <1>1, <1>2, <1>3, <1>4, <1>5, <1>6, <1>7, <1>8, <1>9, <1>10, <1>11, <1>12,
     <1>13
     DEF VersionsNext

LEMMA StepChecked ==
    ASSUME VersionsIInv, [VersionsNext]_<<vbVars, auditVars>>
    PROVE  CheckedIsNotDefault'
<1> USE PlaybookAssumption DEF table, actors
<1>1. CASE UNCHANGED <<vbVars, auditVars>>
  BY <1>1 DEF vbVars, VersionsIInv, CheckedIsNotDefault, Default, Ahead
<1>2. CASE Tick
  BY <1>2 DEF Tick, VersionsIInv, CheckedIsNotDefault, Default, Ahead
<1>3. ASSUME NEW a \in Admin, NEW c \in {"file", "other"}, Save(a, c)
      PROVE  CheckedIsNotDefault'
  BY <1>3, TellsOfDefaults
     DEF Save, Calls, Becomes, Insert, VersionsIInv, VersionsTypeOK, Actor,
         CheckedIsNotDefault
<1>4. ASSUME NEW a \in Admin, NEW v \in Version, SetDefault(a, v)
      PROVE  CheckedIsNotDefault'
  BY <1>4, TellsOfDefaults
     DEF SetDefault, Calls, Becomes, Mark, VersionsIInv, VersionsTypeOK, Actor,
         CheckedIsNotDefault
<1>5. ASSUME NEW a \in Admin, NEW v \in Version, NEW exact \in BOOLEAN,
             CheckDelete(a, v, exact)
      PROVE  CheckedIsNotDefault'
  BY <1>5, TellsOfDefaults
     DEF CheckDelete, Calls, Becomes, Deletable, VersionsIInv, VersionsTypeOK, Actor,
         CheckedIsNotDefault
<1>6. ASSUME NEW a \in Admin, DeleteVersion(a)
      PROVE  CheckedIsNotDefault'
  BY <1>6, TellsOfDefaults
     DEF DeleteVersion, Becomes, Delete, VersionsIInv, VersionsTypeOK, Actor,
         CheckedIsNotDefault
<1>7. ASSUME NEW a \in Admin, Finish(a)
      PROVE  CheckedIsNotDefault'
  BY <1>7, TellsOfDefaults
     DEF Finish, Audits, Becomes, VersionsIInv, VersionsTypeOK, Actor,
         CheckedIsNotDefault
<1>8. CASE InitFinds
  BY <1>8, TellsOfDefaults
     DEF InitFinds, Calls, Becomes, VersionsIInv, VersionsTypeOK, Actor,
         CheckedIsNotDefault
<1>9. CASE InitDiffers
  BY <1>9, TellsOfDefaults
     DEF InitDiffers, Calls, Becomes, VersionsIInv, VersionsTypeOK, Actor,
         CheckedIsNotDefault
<1>10. CASE InitDeletes
  BY <1>10, TellsOfDefaults
     DEF InitDeletes, Becomes, Delete, VersionsIInv, VersionsTypeOK, Actor,
         CheckedIsNotDefault
<1>11. CASE InitInserts
  BY <1>11, TellsOfDefaults
     DEF InitInserts, Becomes, Insert, VersionsIInv, VersionsTypeOK, Actor,
         CheckedIsNotDefault
<1>12. CASE InitFails
  BY <1>12, TellsOfDefaults
     DEF InitFails, VersionsIInv, VersionsTypeOK, Actor,
         CheckedIsNotDefault
<1>13. CASE InitMarks
  BY <1>13, TellsOfDefaults
     DEF InitMarks, Becomes, Mark, VersionsIInv, VersionsTypeOK, Actor,
         CheckedIsNotDefault
<1>14. QED
  BY <1>1, <1>2, <1>3, <1>4, <1>5, <1>6, <1>7, <1>8, <1>9, <1>10, <1>11, <1>12,
     <1>13
     DEF VersionsNext

LEMMA StepReplaced ==
    ASSUME VersionsIInv, [VersionsNext]_<<vbVars, auditVars>>
    PROVE  ReplacedIsOther'
<1> USE PlaybookAssumption DEF table, actors
<1>0. VersionsTypeOK'
  BY VersionsStepType DEF VersionsIInv
<1>1. CASE UNCHANGED <<vbVars, auditVars>>
  BY <1>1 DEF vbVars, VersionsIInv, ReplacedIsOther, Default, Ahead
<1>2. CASE Tick
  BY <1>2 DEF Tick, VersionsIInv, ReplacedIsOther, Default, Ahead
<1>3. ASSUME NEW a \in Admin, NEW c \in {"file", "other"}, Save(a, c)
      PROVE  ReplacedIsOther'
  BY <1>0, <1>3, TellsOfContent
     DEF Save, Calls, Becomes, Insert, VersionsIInv, VersionsTypeOK, Actor
<1>4. ASSUME NEW a \in Admin, NEW v \in Version, SetDefault(a, v)
      PROVE  ReplacedIsOther'
  BY <1>0, <1>4, TellsOfContent
     DEF SetDefault, Calls, Becomes, Mark, VersionsIInv, VersionsTypeOK, Actor
<1>5. ASSUME NEW a \in Admin, NEW v \in Version, NEW exact \in BOOLEAN,
             CheckDelete(a, v, exact)
      PROVE  ReplacedIsOther'
  BY <1>0, <1>5, TellsOfContent
     DEF CheckDelete, Calls, Becomes, VersionsIInv, VersionsTypeOK, Actor
<1>6. ASSUME NEW a \in Admin, DeleteVersion(a)
      PROVE  ReplacedIsOther'
  BY <1>0, <1>6, TellsOfContent
     DEF DeleteVersion, Becomes, Delete, VersionsIInv, VersionsTypeOK, Actor
<1>7. ASSUME NEW a \in Admin, Finish(a)
      PROVE  ReplacedIsOther'
  BY <1>0, <1>7, TellsOfContent
     DEF Finish, Audits, Becomes, VersionsIInv, VersionsTypeOK, Actor
<1>8. CASE InitFinds
  BY <1>0, <1>8, TellsOfContent
     DEF InitFinds, Calls, Becomes, VersionsIInv, VersionsTypeOK, Actor
<1>9. CASE InitDiffers
  <2>1. Default' = Default
    BY <1>9 DEF InitDiffers, Default, Ahead
  <2>2. CASE Default = 0
    BY <1>9, <2>2
       DEF InitDiffers, Calls, Becomes, VersionsIInv, VersionsTypeOK, Actor,
           ReplacedIsOther
  <2>3. CASE Default # 0
    BY <1>9, <2>1, <2>3
       DEF InitDiffers, Replaces, VersionsIInv, VersionsTypeOK, Actor,
           ReplacedIsOther
  <2>4. QED
    BY <2>2, <2>3
<1>10. CASE InitDeletes
  BY <1>0, <1>10, TellsOfContent
     DEF InitDeletes, Becomes, Delete, VersionsIInv, VersionsTypeOK, Actor
<1>11. CASE InitInserts
  BY <1>0, <1>11, TellsOfContent
     DEF InitInserts, Becomes, Insert, VersionsIInv, VersionsTypeOK, Actor
<1>12. CASE InitFails
  BY <1>0, <1>12, TellsOfContent
     DEF InitFails, VersionsIInv, VersionsTypeOK, Actor
<1>13. CASE InitMarks
  BY <1>0, <1>13, TellsOfContent
     DEF InitMarks, Becomes, Mark, VersionsIInv, VersionsTypeOK, Actor
<1>14. QED
  BY <1>1, <1>2, <1>3, <1>4, <1>5, <1>6, <1>7, <1>8, <1>9, <1>10, <1>11, <1>12,
     <1>13
     DEF VersionsNext

LEMMA VersionsSpecInv == VersionsSpec => []VersionsIInv
<1>1. VersionsIInv /\ [VersionsNext]_<<vbVars, auditVars>> => VersionsIInv'
  BY VersionsStepType, StepChecked, StepReplaced DEF VersionsIInv
<1>2. QED
  BY <1>1, VersionsInitInv, PTL DEF VersionsSpec

(* The variables of the versions keep their shapes: a version is a second,  *)
(* rounded, that has been reached within the bound, and what an actor takes *)
(* for the default is a version or nothing.                                 *)
THEOREM VersionsTypeCorrect == VersionsSpec => []VersionsTypeOK
<1>1. VersionsIInv => VersionsTypeOK
  BY DEF VersionsIInv
<1>2. QED
  BY <1>1, VersionsSpecInv, PTL

(* The default of the routes and the default of the runs, two readings of   *)
(* one table with different keys, are one version, for any table of any     *)
(* size, unless two latest marks are shown as the same second or no version *)
(* has a mark.                                                              *)
THEOREM ShownDefaultHolds == VersionsSpec => []ShownDefaultRuns
BY VersionsTypeCorrect, ReadingsAgree, PTL

(* The version that runs load is taken away only by a call that another one *)
(* overtook after it had read the default, by an administrator who writes   *)
(* it in another way than the comparison does, or by an initialisation that *)
(* found it to say something else.                                          *)
THEOREM DefaultIsRemovedForCauseHolds ==
    VersionsSpec => DefaultIsRemovedForCause
<1> DEFINE Gone == Default # 0 /\ Default \notin rows'
           Cause == InitRemoves \/ \E a \in Admin : AdminRemoves(a)
<1>1. ASSUME VersionsIInv, [VersionsNext]_<<vbVars, auditVars>>, Gone
      PROVE  Cause
  <2> USE DEF table
  <2>1. Default \in rows /\ CommandLine \notin Admin
    BY <1>1, DefaultType, PlaybookAssumption DEF VersionsIInv
  <2>2. ASSUME NEW a \in Admin, DeleteVersion(a) PROVE AdminRemoves(a)
    <3>1. does[a] = "checked" /\ does'[a] = "deleted"
      BY <1>1, <2>2
         DEF DeleteVersion, Becomes, VersionsIInv, VersionsTypeOK, Actor
    <3>2. Default = version[a]
      BY <1>1, <2>1, <2>2 DEF DeleteVersion, Delete
    <3>3. QED
      BY <1>1, <3>1, <3>2
         DEF AdminRemoves, VersionsIInv, CheckedIsNotDefault
  <2>3. CASE InitDeletes
    <3>1. does[CommandLine] = "replacing" /\ does'[CommandLine] = "emptied"
      BY <1>1, <2>3
         DEF InitDeletes, Becomes, VersionsIInv, VersionsTypeOK, Actor
    <3>2. QED
      BY <1>1, <3>1 DEF InitRemoves, VersionsIInv, ReplacedIsOther
  <2>4. rows \subseteq rows' \/ InitDeletes \/ \E a \in Admin : DeleteVersion(a)
    BY <1>1 DEF VersionsNext, vbVars, Tick, Save, SetDefault, CheckDelete,
        Finish, InitFinds, InitDiffers, InitInserts, InitFails, InitMarks,
        Insert, Mark
  <2>5. QED
    BY <1>1, <2>1, <2>2, <2>3, <2>4
<1>2. VersionsIInv /\ [VersionsNext]_<<vbVars, auditVars>> =>
         [Gone => Cause]_vbVars
  BY <1>1
<1>3. QED
  BY <1>2, VersionsSpecInv, PTL DEF VersionsSpec, DefaultIsRemovedForCause

-----------------------------------------------------------------------------
(* The versions and the runs side by side.                                  *)

(* A behaviour of the composition is one of the versions and one of the     *)
(* runs: whichever of them moves, the other one stutters, so that what is   *)
(* proved of each alone holds there.                                        *)
THEOREM BothMachinesAreImplemented == Spec => VersionsSpec /\ RunSpec
<1>1. Init => VersionsInit /\ AuditInit /\ RunInit
  BY DEF Init
<1>2. [Next]_<<focus, vbVars, auditVars, runVars>> =>
         [VersionsNext]_<<vbVars, auditVars>> /\ [RunNext]_runVars
  BY DEF Next
<1>3. QED
  BY <1>1, <1>2, PTL DEF Spec, VersionsSpec, RunSpec

(* The shapes of both, in the composition.                                  *)
THEOREM PlaybooksTypeCorrect == Spec => []PlaybooksTypeOK
<1>1. VersionsTypeOK /\ RunTypeOK => PlaybooksTypeOK
  BY DEF PlaybooksTypeOK
<1>2. QED
  BY <1>1, BothMachinesAreImplemented, VersionsTypeCorrect, TypeCorrect, PTL
==============================================================================
