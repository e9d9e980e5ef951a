-------------------- MODULE AttachDetachController_proofs --------------------
(***************************************************************************)
(* Types, ReportedHasEntry and EntryIsAttached, for any nodes, volumes and *)
(* pods and any number of faults.                                          *)
(***************************************************************************)
EXTENDS AttachDetachController, OperationListTheorems

\* The two maps of the actual state of the world.
AswInv ==
    /\ attachedVolumes \in [VolumeNodes -> NodeAttachedTo \cup {NoEntry}]
    /\ nodesToUpdateStatusFor \in [Nodes -> NodeToUpdateStatusFor \cup {NoEntry}]
    /\ ReportedHasEntry

\* A pass works on volumes of nodes, and the goroutines do.
PassInv ==
    /\ rc \in Pass
    /\ rc.step = "detach" => rc.current # NoPair

RoutineInv == routines \in [Volumes -> Tasks \cup {NoEntry}]

ReportInv == AswInv /\ PassInv /\ RoutineInv

(***************************************************************************)
(* An entry is never taken for no entry.                                   *)
(***************************************************************************)
LEMMA EntryType ==
    ASSUME NEW e \in NodeAttachedTo \cup NodeToUpdateStatusFor
    PROVE  e # NoEntry
BY NoEntryAssumption

(***************************************************************************)
(* What the status of a node should list is a set of volumes.              *)
(***************************************************************************)
LEMMA VolumesToReportType ==
    ASSUME AswInv, NEW n \in Nodes
    PROVE  VolumesToReport(n) \subseteq Volumes
BY DEF AswInv, VolumesToReport, NodeToUpdateStatusFor

(***************************************************************************)
(* The entry Reporting gives a node has the list it was given.             *)
(***************************************************************************)
LEMMA ReportingEntry ==
    ASSUME AswInv, NEW n \in Nodes, NEW S \in SUBSET Volumes
    PROVE  /\ Reporting(n, S) \in NodeToUpdateStatusFor
           /\ Reporting(n, S) # NoEntry
           /\ Reporting(n, S).volumesToReportAsAttached = S
<1> DEFINE needed == \/ nodesToUpdateStatusFor[n] = NoEntry
                     \/ S # VolumesToReport(n)
                     \/ nodesToUpdateStatusFor[n].statusUpdateNeeded
<1>1. needed \in BOOLEAN
  <2>1. CASE nodesToUpdateStatusFor[n] = NoEntry
    BY <2>1
  <2>2. CASE nodesToUpdateStatusFor[n] # NoEntry
    <3>1. nodesToUpdateStatusFor[n] \in NodeToUpdateStatusFor
      BY <2>2 DEF AswInv
    <3>2. nodesToUpdateStatusFor[n].statusUpdateNeeded \in BOOLEAN
      BY <3>1 DEF NodeToUpdateStatusFor
    <3> QED
      BY <3>2
  <2> QED
    BY <2>1, <2>2
<1>2. Reporting(n, S) =
        [statusUpdateNeeded |-> needed, volumesToReportAsAttached |-> S]
  BY DEF Reporting
<1> HIDE DEF needed
<1>3. Reporting(n, S) \in NodeToUpdateStatusFor
  BY <1>1, <1>2 DEF NodeToUpdateStatusFor
<1>4. Reporting(n, S) # NoEntry
  BY <1>3, EntryType
<1>5. Reporting(n, S).volumesToReportAsAttached = S
  BY <1>2
<1> QED
  BY <1>3, <1>4, <1>5

(***************************************************************************)
(* Every change of the maps that loses no entry and whose lists name only  *)
(* volumes that have one.                                                  *)
(***************************************************************************)
LEMMA AswStep ==
    ASSUME AswInv,
           attachedVolumes' \in [VolumeNodes -> NodeAttachedTo \cup {NoEntry}],
           nodesToUpdateStatusFor'
               \in [Nodes -> NodeToUpdateStatusFor \cup {NoEntry}],
           \A n \in Nodes : \A v \in VolumesToReport(n)' :
               attachedVolumes'[<<v, n>>] # NoEntry
    PROVE  AswInv'
BY DEF AswInv, ReportedHasEntry, VolumeNodeExists

(***************************************************************************)
(* The list of one node is set, the others stay as they are.               *)
(***************************************************************************)
LEMMA SetReport ==
    ASSUME AswInv, NEW n \in Nodes, NEW S \in SUBSET Volumes,
           nodesToUpdateStatusFor' =
               [nodesToUpdateStatusFor EXCEPT ![n] = Reporting(n, S)]
    PROVE  /\ nodesToUpdateStatusFor'
                \in [Nodes -> NodeToUpdateStatusFor \cup {NoEntry}]
           /\ VolumesToReport(n)' = S
           /\ \A m \in Nodes : m # n => VolumesToReport(m)' = VolumesToReport(m)
<1>1. /\ Reporting(n, S) \in NodeToUpdateStatusFor
      /\ Reporting(n, S) # NoEntry
      /\ Reporting(n, S).volumesToReportAsAttached = S
  BY ReportingEntry
<1> HIDE DEF Reporting
<1>2. nodesToUpdateStatusFor \in [Nodes -> NodeToUpdateStatusFor \cup {NoEntry}]
  BY DEF AswInv
<1> QED
  BY <1>1, <1>2 DEF VolumesToReport

(***************************************************************************)
(* AddVolumeNode and addVolumeToReportAsAttached: the volume has an entry. *)
(***************************************************************************)
LEMMA MarkAttachedAsw ==
    ASSUME AswInv, NEW v \in Volumes, NEW n \in Nodes, MarkVolumeAsAttached(v, n)
    PROVE  AswInv'
<1> DEFINE new == [mountedByNode |-> TRUE, mountedByNodeSetCount |-> "zero",
                   detachRequestedTime |-> "zero"]
<1>1. new \in NodeAttachedTo
  BY DEF NodeAttachedTo
<1> HIDE DEF new
<1>0. new # NoEntry
  BY <1>1, EntryType
<1>2. <<v, n>> \in VolumeNodes
  BY DEF VolumeNodes
<1>3. attachedVolumes' = IF VolumeNodeExists(v, n) THEN attachedVolumes
                         ELSE [attachedVolumes EXCEPT ![<<v, n>>] = new]
  BY DEF MarkVolumeAsAttached, new
<1>4. attachedVolumes' \in [VolumeNodes -> NodeAttachedTo \cup {NoEntry}]
  BY <1>1, <1>2, <1>3 DEF AswInv
<1>5. /\ attachedVolumes'[<<v, n>>] # NoEntry
      /\ \A vn \in VolumeNodes : attachedVolumes[vn] # NoEntry
                                   => attachedVolumes'[vn] # NoEntry
  BY <1>0, <1>1, <1>2, <1>3 DEF AswInv, VolumeNodeExists
<1>6. VolumesToReport(n) \cup {v} \in SUBSET Volumes
  BY VolumesToReportType
<1>7. /\ nodesToUpdateStatusFor'
           \in [Nodes -> NodeToUpdateStatusFor \cup {NoEntry}]
      /\ VolumesToReport(n)' = VolumesToReport(n) \cup {v}
      /\ \A m \in Nodes : m # n => VolumesToReport(m)' = VolumesToReport(m)
  BY <1>6, SetReport DEF MarkVolumeAsAttached
<1>8. ASSUME NEW m \in Nodes, NEW w \in VolumesToReport(m)'
      PROVE  attachedVolumes'[<<w, m>>] # NoEntry
  <2>1. CASE m = n /\ w = v
    BY <2>1, <1>5
  <2>2. CASE ~(m = n /\ w = v)
    <3>1. w \in VolumesToReport(m)
      BY <1>7, <2>2
    <3>2. attachedVolumes[<<w, m>>] # NoEntry
      BY <3>1 DEF AswInv, ReportedHasEntry, VolumeNodeExists
    <3>3. <<w, m>> \in VolumeNodes
      BY <3>1, VolumesToReportType DEF VolumeNodes
    <3> QED
      BY <3>2, <3>3, <1>5
  <2> QED
    BY <2>1, <2>2
<1> QED
  BY <1>4, <1>7, <1>8, AswStep

(***************************************************************************)
(* removeVolumeFromReportAsAttached takes the volume out of its node's     *)
(* list and leaves the other lists alone.                                  *)
(***************************************************************************)
LEMMA RemoveReport ==
    ASSUME AswInv, NEW v \in Volumes, NEW n \in Nodes,
           removeVolumeFromReportAsAttached(v, n)
    PROVE  /\ nodesToUpdateStatusFor'
                \in [Nodes -> NodeToUpdateStatusFor \cup {NoEntry}]
           /\ VolumesToReport(n)' = VolumesToReport(n) \ {v}
           /\ \A m \in Nodes : m # n => VolumesToReport(m)' = VolumesToReport(m)
<1>1. CASE v \in VolumesToReport(n)
  <2>1. VolumesToReport(n) \ {v} \in SUBSET Volumes
    BY VolumesToReportType
  <2>2. nodesToUpdateStatusFor' = [nodesToUpdateStatusFor EXCEPT ![n] =
          Reporting(n, VolumesToReport(n) \ {v})]
    BY <1>1 DEF removeVolumeFromReportAsAttached
  <2> QED
    BY <2>1, <2>2, SetReport
<1>2. CASE v \notin VolumesToReport(n)
  <2>1. nodesToUpdateStatusFor' = nodesToUpdateStatusFor
    BY <1>2 DEF removeVolumeFromReportAsAttached
  <2>2. \A m \in Nodes : VolumesToReport(m)' = VolumesToReport(m)
    BY <2>1 DEF VolumesToReport
  <2> QED
    BY <1>2, <2>1, <2>2 DEF AswInv
<1> QED
  BY <1>1, <1>2

(***************************************************************************)
(* DeleteVolumeNode: the entry and the report of the volume go together,   *)
(* whichever goroutine calls it.                                           *)
(***************************************************************************)
LEMMA MarkDetachedAsw ==
    ASSUME AswInv, NEW v \in Volumes, NEW n \in Nodes, MarkVolumeAsDetached(v, n)
    PROVE  AswInv'
<1>1. CASE \E m \in Nodes : VolumeNodeExists(v, m)
  <2>1. /\ attachedVolumes' = [attachedVolumes EXCEPT ![<<v, n>>] = NoEntry]
        /\ removeVolumeFromReportAsAttached(v, n)
    BY <1>1 DEF MarkVolumeAsDetached
  <2>2. attachedVolumes' \in [VolumeNodes -> NodeAttachedTo \cup {NoEntry}]
    BY <2>1 DEF AswInv
  <2>3. /\ nodesToUpdateStatusFor'
             \in [Nodes -> NodeToUpdateStatusFor \cup {NoEntry}]
        /\ VolumesToReport(n)' = VolumesToReport(n) \ {v}
        /\ \A m \in Nodes : m # n => VolumesToReport(m)' = VolumesToReport(m)
    BY <2>1, RemoveReport
  <2>4. ASSUME NEW m \in Nodes, NEW w \in VolumesToReport(m)'
        PROVE  attachedVolumes'[<<w, m>>] # NoEntry
    <3>1. w \in VolumesToReport(m) /\ ~(m = n /\ w = v)
      BY <2>3
    <3>2. attachedVolumes[<<w, m>>] # NoEntry
      BY <3>1 DEF AswInv, ReportedHasEntry, VolumeNodeExists
    <3>3. <<w, m>> \in VolumeNodes /\ <<w, m>> # <<v, n>>
      BY <3>1, VolumesToReportType DEF VolumeNodes
    <3> QED
      BY <2>1, <3>2, <3>3 DEF AswInv
  <2> QED
    BY <2>2, <2>3, <2>4, AswStep
<1>2. CASE ~\E m \in Nodes : VolumeNodeExists(v, m)
  <2>1. UNCHANGED aswVars
    BY <1>2 DEF MarkVolumeAsDetached
  <2> QED
    BY <2>1 DEF aswVars, AswInv, ReportedHasEntry, VolumesToReport,
                VolumeNodeExists
<1> QED
  BY <1>1, <1>2

(***************************************************************************)
(* AddVolumeToReportAsAttached looks for the entry first: a detach that    *)
(* fails after the entry is gone reports nothing.                          *)
(***************************************************************************)
LEMMA ReportAgainAsw ==
    ASSUME AswInv, NEW v \in Volumes, NEW n \in Nodes,
           AddVolumeToReportAsAttached(v, n)
    PROVE  AswInv'
<1>1. attachedVolumes' = attachedVolumes
  BY DEF AddVolumeToReportAsAttached
<1>2. CASE VolumeNodeExists(v, n)
  <2>1. VolumesToReport(n) \cup {v} \in SUBSET Volumes
    BY VolumesToReportType
  <2>2. nodesToUpdateStatusFor' = [nodesToUpdateStatusFor EXCEPT ![n] =
          Reporting(n, VolumesToReport(n) \cup {v})]
    BY <1>2 DEF AddVolumeToReportAsAttached
  <2>3. /\ nodesToUpdateStatusFor'
             \in [Nodes -> NodeToUpdateStatusFor \cup {NoEntry}]
        /\ VolumesToReport(n)' = VolumesToReport(n) \cup {v}
        /\ \A m \in Nodes : m # n => VolumesToReport(m)' = VolumesToReport(m)
    BY <2>1, <2>2, SetReport
  <2>4. ASSUME NEW m \in Nodes, NEW w \in VolumesToReport(m)'
        PROVE  attachedVolumes'[<<w, m>>] # NoEntry
    BY <1>1, <1>2, <2>3 DEF AswInv, ReportedHasEntry, VolumeNodeExists
  <2> QED
    BY <1>1, <2>3, <2>4, AswStep DEF AswInv
<1>3. CASE ~VolumeNodeExists(v, n)
  <2>1. nodesToUpdateStatusFor' = nodesToUpdateStatusFor
    BY <1>3 DEF AddVolumeToReportAsAttached
  <2> QED
    BY <1>1, <2>1 DEF AswInv, ReportedHasEntry, VolumesToReport, VolumeNodeExists
<1> QED
  BY <1>2, <1>3

(***************************************************************************)
(* Setting and resetting statusUpdateNeeded changes no list.               *)
(***************************************************************************)
LEMMA FlagsKeepLists ==
    ASSUME AswInv, NEW nodes, NEW needed \in BOOLEAN,
           nodesToUpdateStatusFor' = StatusUpdateNeeded(nodes, needed)
    PROVE  /\ nodesToUpdateStatusFor'
                \in [Nodes -> NodeToUpdateStatusFor \cup {NoEntry}]
           /\ \A n \in Nodes : VolumesToReport(n)' = VolumesToReport(n)
<1>1. ASSUME NEW n \in Nodes
      PROVE  /\ nodesToUpdateStatusFor'[n] \in NodeToUpdateStatusFor \cup {NoEntry}
             /\ VolumesToReport(n)' = VolumesToReport(n)
  <2>1. CASE n \in nodes /\ nodesToUpdateStatusFor[n] # NoEntry
    <3>1. nodesToUpdateStatusFor[n] \in NodeToUpdateStatusFor
      BY <2>1 DEF AswInv
    <3>2. nodesToUpdateStatusFor'[n] =
            [nodesToUpdateStatusFor[n] EXCEPT !.statusUpdateNeeded = needed]
      BY <2>1 DEF StatusUpdateNeeded
    <3>3. /\ nodesToUpdateStatusFor'[n] \in NodeToUpdateStatusFor
          /\ nodesToUpdateStatusFor'[n].volumesToReportAsAttached
               = nodesToUpdateStatusFor[n].volumesToReportAsAttached
      BY <3>1, <3>2 DEF NodeToUpdateStatusFor
    <3>4. nodesToUpdateStatusFor'[n] # NoEntry
      BY <3>3, EntryType
    <3> QED
      BY <2>1, <3>3, <3>4 DEF VolumesToReport
  <2>2. CASE ~(n \in nodes /\ nodesToUpdateStatusFor[n] # NoEntry)
    <3>1. nodesToUpdateStatusFor'[n] = nodesToUpdateStatusFor[n]
      BY <2>2 DEF StatusUpdateNeeded
    <3> QED
      BY <3>1 DEF VolumesToReport, AswInv
  <2> QED
    BY <2>1, <2>2
<1>2. nodesToUpdateStatusFor' =
        [n \in Nodes |-> nodesToUpdateStatusFor'[n]]
  BY DEF StatusUpdateNeeded
<1> QED
  BY <1>1, <1>2

(***************************************************************************)
(* Entries that only change, without any appearing or going.               *)
(***************************************************************************)
LEMMA EntriesStayAsw ==
    ASSUME AswInv,
           nodesToUpdateStatusFor'
               \in [Nodes -> NodeToUpdateStatusFor \cup {NoEntry}],
           \A n \in Nodes : VolumesToReport(n)' \subseteq VolumesToReport(n),
           attachedVolumes' \in [VolumeNodes -> NodeAttachedTo \cup {NoEntry}],
           \A vn \in VolumeNodes :
               attachedVolumes[vn] # NoEntry => attachedVolumes'[vn] # NoEntry
    PROVE  AswInv'
<1>1. ASSUME NEW m \in Nodes, NEW w \in VolumesToReport(m)'
      PROVE  attachedVolumes'[<<w, m>>] # NoEntry
  <2>1. w \in VolumesToReport(m)
    OBVIOUS
  <2>2. attachedVolumes[<<w, m>>] # NoEntry
    BY <2>1 DEF AswInv, ReportedHasEntry, VolumeNodeExists
  <2>3. <<w, m>> \in VolumeNodes
    BY <2>1, VolumesToReportType DEF VolumeNodes
  <2> QED
    BY <2>2, <2>3
<1> QED
  BY <1>1, AswStep

(***************************************************************************)
(* The updates of an entry leave an entry.                                 *)
(***************************************************************************)
LEMMA UpdatedEntries ==
    ASSUME AswInv, NEW e \in NodeAttachedTo
    PROVE  /\ DetachRequested(e) \in NodeAttachedTo
           /\ \A b \in BOOLEAN : MountedByNode(e, b) \in NodeAttachedTo
           /\ \A t \in {"zero", "recent", "expired"} :
                [e EXCEPT !.detachRequestedTime = t] \in NodeAttachedTo
BY DEF NodeAttachedTo, DetachRequested, MountedByNode

(***************************************************************************)
(* processVolumesInUse, of the handlers of nodes, loses no entry.          *)
(***************************************************************************)
LEMMA VolumesInUseEntries ==
    ASSUME AswInv, NEW n \in Nodes, NEW S, processVolumesInUse(n, S)
    PROVE  /\ attachedVolumes' \in [VolumeNodes -> NodeAttachedTo \cup {NoEntry}]
           /\ \A vn \in VolumeNodes :
                attachedVolumes[vn] # NoEntry => attachedVolumes'[vn] # NoEntry
<1>1. ASSUME NEW vn \in VolumeNodes
      PROVE  /\ attachedVolumes'[vn] \in NodeAttachedTo \cup {NoEntry}
             /\ attachedVolumes[vn] # NoEntry => attachedVolumes'[vn] # NoEntry
  <2>1. CASE vn[2] = n /\ attachedVolumes[vn] # NoEntry
    <3>1. attachedVolumes[vn] \in NodeAttachedTo
      BY <2>1 DEF AswInv
    <3>2. attachedVolumes'[vn] = MountedByNode(attachedVolumes[vn], vn[1] \in S)
      BY <2>1 DEF processVolumesInUse
    <3>3. (vn[1] \in S) \in BOOLEAN
      OBVIOUS
    <3>4. attachedVolumes'[vn] \in NodeAttachedTo
      BY <3>1, <3>2, <3>3, UpdatedEntries
    <3> QED
      BY <3>4, EntryType
  <2>2. CASE ~(vn[2] = n /\ attachedVolumes[vn] # NoEntry)
    BY <2>2 DEF processVolumesInUse, AswInv
  <2> QED
    BY <2>1, <2>2
<1>2. attachedVolumes' = [vn \in VolumeNodes |-> attachedVolumes'[vn]]
  BY DEF processVolumesInUse
<1> QED
  BY <1>1, <1>2

(***************************************************************************)
(* One entry is given another value.                                       *)
(***************************************************************************)
LEMMA OneEntry ==
    ASSUME AswInv, NEW vn \in VolumeNodes, NEW e \in NodeAttachedTo,
           attachedVolumes' = [attachedVolumes EXCEPT ![vn] = e]
    PROVE  /\ attachedVolumes' \in [VolumeNodes -> NodeAttachedTo \cup {NoEntry}]
           /\ \A x \in VolumeNodes :
                attachedVolumes[x] # NoEntry => attachedVolumes'[x] # NoEntry
<1>1. e # NoEntry
  BY EntryType
<1> QED
  BY <1>1 DEF AswInv

(***************************************************************************)
(* A task of the reconciler is about a volume and a node.                  *)
(***************************************************************************)
LEMMA TodoType ==
    ASSUME PassInv, NEW t \in rc.todo
    PROVE  /\ t[1] \in VolumeNodes /\ t[2] \in BOOLEAN
           /\ t[1][1] \in Volumes /\ t[1][2] \in Nodes
           /\ t[1] = <<t[1][1], t[1][2]>>
           /\ rc.todo \ {t} \in SUBSET (VolumeNodes \X BOOLEAN)
<1>1. rc.todo \in SUBSET (VolumeNodes \X BOOLEAN)
  BY DEF PassInv, Pass
<1>2. t[1] \in VolumeNodes /\ t[2] \in BOOLEAN
  BY <1>1
<1> QED
  BY <1>1, <1>2 DEF VolumeNodes

(***************************************************************************)
(* A goroutine moves on, and the two maps and the pass stay as they are.   *)
(***************************************************************************)
LEMMA GotoTasks ==
    ASSUME RoutineInv, NEW v \in Volumes, routines[v] # NoEntry,
           NEW s \in {"attach", "markAttached", "verifySafe", "forceDetach",
                      "detach", "markDetached", "reportAgain", "succeeded",
                      "failed"},
           Goto(v, s)
    PROVE  RoutineInv'
<1>1. routines[v] \in Tasks
  BY DEF RoutineInv
<1>2. [routines[v] EXCEPT !.step = s] \in Tasks
  BY <1>1 DEF Tasks
<1>3. routines' = [routines EXCEPT ![v] = [routines[v] EXCEPT !.step = s]]
  BY DEF Goto
<1> QED
  BY <1>2, <1>3 DEF RoutineInv

(***************************************************************************)
(* pendingOperations.Run starts a goroutine for a volume of a node, or     *)
(* leaves everything as it is.                                             *)
(***************************************************************************)
LEMMA StartTasks ==
    ASSUME RoutineInv, NEW v \in Volumes, NEW n \in Nodes,
           NEW s \in {"attach", "verifySafe", "forceDetach"},
           Start(v, n, s)
    PROVE  RoutineInv'
<1>1. [node |-> n, step |-> s] \in Tasks
  BY DEF Tasks
<1>2. \/ routines' = [routines EXCEPT ![v] = [node |-> n, step |-> s]]
      \/ routines' = routines
  BY DEF Start, opVars
<1> QED
  BY <1>1, <1>2 DEF RoutineInv

(***************************************************************************)
(* The maps are left alone.                                                *)
(***************************************************************************)
LEMMA AswStays ==
    ASSUME AswInv, UNCHANGED aswVars
    PROVE  AswInv'
BY DEF AswInv, aswVars, ReportedHasEntry, VolumesToReport, VolumeNodeExists

(***************************************************************************)
(* A step that leaves all that the invariant is about alone.               *)
(***************************************************************************)
LEMMA Stays ==
    ASSUME ReportInv, UNCHANGED <<aswVars, rc, routines>>
    PROVE  ReportInv'
<1>1. AswInv'
  BY AswStays DEF ReportInv
<1> QED
  BY <1>1 DEF ReportInv, PassInv, RoutineInv

(***************************************************************************)
(* The reconciler's pass, from one step to the next.                       *)
(***************************************************************************)
LEMMA BeginPassInv ==
    ASSUME ReportInv, BeginPass
    PROVE  ReportInv'
<1> DEFINE todo == {<<vn, attachedVolumes[vn].mountedByNode>> :
                      vn \in {x \in VolumeNodes : attachedVolumes[x] # NoEntry}}
<1>1. todo \in SUBSET (VolumeNodes \X BOOLEAN)
  BY DEF ReportInv, AswInv, NodeAttachedTo
<1>2. rc' = [rc EXCEPT !.step = "detaches", !.todo = todo]
  BY DEF BeginPass
<1> HIDE DEF todo
<1>3. PassInv'
  BY <1>1, <1>2 DEF ReportInv, PassInv, Pass, Steps
<1>4. AswInv' /\ RoutineInv'
  BY AswStays DEF BeginPass, ReportInv, RoutineInv, opVars
<1> QED
  BY <1>3, <1>4 DEF ReportInv

(***************************************************************************)
(* A volume to detach leaves the report before anything else happens, and  *)
(* keeps its entry.                                                        *)
(***************************************************************************)
LEMMA ConsiderDetachInv ==
    ASSUME ReportInv, NEW t \in rc.todo, ConsiderDetach(t)
    PROVE  ReportInv'
<1> USE DEF ReportInv
<1>1. /\ t[1] \in VolumeNodes /\ t[2] \in BOOLEAN
      /\ t[1][1] \in Volumes /\ t[1][2] \in Nodes
      /\ rc.todo \ {t} \in SUBSET (VolumeNodes \X BOOLEAN)
  BY TodoType
<1> DEFINE e       == DetachRequested(attachedVolumes[t[1]])
           timeout == e.detachRequestedTime = "expired"
<1>2. attachedVolumes[t[1]] \in NodeAttachedTo
  BY <1>1 DEF ConsiderDetach, AswInv
<1>3. e \in NodeAttachedTo
  BY <1>2, UpdatedEntries
<1>4. attachedVolumes' = [attachedVolumes EXCEPT ![t[1]] = e]
  BY DEF ConsiderDetach
<1>5. \/ /\ rc' = [rc EXCEPT !.todo = rc.todo \ {t}]
         /\ UNCHANGED nodesToUpdateStatusFor
      \/ /\ rc' = [rc EXCEPT !.todo = rc.todo \ {t}, !.step = "collect",
                             !.current = t[1], !.timeout = timeout]
         /\ removeVolumeFromReportAsAttached(t[1][1], t[1][2])
  BY DEF ConsiderDetach
<1>6. timeout \in BOOLEAN
  OBVIOUS
<1> HIDE DEF e, timeout
<1>7. /\ attachedVolumes' \in [VolumeNodes -> NodeAttachedTo \cup {NoEntry}]
      /\ \A x \in VolumeNodes :
           attachedVolumes[x] # NoEntry => attachedVolumes'[x] # NoEntry
  BY <1>1, <1>3, <1>4, OneEntry
<1>8. /\ nodesToUpdateStatusFor'
           \in [Nodes -> NodeToUpdateStatusFor \cup {NoEntry}]
      /\ \A n \in Nodes : VolumesToReport(n)' \subseteq VolumesToReport(n)
  <2>1. CASE UNCHANGED nodesToUpdateStatusFor
    BY <2>1 DEF AswInv, VolumesToReport
  <2>2. CASE removeVolumeFromReportAsAttached(t[1][1], t[1][2])
    <3>1. /\ nodesToUpdateStatusFor'
               \in [Nodes -> NodeToUpdateStatusFor \cup {NoEntry}]
          /\ VolumesToReport(t[1][2])' = VolumesToReport(t[1][2]) \ {t[1][1]}
          /\ \A m \in Nodes :
               m # t[1][2] => VolumesToReport(m)' = VolumesToReport(m)
      BY <1>1, <2>2, RemoveReport
    <3> QED
      BY <1>1, <3>1
  <2> QED
    BY <1>5, <2>1, <2>2
<1>9. AswInv'
  BY <1>7, <1>8, EntriesStayAsw
<1>10. PassInv'
  <2>1. CASE rc' = [rc EXCEPT !.todo = rc.todo \ {t}]
    BY <1>1, <2>1 DEF PassInv, Pass, ConsiderDetach
  <2>2. CASE rc' = [rc EXCEPT !.todo = rc.todo \ {t}, !.step = "collect",
                             !.current = t[1], !.timeout = timeout]
    BY <1>1, <1>6, <2>2 DEF PassInv, Pass, Steps
  <2> QED
    BY <1>5, <2>1, <2>2
<1>11. RoutineInv'
  BY DEF ConsiderDetach, RoutineInv, opVars
<1> QED
  BY <1>9, <1>10, <1>11

(***************************************************************************)
(* The flags of the nodes are reset when an update begins and set again    *)
(* when a patch is not made: no list changes.                              *)
(***************************************************************************)
LEMMA FlagStepsInv ==
    ASSUME ReportInv,
           \/ GetVolumesToReportAttached
           \/ \E u \in rc.updates : PatchUnknownNode(u) \/ PatchFails(u)
    PROVE  ReportInv'
<1> USE DEF ReportInv
<1>1. AswInv'
  <2>1. PICK nodes \in SUBSET Nodes, needed \in BOOLEAN :
          nodesToUpdateStatusFor' = StatusUpdateNeeded(nodes, needed)
    <3>1. CASE GetVolumesToReportAttached
      BY <3>1 DEF GetVolumesToReportAttached
    <3>2. ASSUME NEW u \in rc.updates, PatchUnknownNode(u) \/ PatchFails(u)
          PROVE  /\ nodesToUpdateStatusFor' = StatusUpdateNeeded({u[1]}, TRUE)
                 /\ {u[1]} \in SUBSET Nodes
      BY <3>2 DEF PatchUnknownNode, PatchFails, SetNodeStatusUpdateNeeded,
                  PassInv, Pass
    <3> QED
      BY <3>1, <3>2
  <2>2. attachedVolumes' = attachedVolumes
    BY DEF GetVolumesToReportAttached, PatchUnknownNode, PatchFails
  <2>3. /\ nodesToUpdateStatusFor'
             \in [Nodes -> NodeToUpdateStatusFor \cup {NoEntry}]
        /\ \A n \in Nodes : VolumesToReport(n)' = VolumesToReport(n)
    BY <2>1, FlagsKeepLists
  <2>4. attachedVolumes' \in [VolumeNodes -> NodeAttachedTo \cup {NoEntry}]
    BY <2>2 DEF AswInv
  <2> QED
    BY <2>2, <2>3, <2>4, EntriesStayAsw
<1>2. RoutineInv'
  BY DEF GetVolumesToReportAttached, PatchUnknownNode, PatchFails, RoutineInv,
         opVars
<1>3. PassInv'
  <2>1. CASE GetVolumesToReportAttached
    <3>1. VolumesToReportAttached \in SUBSET (Nodes \X SUBSET Volumes)
      <4>1. \A n \in Nodes : VolumesToReport(n) \in SUBSET Volumes
        BY VolumesToReportType
      <4> QED
        BY <4>1 DEF VolumesToReportAttached
    <3>2. rc' = [rc EXCEPT !.step = "patch", !.updates = VolumesToReportAttached]
      BY <2>1 DEF GetVolumesToReportAttached
    <3> QED
      BY <3>1, <3>2 DEF PassInv, Pass, Steps
  <2>2. ASSUME NEW u \in rc.updates, PatchUnknownNode(u)
        PROVE  PassInv'
    BY <2>2 DEF PatchUnknownNode, PassInv, Pass, Steps
  <2>3. ASSUME NEW u \in rc.updates, PatchFails(u)
        PROVE  PassInv'
    BY <2>3 DEF PatchFails, AbandonUpdates, PassInv, Pass, Steps
  <2> QED
    BY <2>1, <2>2, <2>3
<1> QED
  BY <1>1, <1>2, <1>3

(***************************************************************************)
(* Between two passes nothing is to be detached.                           *)
(***************************************************************************)
LEMMA IdlePassType == IdlePass \in Pass /\ IdlePass.step # "detach"
<1>1. {} \in SUBSET (VolumeNodes \X BOOLEAN)
  OBVIOUS
<1>2. {} \in SUBSET (Nodes \X SUBSET Volumes)
  OBVIOUS
<1> QED
  BY <1>1, <1>2 DEF IdlePass, Pass, Steps

(***************************************************************************)
(* The steps of a pass that only move it on.                               *)
(***************************************************************************)
LEMMA PassMovesInv ==
    ASSUME ReportInv,
           \/ UpdatesDone \/ DetachesDone \/ AttachesDone \/ EndPass \/ SyncStates
           \/ \E t \in rc.todo : SkipDesired(t)
           \/ \E u \in rc.updates : PatchSucceeds(u)
    PROVE  ReportInv'
<1> USE DEF ReportInv
<1>1. UNCHANGED <<aswVars, routines>>
  BY DEF UpdatesDone, DetachesDone, AttachesDone, EndPass, SyncStates,
         SkipDesired, PatchSucceeds, opVars
<1>2. AswInv' /\ RoutineInv'
  BY <1>1, AswStays DEF RoutineInv
<1>3. PassInv'
  <2>1. CASE UpdatesDone
    BY <2>1 DEF UpdatesDone, PassInv, Pass, Steps
  <2>2. CASE DetachesDone
    <3>1. GetVolumesToAttach \X {FALSE} \in SUBSET (VolumeNodes \X BOOLEAN)
      BY DEF GetVolumesToAttach
    <3> QED
      BY <2>2, <3>1 DEF DetachesDone, PassInv, Pass, Steps
  <2>3. CASE AttachesDone
    BY <2>3 DEF AttachesDone, PassInv, Pass, Steps
  <2>4. CASE EndPass \/ SyncStates
    BY <2>4, IdlePassType DEF EndPass, SyncStates, PassInv
  <2>5. ASSUME NEW t \in rc.todo, SkipDesired(t)
        PROVE  PassInv'
    BY <2>5, TodoType DEF SkipDesired, PassInv, Pass
  <2>6. ASSUME NEW u \in rc.updates, PatchSucceeds(u)
        PROVE  PassInv'
    BY <2>6 DEF PatchSucceeds, PassInv, Pass
  <2> QED
    BY <2>1, <2>2, <2>3, <2>4, <2>5, <2>6
<1> QED
  BY <1>2, <1>3

(***************************************************************************)
(* The volume to detach is handed to pendingOperations.                    *)
(***************************************************************************)
LEMMA DetachVolumeInv ==
    ASSUME ReportInv, DetachVolume
    PROVE  ReportInv'
<1> USE DEF ReportInv
<1>1. rc.current \in VolumeNodes
  BY DEF DetachVolume, PassInv, Pass
<1>2. rc.current[1] \in Volumes /\ rc.current[2] \in Nodes
  BY <1>1 DEF VolumeNodes
<1>3. RoutineInv'
  BY <1>2, StartTasks DEF DetachVolume
<1>4. PassInv'
  BY DEF DetachVolume, PassInv, Pass, Steps
<1>5. AswInv'
  BY AswStays DEF DetachVolume
<1> QED
  BY <1>3, <1>4, <1>5

(***************************************************************************)
(* A volume to attach: the wait for its detach is reset, or it is started. *)
(***************************************************************************)
LEMMA AttachVolumeInv ==
    ASSUME ReportInv, NEW t \in rc.todo, AttachVolume(t)
    PROVE  ReportInv'
<1> USE DEF ReportInv
<1>1. /\ t[1] \in VolumeNodes /\ t[1][1] \in Volumes /\ t[1][2] \in Nodes
      /\ <<t[1][1], t[1][2]>> \in VolumeNodes
      /\ rc.todo \ {t} \in SUBSET (VolumeNodes \X BOOLEAN)
  BY TodoType
<1>2. PassInv'
  BY <1>1 DEF AttachVolume, PassInv, Pass
<1>3. CASE VolumeNodeExists(t[1][1], t[1][2])
  <2> DEFINE vn == <<t[1][1], t[1][2]>>
             e  == [attachedVolumes[vn] EXCEPT !.detachRequestedTime = "zero"]
  <2>1. /\ attachedVolumes' = [attachedVolumes EXCEPT ![vn] = e]
        /\ UNCHANGED <<routines, nodesToUpdateStatusFor>>
    BY <1>3 DEF AttachVolume, ResetDetachRequestTime, opVars
  <2>2. attachedVolumes[vn] \in NodeAttachedTo
    BY <1>1, <1>3 DEF AswInv, VolumeNodeExists
  <2>3. e \in NodeAttachedTo
    BY <2>2, UpdatedEntries
  <2> HIDE DEF e
  <2>4. /\ attachedVolumes' \in [VolumeNodes -> NodeAttachedTo \cup {NoEntry}]
        /\ \A x \in VolumeNodes :
             attachedVolumes[x] # NoEntry => attachedVolumes'[x] # NoEntry
    BY <1>1, <2>1, <2>3, OneEntry
  <2>5. \A n \in Nodes : VolumesToReport(n)' = VolumesToReport(n)
    BY <2>1 DEF VolumesToReport
  <2>6. AswInv'
    <3>1. nodesToUpdateStatusFor'
            \in [Nodes -> NodeToUpdateStatusFor \cup {NoEntry}]
      BY <2>1 DEF AswInv
    <3> QED
      BY <2>4, <2>5, <3>1, EntriesStayAsw
  <2> QED
    BY <1>2, <2>1, <2>6 DEF RoutineInv
<1>4. CASE ~VolumeNodeExists(t[1][1], t[1][2])
  <2>1. /\ Start(t[1][1], t[1][2], "attach")
        /\ UNCHANGED aswVars
    BY <1>4 DEF AttachVolume, aswVars
  <2> QED
    BY <1>1, <1>2, <2>1, StartTasks, AswStays
<1> QED
  BY <1>3, <1>4

(***************************************************************************)
(* The goroutines.                                                         *)
(***************************************************************************)
LEMMA RoutineStepInv ==
    ASSUME ReportInv, NEW v \in Volumes, RoutineStep(v) \/ CallFails(v) \/ CallFailsLate(v)
    PROVE  ReportInv'
<1> USE DEF ReportInv
<1>1. rc' = rc
  BY DEF RoutineStep, Attach, MarkAttached, verifyVolumeIsSafeToDetach, Detach,
         MarkDetached, ReportAgain, Complete, CallFails, CallFailsLate, routineFrame
<1>2. PassInv'
  BY <1>1 DEF PassInv
<1>3. routines[v] # NoEntry /\ routines[v] \in Tasks
  BY DEF RoutineStep, Attach, MarkAttached, verifyVolumeIsSafeToDetach, Detach,
         MarkDetached, ReportAgain, Complete, CallFails, CallFailsLate, At, RoutineInv
<1>4. routines[v].node \in Nodes
  BY <1>3 DEF Tasks
<1>5. AswInv'
  <2>1. CASE MarkAttached(v)
    BY <1>4, <2>1, MarkAttachedAsw DEF MarkAttached
  <2>2. CASE MarkDetached(v)
    BY <1>4, <2>2, MarkDetachedAsw DEF MarkDetached
  <2>3. CASE ReportAgain(v)
    BY <1>4, <2>3, ReportAgainAsw DEF ReportAgain
  <2>4. CASE Attach(v) \/ verifyVolumeIsSafeToDetach(v) \/ Detach(v)
               \/ Complete(v) \/ CallFails(v) \/ CallFailsLate(v)
    BY <2>4, AswStays DEF Attach, verifyVolumeIsSafeToDetach, Detach, Complete,
                          CallFails, CallFailsLate
  <2> QED
    BY <2>1, <2>2, <2>3, <2>4 DEF RoutineStep
<1>6. RoutineInv'
  <2>1. CASE Complete(v)
    BY <2>1 DEF Complete, RoutineInv
  <2>2. CASE ~Complete(v)
    BY <1>3, <2>2, GotoTasks
       DEF RoutineStep, Attach, MarkAttached, verifyVolumeIsSafeToDetach, Detach,
           MarkDetached, ReportAgain, CallFails, CallFailsLate
  <2> QED
    BY <2>1, <2>2
<1> QED
  BY <1>2, <1>5, <1>6

(***************************************************************************)
(* The verification of a node, which marks volumes as detached that        *)
(* another goroutine may be working on.                                    *)
(***************************************************************************)
LEMMA VerifierStepInv ==
    ASSUME ReportInv, NEW n \in Nodes, VerifierStep(n)
    PROVE  ReportInv'
<1>1. CASE VolumesAreAttached(n)
  BY <1>1, Stays DEF VolumesAreAttached, opVars
<1>2. ASSUME NEW v \in Volumes, MarkMissing(n, v)
      PROVE  ReportInv'
  <2>1. AswInv'
    BY <1>2, MarkDetachedAsw DEF MarkMissing, ReportInv
  <2> QED
    BY <1>2, <2>1 DEF MarkMissing, ReportInv, PassInv, RoutineInv, opVars
<1> QED
  BY <1>1, <1>2 DEF VerifierStep

(***************************************************************************)
(* The handlers of nodes.                                                  *)
(***************************************************************************)
LEMMA NodeHandlerInv ==
    ASSUME ReportInv, NEW n \in Nodes, nodeAdd(n) \/ nodeUpdate(n) \/ nodeDelete(n)
    PROVE  ReportInv'
<1> USE DEF ReportInv
<1>1. UNCHANGED <<rc, routines>>
  BY DEF nodeAdd, nodeUpdate, nodeDelete, ctlVars, opVars
<1>2. PICK S : processVolumesInUse(n, S)
  BY DEF nodeAdd, nodeUpdate, nodeDelete
<1>3. /\ attachedVolumes' \in [VolumeNodes -> NodeAttachedTo \cup {NoEntry}]
      /\ \A vn \in VolumeNodes :
           attachedVolumes[vn] # NoEntry => attachedVolumes'[vn] # NoEntry
  BY <1>2, VolumesInUseEntries
<1>4. /\ nodesToUpdateStatusFor'
           \in [Nodes -> NodeToUpdateStatusFor \cup {NoEntry}]
      /\ \A m \in Nodes : VolumesToReport(m)' \subseteq VolumesToReport(m)
  <2>1. CASE nodeAdd(n)
    <3>1. nodesToUpdateStatusFor' = StatusUpdateNeeded({n}, TRUE)
      BY <2>1 DEF nodeAdd, SetNodeStatusUpdateNeeded
    <3>2. /\ nodesToUpdateStatusFor'
               \in [Nodes -> NodeToUpdateStatusFor \cup {NoEntry}]
          /\ \A m \in Nodes : VolumesToReport(m)' = VolumesToReport(m)
      BY <3>1, FlagsKeepLists
    <3> QED
      BY <3>2
  <2>2. CASE nodeUpdate(n) \/ nodeDelete(n)
    <3>1. nodesToUpdateStatusFor' = nodesToUpdateStatusFor
      BY <2>2 DEF nodeUpdate, nodeDelete
    <3> QED
      BY <3>1 DEF AswInv, VolumesToReport
  <2> QED
    BY <2>1, <2>2
<1>5. AswInv'
  BY <1>3, <1>4, EntriesStayAsw
<1> QED
  BY <1>1, <1>5 DEF PassInv, RoutineInv

(***************************************************************************)
(* The wait for an unmount elapses: an entry changes.                      *)
(***************************************************************************)
LEMMA UnmountWaitElapsesInv ==
    ASSUME ReportInv, NEW v \in Volumes, NEW n \in Nodes, UnmountWaitElapses(v, n)
    PROVE  ReportInv'
<1> USE DEF ReportInv
<1> DEFINE vn == <<v, n>>
           e  == [attachedVolumes[vn] EXCEPT !.detachRequestedTime = "expired"]
<1>1. vn \in VolumeNodes
  BY DEF VolumeNodes
<1>2. attachedVolumes[vn] \in NodeAttachedTo
  BY <1>1 DEF AswInv, VolumeNodeExists, UnmountWaitElapses
<1>3. e \in NodeAttachedTo
  BY <1>2, UpdatedEntries
<1>4. /\ attachedVolumes' = [attachedVolumes EXCEPT ![vn] = e]
      /\ UNCHANGED <<nodesToUpdateStatusFor, rc, routines>>
  BY DEF UnmountWaitElapses, routineFrame, opVars
<1> HIDE DEF e, vn
<1>5. /\ attachedVolumes' \in [VolumeNodes -> NodeAttachedTo \cup {NoEntry}]
      /\ \A x \in VolumeNodes :
           attachedVolumes[x] # NoEntry => attachedVolumes'[x] # NoEntry
  BY <1>1, <1>3, <1>4, OneEntry
<1>6. /\ nodesToUpdateStatusFor'
           \in [Nodes -> NodeToUpdateStatusFor \cup {NoEntry}]
      /\ \A m \in Nodes : VolumesToReport(m)' \subseteq VolumesToReport(m)
  BY <1>4 DEF AswInv, VolumesToReport
<1>7. AswInv'
  BY <1>5, <1>6, EntriesStayAsw
<1> QED
  BY <1>4, <1>7 DEF PassInv, RoutineInv

(***************************************************************************)
(* The empty caches of the start.                                          *)
(***************************************************************************)
LEMMA ReportInvInit == Init => ReportInv
<1> SUFFICES ASSUME Init PROVE ReportInv
  OBVIOUS
<1>1. AswInv
  BY DEF Init, CachesInit, AswInv, ReportedHasEntry, VolumesToReport
<1>2. PassInv
  BY IdlePassType DEF Init, PassInv
<1>3. RoutineInv
  BY DEF Init, RoutineInv
<1> QED
  BY <1>1, <1>2, <1>3 DEF ReportInv

(***************************************************************************)
(* A restart leaves empty caches, no pass and no goroutine.                *)
(***************************************************************************)
LEMMA RestartInv ==
    ASSUME Restart
    PROVE  ReportInv'
<1>1. AswInv'
  BY DEF Restart, AswInv, ReportedHasEntry, VolumesToReport
<1>2. PassInv'
  BY IdlePassType DEF Restart, PassInv
<1>3. RoutineInv'
  BY DEF Restart, RoutineInv
<1> QED
  BY <1>1, <1>2, <1>3 DEF ReportInv

(***************************************************************************)
(* Every step of the controller and of its environment.                    *)
(***************************************************************************)
LEMMA ReportInvNext == ReportInv /\ [Next]_vars => ReportInv'
<1> SUFFICES ASSUME ReportInv, [Next]_vars PROVE ReportInv'
  OBVIOUS
<1>1. ASSUME NEW p \in Pods,
             \/ CreatePod(p) \/ RemovePod(p)
             \/ podAdd(p) \/ podUpdate(p) \/ podDelete(p) \/ podDeleteMissed(p)
             \/ \E v \in Volumes : findAndRemoveDeletedPods(p, v)
      PROVE  ReportInv'
  <2>1. UNCHANGED <<aswVars, rc, routines>>
    BY <1>1 DEF CreatePod, RemovePod, podAdd, podUpdate, podDelete,
                podDeleteMissed, findAndRemoveDeletedPods, ctlVars, opVars
  <2> QED
    BY <2>1, Stays
<1>2. ASSUME NEW n \in Nodes,
             RemoveNodeObject(n) \/ RegisterNode(n) \/ Kubelet(n)
      PROVE  ReportInv'
  <2>1. UNCHANGED <<aswVars, rc, routines>>
    BY <1>2 DEF RemoveNodeObject, RegisterNode, Kubelet, KubeletReport,
                KubeletVolume, KubeletVerify, KubeletMarkAttached,
                KubeletMount, KubeletMarkMounted, KubeletUnmount, KubeletForget,
                ctlVars, opVars
  <2> QED
    BY <2>1, Stays
<1>3. ASSUME NEW n \in Nodes,
             nodeAdd(n) \/ nodeUpdate(n) \/ nodeDelete(n) \/ VerifierStep(n)
      PROVE  ReportInv'
  BY <1>3, NodeHandlerInv, VerifierStepInv
<1>4. ASSUME NEW v \in Volumes, RoutineStep(v) \/ CallFails(v) \/ CallFailsLate(v)
      PROVE  ReportInv'
  BY <1>4, RoutineStepInv
<1>5. CASE ReconcilerStep
  <2>1. ASSUME NEW t \in rc.todo,
               SkipDesired(t) \/ ConsiderDetach(t) \/ AttachVolume(t)
        PROVE  ReportInv'
    BY <2>1, PassMovesInv, ConsiderDetachInv, AttachVolumeInv
  <2>2. ASSUME NEW u \in rc.updates,
               PatchUnknownNode(u) \/ PatchSucceeds(u) \/ PatchFails(u)
        PROVE  ReportInv'
    BY <2>2, PassMovesInv, FlagStepsInv
  <2>3. CASE \/ BeginPass \/ GetVolumesToReportAttached \/ UpdatesDone
             \/ DetachVolume \/ DetachesDone \/ AttachesDone \/ EndPass
             \/ SyncStates
    BY <2>3, BeginPassInv, FlagStepsInv, PassMovesInv, DetachVolumeInv
  <2> QED
    BY <1>5, <2>1, <2>2, <2>3 DEF ReconcilerStep
<1>6. CASE Tick
  BY <1>6, Stays DEF Tick, routineFrame
<1>7. ASSUME NEW v \in Volumes, NEW n \in Nodes, UnmountWaitElapses(v, n)
      PROVE  ReportInv'
  BY <1>7, UnmountWaitElapsesInv
<1>8. CASE Restart
  BY <1>8, RestartInv
<1>9. CASE UNCHANGED vars
  BY <1>9, Stays DEF vars, ctlVars, opVars
<1> QED
  BY <1>1, <1>2, <1>3, <1>4, <1>5, <1>6, <1>7, <1>8, <1>9 DEF Next, PodInformer, NodeInformer

(***************************************************************************)
(* For any nodes, volumes and pods, any number of faults,   *)
(* the list the node status updater works from (volumesToReportAsAttached) *)
(* names only volumes that have an entry in the actual state: attach,      *)
(* detach, a detach that fails late, the periodic verification, the node   *)
(* handlers and restarts may interleave in any order.                      *)
(***************************************************************************)
THEOREM ReportedVolumes == Spec => []ReportedHasEntry
<1>1. ReportInv => ReportedHasEntry
  BY DEF ReportInv, AswInv
<1> QED
  BY <1>1, ReportInvInit, ReportInvNext, PTL DEF Spec
-----------------------------------------------------------------------------
(***************************************************************************)
(* Type correctness.  What ReportInv does not cover: the API server, the   *)
(* informers, the storage, the kubelets and the desired state; the list of *)
(* pending operations; the verifiers.                                      *)
(***************************************************************************)
WorldType ==
    /\ livePods \subseteq Pods /\ gonePods \subseteq Pods
    /\ podStore \subseteq Pods
    /\ nodesManaged \subseteq Nodes
    /\ scheduledPods \subseteq Volumes \X Nodes \X Pods
    /\ nodeStatus \in [Nodes -> NodeObject \cup {NoEntry}]
    /\ nodeStore \in [Nodes -> NodeObject \cup {NoEntry}]
    /\ attachments \subseteq VolumeNodes
    /\ kubeletAttached \in [Nodes -> SUBSET Volumes]
    /\ kubeletMounted \in [Nodes -> SUBSET Volumes]
    /\ kubeletReported \in [Nodes -> SUBSET Volumes]
    /\ kubeletOps \in [Nodes -> [Volumes -> {"none", "verified", "mounted"}]]
    /\ detachedLate \subseteq VolumeNodes
    /\ faults \in 0 .. MaxFaults

worldVars ==
    <<apiVars, storeVars, attachments, kubeletVars, dswVars, ghostVars>>

ListType == operations \in Seq(Operation)

Verifier == [asked : SUBSET Volumes, missing : SUBSET Volumes]

VerifierType == verifiers \in [Nodes -> Verifier]

TypeInv == ReportInv /\ WorldType /\ ListType /\ VerifierType

(***************************************************************************)
(* A counted fault stays within the bound.                                 *)
(***************************************************************************)
LEMMA FaultType ==
    ASSUME WorldType, Fault
    PROVE  faults' \in 0 .. MaxFaults
BY MaxFaultsAssumption DEF WorldType, Fault

(***************************************************************************)
(* A kubelet wants and uses volumes.                                       *)
(***************************************************************************)
LEMMA WantedType ==
    ASSUME WorldType, NEW n \in Nodes
    PROVE  WantedVolumes(n) \subseteq Volumes /\ GetVolumesInUse(n) \subseteq Volumes
<1>1. \A p \in livePods : PodVolumes[p] \subseteq Volumes
  BY PodsAssumption DEF WorldType
<1>2. WantedVolumes(n) \subseteq Volumes
  BY <1>1 DEF WantedVolumes
<1> QED
  BY <1>2 DEF GetVolumesInUse, WorldType

(***************************************************************************)
(* What the informer or the API server holds of a node is a node object.   *)
(***************************************************************************)
LEMMA NodeObjectType ==
    ASSUME WorldType, NEW n \in Nodes, NEW S \in SUBSET Volumes,
           nodeStatus[n] # NoEntry
    PROVE  /\ nodeStatus[n] \in NodeObject
           /\ [nodeStatus[n] EXCEPT !.volumesInUse = S] \in NodeObject
           /\ [nodeStatus[n] EXCEPT !.volumesAttached = S] \in NodeObject
<1>1. nodeStatus[n] \in NodeObject
  BY DEF WorldType
<1> QED
  BY <1>1 DEF NodeObject

(***************************************************************************)
(* Pods come and go, and the informer and the populator tell the desired   *)
(* state of them.                                                          *)
(***************************************************************************)
LEMMA PodStepsWorld ==
    ASSUME WorldType, NEW p \in Pods,
           \/ CreatePod(p) \/ RemovePod(p)
           \/ podAdd(p) \/ podUpdate(p) \/ podDelete(p) \/ podDeleteMissed(p)
           \/ \E v \in Volumes : findAndRemoveDeletedPods(p, v)
    PROVE  WorldType'
<1>1. PodVolumes[p] \subseteq Volumes /\ PodNode[p] \in Nodes
  BY PodsAssumption
<1>2. /\ livePods' \subseteq Pods /\ gonePods' \subseteq Pods
      /\ podStore' \subseteq Pods
  BY DEF CreatePod, RemovePod, podAdd, podUpdate, podDelete, podDeleteMissed,
         findAndRemoveDeletedPods, apiVars, storeVars, WorldType
<1>3. nodesManaged' = nodesManaged
  BY DEF CreatePod, RemovePod, podAdd, podUpdate, podDelete, podDeleteMissed,
         findAndRemoveDeletedPods, AddPod, DeletePod, dswVars
<1>4. scheduledPods' \subseteq Volumes \X Nodes \X Pods
  <2>1. CASE podAdd(p) \/ podUpdate(p)
    <3>1. PodVolumes[p] \X {PodNode[p]} \X {p} \subseteq Volumes \X Nodes \X Pods
      BY <1>1
    <3>2. AddPod(p, PodVolumes[p], PodNode[p])
      BY <2>1 DEF podAdd, podUpdate
    <3> QED
      BY <3>1, <3>2 DEF AddPod, WorldType
  <2>2. CASE ~(podAdd(p) \/ podUpdate(p))
    <3>1. scheduledPods' \subseteq scheduledPods
      BY <2>2 DEF CreatePod, RemovePod, podDelete, podDeleteMissed,
                  findAndRemoveDeletedPods, DeletePod, dswVars
    <3> QED
      BY <3>1 DEF WorldType
  <2> QED
    BY <2>1, <2>2
<1>5. UNCHANGED <<nodeStatus, nodeStore, attachments, kubeletVars, detachedLate>>
  BY DEF CreatePod, RemovePod, podAdd, podUpdate, podDelete, podDeleteMissed,
         findAndRemoveDeletedPods, apiVars, storeVars, ghostVars
<1>6. faults' \in 0 .. MaxFaults
  <2>1. faults' = faults \/ Fault
    BY DEF CreatePod, RemovePod, podAdd, podUpdate, podDelete, podDeleteMissed,
           findAndRemoveDeletedPods, ghostVars
  <2> QED
    BY <2>1, FaultType DEF WorldType
<1> QED
  BY <1>2, <1>3, <1>4, <1>5, <1>6 DEF WorldType, kubeletVars

(***************************************************************************)
(* Node objects come and go, and the kubelets work.                        *)
(***************************************************************************)
LEMMA NodeStepsWorld ==
    ASSUME WorldType, NEW n \in Nodes,
           RemoveNodeObject(n) \/ RegisterNode(n) \/ Kubelet(n)
    PROVE  WorldType'
<1>1. UNCHANGED <<livePods, gonePods, storeVars, attachments, dswVars>>
  BY DEF RemoveNodeObject, RegisterNode, Kubelet, KubeletReport, KubeletVolume,
         KubeletVerify, KubeletMarkAttached, KubeletMount, KubeletMarkMounted,
         KubeletUnmount, KubeletForget, apiVars
<1>2. faults' \in 0 .. MaxFaults
  <2>1. faults' = faults \/ Fault
    BY DEF RemoveNodeObject, RegisterNode, Kubelet, KubeletReport, KubeletVolume,
           KubeletVerify, KubeletMarkAttached, KubeletMount, KubeletMarkMounted,
           KubeletUnmount, KubeletForget, ghostVars
  <2> QED
    BY <2>1, FaultType DEF WorldType
<1>3. WantedVolumes(n) \subseteq Volumes /\ GetVolumesInUse(n) \subseteq Volumes
  BY WantedType
<1>4. CASE RemoveNodeObject(n)
  <2>1. nodeStatus' \in [Nodes -> NodeObject \cup {NoEntry}]
    BY <1>4 DEF RemoveNodeObject, WorldType
  <2>2. UNCHANGED <<kubeletVars, detachedLate>>
    BY <1>4 DEF RemoveNodeObject
  <2> QED
    BY <1>1, <1>2, <2>1, <2>2 DEF WorldType, storeVars, dswVars, kubeletVars
<1>5. CASE RegisterNode(n)
  <2>1. [volumesAttached |-> {}, volumesInUse |-> {}] \in NodeObject
    BY DEF NodeObject
  <2>2. nodeStatus' \in [Nodes -> NodeObject \cup {NoEntry}]
    BY <1>5, <2>1 DEF RegisterNode, WorldType
  <2>3. UNCHANGED detachedLate
    BY <1>5 DEF RegisterNode, ghostVars
  <2>4. /\ kubeletAttached' \in [Nodes -> SUBSET Volumes]
        /\ kubeletMounted' \in [Nodes -> SUBSET Volumes]
        /\ kubeletReported' \in [Nodes -> SUBSET Volumes]
    BY <1>5 DEF RegisterNode, WorldType
  <2>5. NoOps \in [Volumes -> {"none", "verified", "mounted"}]
    BY DEF NoOps
  <2>6. kubeletOps' \in [Nodes -> [Volumes -> {"none", "verified", "mounted"}]]
    BY <1>5, <2>5 DEF RegisterNode, WorldType
  <2> QED
    BY <1>1, <1>2, <2>2, <2>3, <2>4, <2>6 DEF WorldType, storeVars, dswVars
<1>6. CASE KubeletReport(n)
  <2>1. nodeStatus[n] # NoEntry
    BY <1>6 DEF KubeletReport
  <2>2. [nodeStatus[n] EXCEPT !.volumesInUse = GetVolumesInUse(n)] \in NodeObject
    BY <1>3, <2>1, NodeObjectType
  <2>3. nodeStatus' = [nodeStatus EXCEPT ![n] =
          [nodeStatus[n] EXCEPT !.volumesInUse = GetVolumesInUse(n)]]
    BY <1>6 DEF KubeletReport
  <2>4. nodeStatus' \in [Nodes -> NodeObject \cup {NoEntry}]
    BY <2>2, <2>3 DEF WorldType
  <2>5. /\ kubeletReported' \in [Nodes -> SUBSET Volumes]
        /\ UNCHANGED <<kubeletAttached, kubeletMounted, kubeletOps, detachedLate>>
    BY <1>3, <1>6 DEF KubeletReport, WorldType, ghostVars
  <2> QED
    BY <1>1, <1>2, <2>4, <2>5 DEF WorldType, storeVars, dswVars
<1>7. ASSUME NEW v \in Volumes, KubeletVolume(n, v)
      PROVE  WorldType'
  <2> USE DEF KubeletVolume, KubeletVerify, KubeletMarkAttached, KubeletMount,
              KubeletMarkMounted, KubeletUnmount, KubeletForget
  <2>1. UNCHANGED <<nodeStatus, kubeletReported, detachedLate>>
    BY <1>7 DEF apiVars, ghostVars
  <2>2. kubeletAttached' \in [Nodes -> SUBSET Volumes]
    BY <1>7 DEF WorldType
  <2>3. kubeletMounted' \in [Nodes -> SUBSET Volumes]
    BY <1>7 DEF WorldType
  <2>4. kubeletOps' \in [Nodes -> [Volumes -> {"none", "verified", "mounted"}]]
    <3>1. kubeletOps[n] \in [Volumes -> {"none", "verified", "mounted"}]
      BY DEF WorldType
    <3>2. \/ UNCHANGED kubeletOps
          \/ \E s \in {"none", "verified", "mounted"} :
               kubeletOps' = [kubeletOps EXCEPT ![n] = [kubeletOps[n] EXCEPT ![v] = s]]
      BY <1>7
    <3> QED
      BY <3>1, <3>2 DEF WorldType
  <2> QED
    BY <1>1, <1>2, <2>1, <2>2, <2>3, <2>4 DEF WorldType, storeVars, dswVars
<1> QED
  BY <1>4, <1>5, <1>6, <1>7 DEF Kubelet

(***************************************************************************)
(* The handlers of nodes.                                                  *)
(***************************************************************************)
LEMMA NodeHandlerWorld ==
    ASSUME WorldType, NEW n \in Nodes, nodeAdd(n) \/ nodeUpdate(n) \/ nodeDelete(n)
    PROVE  WorldType'
<1>1. UNCHANGED <<apiVars, podStore, attachments, kubeletVars, ghostVars>>
  BY DEF nodeAdd, nodeUpdate, nodeDelete
<1>2. nodeStore' \in [Nodes -> NodeObject \cup {NoEntry}]
  BY DEF nodeAdd, nodeUpdate, nodeDelete, WorldType
<1>3. nodesManaged' \subseteq Nodes /\ scheduledPods' = scheduledPods
  BY DEF nodeAdd, nodeUpdate, nodeDelete, AddNode, DeleteNode, WorldType
<1> QED
  BY <1>1, <1>2, <1>3 DEF WorldType, apiVars, kubeletVars, ghostVars

(***************************************************************************)
(* The goroutines attach and detach volumes of nodes.                      *)
(***************************************************************************)
LEMMA RoutineStepWorld ==
    ASSUME TypeInv, NEW v \in Volumes, RoutineStep(v) \/ CallFails(v) \/ CallFailsLate(v)
    PROVE  WorldType'
<1>1. routines[v] # NoEntry /\ routines[v] \in Tasks
  BY DEF RoutineStep, Attach, MarkAttached, verifyVolumeIsSafeToDetach, Detach,
         MarkDetached, ReportAgain, Complete, CallFails, CallFailsLate, At, RoutineInv,
         TypeInv, ReportInv
<1>2. <<v, routines[v].node>> \in VolumeNodes
  BY <1>1 DEF Tasks, VolumeNodes
<1>3. UNCHANGED <<livePods, gonePods, nodeStatus, storeVars, kubeletVars, dswVars>>
  BY DEF RoutineStep, Attach, MarkAttached, verifyVolumeIsSafeToDetach, Detach,
         MarkDetached, ReportAgain, Complete, CallFails, CallFailsLate, routineFrame
<1>4. attachments' \subseteq VolumeNodes /\ detachedLate' \subseteq VolumeNodes
  <2>1. CASE Attach(v)
    BY <1>2, <2>1 DEF Attach, TypeInv, WorldType, ghostVars
  <2>2. CASE Detach(v)
    BY <1>2, <2>2 DEF Detach, TypeInv, WorldType, ghostVars
  <2>3. CASE CallFailsLate(v)
    BY <1>2, <2>3 DEF CallFailsLate, TypeInv, WorldType
  <2>4. CASE MarkDetached(v)
    BY <2>4 DEF MarkDetached, TypeInv, WorldType
  <2>5. CASE ~(Attach(v) \/ Detach(v) \/ CallFailsLate(v) \/ MarkDetached(v))
    BY <2>5 DEF RoutineStep, MarkAttached, verifyVolumeIsSafeToDetach,
                ReportAgain, Complete, CallFails, TypeInv, WorldType, ghostVars
  <2> QED
    BY <2>1, <2>2, <2>3, <2>4, <2>5
<1>5. faults' \in 0 .. MaxFaults
  <2>1. faults' = faults \/ Fault
    BY DEF RoutineStep, Attach, MarkAttached, verifyVolumeIsSafeToDetach, Detach,
           MarkDetached, ReportAgain, Complete, CallFails, CallFailsLate, ghostVars
  <2> QED
    BY <2>1, FaultType DEF TypeInv, WorldType
<1> QED
  BY <1>3, <1>4, <1>5 DEF TypeInv, WorldType, storeVars, kubeletVars, dswVars

(***************************************************************************)
(* What a pass of the reconciler leaves alone, and who changes the node    *)
(* objects, the verifiers and the pending operations.                      *)
(***************************************************************************)
LEMMA ReconcilerFrame ==
    ASSUME ReconcilerStep
    PROVE  /\ UNCHANGED <<passFrame, detachedLate>>
           /\ faults' = faults \/ Fault
           /\ nodeStatus' = nodeStatus \/ \E u \in rc.updates : PatchSucceeds(u)
           /\ verifiers' = verifiers \/ SyncStates
           /\ \/ operations' = operations \/ DetachVolume
              \/ \E t \in rc.todo : AttachVolume(t)
<1> DEFINE Frame ==
             /\ UNCHANGED <<passFrame, detachedLate>>
             /\ faults' = faults \/ Fault
             /\ nodeStatus' = nodeStatus \/ \E u \in rc.updates : PatchSucceeds(u)
             /\ verifiers' = verifiers \/ SyncStates
             /\ \/ operations' = operations \/ DetachVolume
                \/ \E t \in rc.todo : AttachVolume(t)
<1>1. ASSUME BeginPass \/ GetVolumesToReportAttached \/ UpdatesDone \/ DetachVolume
      PROVE  Frame
  BY <1>1 DEF BeginPass, GetVolumesToReportAttached, UpdatesDone, DetachVolume,
              opVars, ghostVars
<1>2. ASSUME DetachesDone \/ AttachesDone \/ EndPass \/ SyncStates
      PROVE  Frame
  BY <1>2 DEF DetachesDone, AttachesDone, EndPass, SyncStates, opVars, ghostVars
<1>3. ASSUME NEW t \in rc.todo,
             SkipDesired(t) \/ ConsiderDetach(t) \/ AttachVolume(t)
      PROVE  Frame
  <2>1. CASE SkipDesired(t)
    BY <2>1 DEF SkipDesired, opVars, ghostVars
  <2>2. CASE ConsiderDetach(t)
    BY <2>2 DEF ConsiderDetach, opVars, ghostVars
  <2>3. CASE AttachVolume(t)
    <3>1. UNCHANGED <<passFrame, nodeStatus, verifiers, faults, detachedLate>>
      BY <2>3 DEF AttachVolume, ghostVars
    <3> QED
      BY <2>3, <3>1
  <2> QED
    BY <1>3, <2>1, <2>2, <2>3
<1>4. ASSUME NEW u \in rc.updates,
             PatchUnknownNode(u) \/ PatchSucceeds(u) \/ PatchFails(u)
      PROVE  Frame
  <2>1. CASE PatchUnknownNode(u)
    BY <2>1 DEF PatchUnknownNode, opVars, ghostVars
  <2>2. CASE PatchSucceeds(u)
    <3>1. UNCHANGED <<passFrame, operations, verifiers, faults, detachedLate>>
      BY <2>2 DEF PatchSucceeds, opVars, ghostVars
    <3> QED
      BY <2>2, <3>1
  <2>3. CASE PatchFails(u)
    <3>1. UNCHANGED <<passFrame, nodeStatus, operations, verifiers, detachedLate>>
      BY <2>3 DEF PatchFails, opVars
    <3>2. faults' = faults \/ Fault
      BY <2>3 DEF PatchFails
    <3> QED
      BY <3>1, <3>2
  <2> QED
    BY <1>4, <2>1, <2>2, <2>3
<1> HIDE DEF Frame
<1>5. Frame
  BY <1>1, <1>2, <1>3, <1>4 DEF ReconcilerStep
<1> QED
  BY <1>5 DEF Frame

(***************************************************************************)
(* Of the world around it, a pass of the reconciler changes the node       *)
(* objects.                                                                *)
(***************************************************************************)
LEMMA ReconcilerStepWorld ==
    ASSUME TypeInv, ReconcilerStep
    PROVE  WorldType'
<1>1. UNCHANGED <<passFrame, detachedLate>>
  BY ReconcilerFrame
<1>2. faults' \in 0 .. MaxFaults
  BY ReconcilerFrame, FaultType DEF TypeInv, WorldType
<1>3. nodeStatus' \in [Nodes -> NodeObject \cup {NoEntry}]
  <2>1. ASSUME NEW u \in rc.updates, PatchSucceeds(u)
        PROVE  nodeStatus' \in [Nodes -> NodeObject \cup {NoEntry}]
    <3>1. u[1] \in Nodes /\ u[2] \in SUBSET Volumes
      BY DEF TypeInv, ReportInv, PassInv, Pass
    <3>2. nodeStatus[u[1]] # NoEntry
      BY <2>1 DEF PatchSucceeds
    <3>3. [nodeStatus[u[1]] EXCEPT !.volumesAttached = u[2]] \in NodeObject
      BY <3>1, <3>2, NodeObjectType DEF TypeInv
    <3>4. \/ nodeStatus' = nodeStatus
          \/ nodeStatus' = [nodeStatus EXCEPT ![u[1]] =
               [nodeStatus[u[1]] EXCEPT !.volumesAttached = u[2]]]
      BY <2>1 DEF PatchSucceeds
    <3> QED
      BY <3>1, <3>3, <3>4 DEF TypeInv, WorldType
  <2>2. CASE nodeStatus' = nodeStatus
    BY <2>2 DEF TypeInv, WorldType
  <2>3. nodeStatus' = nodeStatus \/ \E u \in rc.updates : PatchSucceeds(u)
    BY ReconcilerFrame
  <2> QED
    BY <2>1, <2>2, <2>3
<1> QED
  BY <1>1, <1>2, <1>3
     DEF TypeInv, WorldType, passFrame, storeVars, kubeletVars, dswVars

(***************************************************************************)
(* Run, operationComplete and time leave a list of operations.             *)
(***************************************************************************)
LEMMA StartList ==
    ASSUME ListType, NEW v \in Volumes, NEW n, NEW step, Start(v, n, step)
    PROVE  ListType'
<1>1. v \in VolumeNames /\ NoPod \in PodNames
  BY DEF VolumeNames, PodNames
<1>2. AfterRun(operations, v, NoPod) \in Seq(Operation)
  <2>1. CASE isOperationExists(operations, v, NoPod)
    BY <1>1, <2>1, RunTakesOver DEF ListType
  <2>2. CASE ~isOperationExists(operations, v, NoPod)
    BY <1>1, <2>2, RunAppends DEF ListType
  <2> QED
    BY <2>1, <2>2
<1> QED
  BY <1>2 DEF Start, ListType, opVars

LEMMA CompleteList ==
    ASSUME ListType, NEW v, NEW failed
    PROVE  operationComplete(operations, v, NoPod, failed) \in Seq(Operation)
<1>1. CASE ~failed \/ ~ExponentialBackOffOnError
  <2>1. deleteOperation(operations, v, NoPod) \in Seq(Operation)
    BY DeleteEntry DEF ListType
  <2> QED
    BY <1>1, <2>1 DEF operationComplete
<1>2. CASE ~(~failed \/ ~ExponentialBackOffOnError)
  BY <1>2, CompleteKeeps DEF ListType
<1> QED
  BY <1>1, <1>2

(***************************************************************************)
(* The verifiers are asked about volumes of their nodes.                   *)
(***************************************************************************)
LEMMA VerifierSteps ==
    ASSUME VerifierType,
           SyncStates \/ \E n \in Nodes : VerifierStep(n)
    PROVE  VerifierType'
<1>1. CASE SyncStates
  <2>1. \A n \in Nodes :
          [asked |-> {v \in Volumes : VolumeNodeExists(v, n)}, missing |-> {}]
            \in Verifier
    BY DEF Verifier
  <2> QED
    BY <1>1, <2>1 DEF SyncStates, VerifierType
<1>2. ASSUME NEW n \in Nodes, VerifierStep(n)
      PROVE  VerifierType'
  <2>1. verifiers[n] \in Verifier
    BY DEF VerifierType
  <2>2. CASE VolumesAreAttached(n)
    <3> DEFINE new == [asked |-> {}, missing |->
                        {v \in verifiers[n].asked : <<v, n>> \notin attachments}]
    <3>1. new \in Verifier
      BY <2>1 DEF Verifier
    <3>2. verifiers' = [verifiers EXCEPT ![n] = new]
      BY <2>2 DEF VolumesAreAttached
    <3> HIDE DEF new
    <3> QED
      BY <3>1, <3>2 DEF VerifierType
  <2>3. ASSUME NEW v \in Volumes, MarkMissing(n, v)
        PROVE  VerifierType'
    <3> DEFINE new == [verifiers[n] EXCEPT !.missing = verifiers[n].missing \ {v}]
    <3>1. new \in Verifier
      BY <2>1 DEF Verifier
    <3>2. verifiers' = [verifiers EXCEPT ![n] = new]
      BY <2>3 DEF MarkMissing
    <3> HIDE DEF new
    <3> QED
      BY <3>1, <3>2 DEF VerifierType
  <2> QED
    BY <1>2, <2>2, <2>3 DEF VerifierStep
<1> QED
  BY <1>1, <1>2

(***************************************************************************)
(* The start, and a restart.                                               *)
(***************************************************************************)
LEMMA TypeInvInit == Init => TypeInv
<1> SUFFICES ASSUME Init PROVE TypeInv
  OBVIOUS
<1>1. [volumesAttached |-> {}, volumesInUse |-> {}] \in NodeObject
  BY DEF NodeObject
<1>2. WorldType
  BY <1>1, MaxFaultsAssumption DEF Init, CachesInit, WorldType, NoOps
<1>3. ListType
  BY DEF Init, ListType
<1>4. NoVerifier \in Verifier
  BY DEF NoVerifier, Verifier
<1>5. VerifierType
  BY <1>4 DEF Init, VerifierType
<1> QED
  BY <1>2, <1>3, <1>5, ReportInvInit DEF TypeInv

LEMMA RestartType ==
    ASSUME TypeInv, Restart
    PROVE  WorldType' /\ ListType' /\ VerifierType'
<1>1. faults' \in 0 .. MaxFaults
  BY FaultType DEF Restart, TypeInv
<1>2. WorldType'
  BY <1>1 DEF Restart, TypeInv, WorldType, apiVars, kubeletVars
<1>3. ListType'
  BY DEF Restart, ListType
<1>4. NoVerifier \in Verifier
  BY DEF NoVerifier, Verifier
<1>5. VerifierType'
  BY <1>4 DEF Restart, VerifierType
<1> QED
  BY <1>2, <1>3, <1>5

(***************************************************************************)
(* Every step.                                                             *)
(***************************************************************************)
LEMMA TypeInvNext == TypeInv /\ [Next]_vars => TypeInv'
<1> SUFFICES ASSUME TypeInv, [Next]_vars PROVE TypeInv'
  OBVIOUS
<1>1. ReportInv'
  BY ReportInvNext DEF TypeInv
<1>2. ASSUME NEW p \in Pods,
             \/ CreatePod(p) \/ RemovePod(p)
             \/ podAdd(p) \/ podUpdate(p) \/ podDelete(p) \/ podDeleteMissed(p)
             \/ \E v \in Volumes : findAndRemoveDeletedPods(p, v)
      PROVE  TypeInv'
  <2>1. UNCHANGED <<operations, verifiers>>
    BY <1>2 DEF CreatePod, RemovePod, podAdd, podUpdate, podDelete,
                podDeleteMissed, findAndRemoveDeletedPods, ctlVars, opVars
  <2>2. WorldType'
    BY <1>2, PodStepsWorld DEF TypeInv
  <2> QED
    BY <1>1, <2>1, <2>2 DEF TypeInv, ListType, VerifierType
<1>3. ASSUME NEW n \in Nodes,
             \/ RemoveNodeObject(n) \/ RegisterNode(n) \/ Kubelet(n)
             \/ nodeAdd(n) \/ nodeUpdate(n) \/ nodeDelete(n)
      PROVE  TypeInv'
  <2>1. UNCHANGED <<operations, verifiers>>
    BY <1>3 DEF RemoveNodeObject, RegisterNode, Kubelet, KubeletReport,
                KubeletVolume, KubeletVerify, KubeletMarkAttached,
                KubeletMount, KubeletMarkMounted, KubeletUnmount, KubeletForget,
                nodeAdd, nodeUpdate, nodeDelete, ctlVars, opVars
  <2>2. WorldType'
    BY <1>3, NodeStepsWorld, NodeHandlerWorld DEF TypeInv
  <2> QED
    BY <1>1, <2>1, <2>2 DEF TypeInv, ListType, VerifierType
<1>4. ASSUME NEW n \in Nodes, VerifierStep(n)
      PROVE  TypeInv'
  <2>1. UNCHANGED <<worldVars, operations>>
    BY <1>4 DEF VerifierStep, VolumesAreAttached, MarkMissing, worldVars, opVars
  <2>2. WorldType' /\ ListType'
    BY <2>1 DEF TypeInv, WorldType, ListType, worldVars, apiVars, storeVars,
                kubeletVars, dswVars, ghostVars
  <2> QED
    BY <1>1, <1>4, <2>2, VerifierSteps DEF TypeInv
<1>5. ASSUME NEW v \in Volumes, RoutineStep(v) \/ CallFails(v) \/ CallFailsLate(v)
      PROVE  TypeInv'
  <2>1. verifiers' = verifiers
    BY <1>5 DEF RoutineStep, Attach, MarkAttached, verifyVolumeIsSafeToDetach,
                Detach, MarkDetached, ReportAgain, Complete, CallFails, CallFailsLate,
                routineFrame
  <2>2. ListType'
    <3>1. CASE Complete(v)
      BY <3>1, CompleteList DEF Complete, TypeInv, ListType
    <3>2. CASE ~Complete(v)
      BY <1>5, <3>2 DEF RoutineStep, Attach, MarkAttached,
                        verifyVolumeIsSafeToDetach, Detach, MarkDetached,
                        ReportAgain, CallFails, CallFailsLate, TypeInv, ListType
    <3> QED
      BY <3>1, <3>2
  <2> QED
    BY <1>1, <1>5, <2>1, <2>2, RoutineStepWorld DEF TypeInv, VerifierType
<1>6. CASE ReconcilerStep
  <2>1. VerifierType'
    <3>1. CASE SyncStates
      BY <3>1, VerifierSteps DEF TypeInv
    <3>2. CASE ~SyncStates
      <4>1. verifiers' = verifiers
        BY <1>6, <3>2, ReconcilerFrame
      <4> QED
        BY <4>1 DEF TypeInv, VerifierType
    <3> QED
      BY <3>1, <3>2
  <2>2. ListType'
    <3>1. CASE DetachVolume
      <4>1. rc.current \in VolumeNodes
        BY <3>1 DEF DetachVolume, TypeInv, ReportInv, PassInv, Pass
      <4>2. rc.current[1] \in Volumes
        BY <4>1 DEF VolumeNodes
      <4> QED
        BY <3>1, <4>2, StartList DEF DetachVolume, TypeInv
    <3>2. ASSUME NEW t \in rc.todo, AttachVolume(t)
          PROVE  ListType'
      <4>1. t[1][1] \in Volumes
        BY TodoType DEF TypeInv, ReportInv
      <4>2. operations' = operations \/ Start(t[1][1], t[1][2], "attach")
        BY <3>2 DEF AttachVolume, opVars
      <4> QED
        BY <4>1, <4>2, StartList DEF TypeInv, ListType
    <3>3. \/ operations' = operations \/ DetachVolume
          \/ \E t \in rc.todo : AttachVolume(t)
      BY <1>6, ReconcilerFrame
    <3> QED
      BY <3>1, <3>2, <3>3 DEF TypeInv, ListType
  <2> QED
    BY <1>1, <1>6, <2>1, <2>2, ReconcilerStepWorld DEF TypeInv
<1>7. CASE \/ Tick
           \/ \E v \in Volumes, n \in Nodes : UnmountWaitElapses(v, n)
           \/ UNCHANGED vars
  <2>1. UNCHANGED <<worldVars, verifiers>>
    BY <1>7 DEF Tick, UnmountWaitElapses, routineFrame, worldVars, apiVars, vars,
                ctlVars
  <2>2. operations' = operations \/ operations' = Later(operations)
    BY <1>7 DEF Tick, UnmountWaitElapses, vars, ctlVars, opVars
  <2>3. ListType'
    BY <2>2, LaterEntries DEF TypeInv, ListType
  <2> QED
    BY <1>1, <2>1, <2>3
       DEF TypeInv, WorldType, VerifierType, worldVars, apiVars, storeVars,
           kubeletVars, dswVars, ghostVars
<1>8. CASE Restart
  BY <1>1, <1>8, RestartType DEF TypeInv
<1> QED
  BY <1>2, <1>3, <1>4, <1>5, <1>6, <1>7, <1>8
     DEF Next, PodInformer, NodeInformer

(***************************************************************************)
(* For any nodes, volumes and pods, any number of faults,   *)
(* every variable keeps its type: no operation is started for anything but *)
(* a volume of a node, the list of pending operations stays a list of      *)
(* entries whichever of them is deleted, and no node object, entry or task *)
(* that is gone is used as if it were there.                               *)
(***************************************************************************)
THEOREM ControllerTypes == Spec => []TypeOK
<1>1. TypeInv => TypeOK
  BY DEF TypeInv, ReportInv, AswInv, PassInv, RoutineInv, WorldType, ListType,
         VerifierType, Verifier, TypeOK, CachesTypeOK
<1> QED
  BY <1>1, TypeInvInit, TypeInvNext, PTL DEF Spec
-----------------------------------------------------------------------------
(***************************************************************************)
(* EntryIsAttached.  The disjuncts of Next in groups, and what each group  *)
(* leaves alone.                                                           *)
(***************************************************************************)
PodStep(p) ==
    \/ CreatePod(p) \/ RemovePod(p) \/ PodInformer(p) \/ podDeleteMissed(p)
    \/ \E v \in Volumes : findAndRemoveDeletedPods(p, v)

NodeStep(n) == RemoveNodeObject(n) \/ RegisterNode(n) \/ Kubelet(n)

GoroutineStep(v) == RoutineStep(v) \/ CallFails(v) \/ CallFailsLate(v)

\* A step of the specification belongs to one of these groups.
LEMMA StepCases ==
    ASSUME [Next]_vars
    PROVE  \/ \E p \in Pods : PodStep(p)
           \/ \E n \in Nodes : NodeStep(n) \/ NodeInformer(n) \/ VerifierStep(n)
           \/ \E v \in Volumes : GoroutineStep(v)
           \/ ReconcilerStep
           \/ Tick
           \/ \E v \in Volumes, n \in Nodes : UnmountWaitElapses(v, n)
           \/ Restart
           \/ UNCHANGED vars
BY DEF Next, PodStep, NodeStep, GoroutineStep

\* Pods, node objects, kubelets and the handlers of pods: neither operations
\* nor the actual state of the world.
LEMMA WorldFrame ==
    ASSUME \/ \E p \in Pods : PodStep(p)
           \/ \E n \in Nodes : NodeStep(n)
           \/ UNCHANGED vars
    PROVE  UNCHANGED <<attachments, detachedLate, operations, routines,
                       attachedVolumes>>
<1>1. ASSUME NEW p \in Pods, PodStep(p)
      PROVE  UNCHANGED <<attachments, detachedLate, operations, routines,
                         attachedVolumes>>
  BY <1>1 DEF PodStep, PodInformer, CreatePod, RemovePod, podAdd, podUpdate,
              podDelete, podDeleteMissed, findAndRemoveDeletedPods, ctlVars,
              opVars, aswVars, ghostVars
<1>2. ASSUME NEW n \in Nodes, NodeStep(n)
      PROVE  UNCHANGED <<attachments, detachedLate, operations, routines,
                         attachedVolumes>>
  BY <1>2 DEF NodeStep, RemoveNodeObject, RegisterNode, Kubelet, KubeletReport,
              KubeletVolume, KubeletVerify, KubeletMarkAttached, KubeletMount,
              KubeletMarkMounted, KubeletUnmount, KubeletForget, ctlVars, opVars,
              aswVars, ghostVars
<1>3. CASE UNCHANGED vars
  BY <1>3 DEF vars, ctlVars, opVars, aswVars, ghostVars
<1> QED
  BY <1>1, <1>2, <1>3

\* Handlers of nodes, verifiers and clocks: neither goroutines nor storage.
LEMMA QuietFrame ==
    ASSUME \/ \E n \in Nodes : NodeInformer(n) \/ VerifierStep(n)
           \/ Tick
           \/ \E v \in Volumes, n \in Nodes : UnmountWaitElapses(v, n)
    PROVE  /\ UNCHANGED <<attachments, detachedLate, routines>>
           /\ operations' = operations \/ Tick
BY DEF NodeInformer, nodeAdd, nodeUpdate, nodeDelete, VerifierStep,
       VolumesAreAttached, MarkMissing, Tick, UnmountWaitElapses, ctlVars, opVars,
       ghostVars

(***************************************************************************)
(* Entries of attachedVolumes come from the goroutines that attach.        *)
(***************************************************************************)
LEMMA DetachedEntries ==
    ASSUME AswInv, NEW v \in Volumes, NEW n \in Nodes,
           MarkVolumeAsDetached(v, n)
    PROVE  \A x \in VolumeNodes :
             attachedVolumes[x] = NoEntry => attachedVolumes'[x] = NoEntry
BY DEF MarkVolumeAsDetached, AswInv, aswVars

\* A new entry is that of a goroutine that has just attached the volume.
LEMMA EntrySteps ==
    ASSUME TypeInv, [Next]_vars, NEW v \in Volumes, NEW n \in Nodes,
           attachedVolumes[<<v, n>>] = NoEntry,
           attachedVolumes'[<<v, n>>] # NoEntry
    PROVE  MarkAttached(v) /\ routines[v].node = n
<1> DEFINE vn == <<v, n>>
<1>0. vn \in VolumeNodes
  BY DEF VolumeNodes
<1>a. AswInv
  BY DEF TypeInv, ReportInv
<1> HIDE DEF vn
<1>x. attachedVolumes[vn] = NoEntry /\ attachedVolumes'[vn] # NoEntry
  BY DEF vn
<1>1. ASSUME NEW p \in Pods, PodStep(p)
      PROVE  FALSE
  BY <1>1, <1>x, WorldFrame
<1>2. ASSUME NEW m \in Nodes, NodeStep(m)
      PROVE  FALSE
  BY <1>2, <1>x, WorldFrame
<1>3. ASSUME NEW m \in Nodes, NodeInformer(m)
      PROVE  FALSE
  BY <1>3, <1>x, <1>0 DEF NodeInformer, nodeAdd, nodeUpdate, nodeDelete,
                     processVolumesInUse
<1>4. ASSUME NEW m \in Nodes, VerifierStep(m)
      PROVE  FALSE
  <2>1. CASE VolumesAreAttached(m)
    BY <2>1, <1>x DEF VolumesAreAttached, aswVars
  <2>2. ASSUME NEW w \in Volumes, MarkMissing(m, w)
        PROVE  FALSE
    BY <1>0, <1>x, <1>a, <2>2, DetachedEntries DEF MarkMissing
  <2> QED
    BY <1>4, <2>1, <2>2 DEF VerifierStep
<1>5. ASSUME NEW w \in Volumes, GoroutineStep(w)
      PROVE  MarkAttached(v) /\ routines[v].node = n
  <2>1. CASE MarkAttached(w)
    <3>1. routines[w].node \in Nodes
      BY <2>1 DEF MarkAttached, At, TypeInv, ReportInv, RoutineInv, Tasks
    <3>2. \A x \in VolumeNodes : x # <<w, routines[w].node>> =>
            attachedVolumes'[x] = attachedVolumes[x]
      BY <1>a, <2>1 DEF MarkAttached, MarkVolumeAsAttached, AswInv
    <3>3. <<v, n>> = <<w, routines[w].node>>
      BY <1>0, <1>x, <3>2 DEF vn
    <3> QED
      BY <2>1, <3>3
  <2>2. CASE MarkDetached(w)
    <3>1. routines[w].node \in Nodes
      BY <2>2 DEF MarkDetached, At, TypeInv, ReportInv, RoutineInv, Tasks
    <3> QED
      BY <1>0, <1>x, <1>a, <2>2, <3>1, DetachedEntries DEF MarkDetached
  <2>3. CASE ~MarkAttached(w) /\ ~MarkDetached(w)
    <3>1. attachedVolumes' = attachedVolumes
      BY <1>5, <2>3 DEF GoroutineStep, RoutineStep, Attach, verifyVolumeIsSafeToDetach, Detach,
                        ReportAgain, AddVolumeToReportAsAttached, Complete,
                        CallFails, CallFailsLate, aswVars
    <3> QED
      BY <3>1, <1>x
  <2> QED
    BY <2>1, <2>2, <2>3
<1>6. CASE ReconcilerStep
  <2>1. ASSUME NEW t \in rc.todo, ConsiderDetach(t)
        PROVE  FALSE
    BY <1>0, <1>x, <1>a, <2>1 DEF ConsiderDetach, AswInv
  <2>2. ASSUME NEW t \in rc.todo, AttachVolume(t)
        PROVE  FALSE
    <3>1. \/ attachedVolumes' = attachedVolumes
          \/ /\ attachedVolumes[<<t[1][1], t[1][2]>>] # NoEntry
             /\ attachedVolumes' = [attachedVolumes EXCEPT ![<<t[1][1], t[1][2]>>] =
                  [attachedVolumes[<<t[1][1], t[1][2]>>] EXCEPT !.detachRequestedTime = "zero"]]
      BY <2>2 DEF AttachVolume, ResetDetachRequestTime, VolumeNodeExists
    <3> QED
      BY <1>0, <1>x, <1>a, <3>1 DEF AswInv
  <2>3. CASE attachedVolumes' = attachedVolumes
    BY <2>3, <1>x
  <2>4. \/ attachedVolumes' = attachedVolumes
        \/ \E t \in rc.todo : ConsiderDetach(t) \/ AttachVolume(t)
    BY <1>6 DEF ReconcilerStep, BeginPass, GetVolumesToReportAttached,
                UpdatesDone, DetachVolume, DetachesDone, AttachesDone, EndPass,
                SyncStates, SkipDesired, PatchUnknownNode, PatchSucceeds,
                PatchFails, aswVars
  <2> QED
    BY <2>1, <2>2, <2>3, <2>4
<1>7. CASE Tick
  BY <1>7, <1>x DEF Tick, aswVars
<1>8. ASSUME NEW w \in Volumes, NEW m \in Nodes, UnmountWaitElapses(w, m)
      PROVE  FALSE
  BY <1>0, <1>x, <1>a, <1>8 DEF UnmountWaitElapses, VolumeNodeExists, AswInv
<1>9. CASE Restart
  BY <1>0, <1>9, <1>x DEF Restart
<1>10. CASE UNCHANGED vars
  BY <1>10, <1>x, WorldFrame
<1> QED
  BY <1>1, <1>2, <1>3, <1>4, <1>5, <1>6, <1>7, <1>8, <1>9, <1>10, StepCases

-----------------------------------------------------------------------------
(***************************************************************************)
(* The goroutines: what changes the one of a volume.                       *)
(***************************************************************************)
RoutineSteps ==
    {"attach", "markAttached", "verifySafe", "forceDetach", "detach",
     "markDetached", "reportAgain", "succeeded", "failed"}

\* A goroutine moves on, for the same node.
LEMMA GotoMoves ==
    ASSUME TypeInv, NEW v \in Volumes, routines[v] # NoEntry,
           NEW s \in RoutineSteps, Goto(v, s)
    PROVE  /\ routines'[v] # NoEntry
           /\ routines'[v].node = routines[v].node
           /\ routines'[v].step = s
           /\ \A w \in Volumes : w # v => routines'[w] = routines[w]
<1>1. routines \in [Volumes -> Tasks \cup {NoEntry}]
  BY DEF TypeInv, ReportInv, RoutineInv
<1>2. routines[v] \in Tasks
  BY <1>1
<1> DEFINE t == [routines[v] EXCEPT !.step = s]
<1>3. t \in Tasks /\ t.node = routines[v].node /\ t.step = s
  BY <1>2 DEF Tasks, RoutineSteps
<1>4. t # NoEntry
  BY <1>3, NoRecordAssumption
<1>5. routines' = [routines EXCEPT ![v] = t]
  BY DEF Goto
<1> HIDE DEF t
<1> QED
  BY <1>1, <1>3, <1>4, <1>5

\* The step that a goroutine which does not end goes to.
NextStep(v, s) ==
    \/ Attach(v) /\ s = "markAttached"
    \/ MarkAttached(v) /\ s = "succeeded"
    \/ /\ verifyVolumeIsSafeToDetach(v)
       /\ s \in {"forceDetach", "reportAgain", "detach"}
    \/ Detach(v) /\ s = "markDetached"
    \/ MarkDetached(v) /\ s = "succeeded"
    \/ ReportAgain(v) /\ s = "failed"
    \/ CallFails(v) /\ s \in {"failed", "reportAgain"}
    \/ CallFailsLate(v) /\ s \in {"failed", "reportAgain"}

LEMMA RoutineMoves ==
    ASSUME TypeInv, NEW v \in Volumes, GoroutineStep(v)
    PROVE  /\ routines[v] # NoEntry
           /\ \A w \in Volumes : w # v => routines'[w] = routines[w]
           /\ \/ Complete(v) /\ routines'[v] = NoEntry
              \/ /\ operations' = operations
                 /\ routines'[v] # NoEntry
                 /\ routines'[v].node = routines[v].node
                 /\ NextStep(v, routines'[v].step)
<1>1. routines[v] # NoEntry
  BY DEF GoroutineStep, RoutineStep, Attach, MarkAttached,
         verifyVolumeIsSafeToDetach, Detach, MarkDetached, ReportAgain, Complete,
         CallFails, CallFailsLate, At
<1>2. CASE Complete(v)
  BY <1>1, <1>2 DEF Complete, TypeInv, ReportInv, RoutineInv
<1>3. CASE ~Complete(v)
  <2>1. PICK s \in RoutineSteps :
          Goto(v, s) /\ operations' = operations /\ NextStep(v, s)
    <3>1. CASE Attach(v)
      BY <3>1 DEF Attach, NextStep, RoutineSteps
    <3>2. CASE MarkAttached(v)
      BY <3>2 DEF MarkAttached, NextStep, RoutineSteps
    <3>3. CASE verifyVolumeIsSafeToDetach(v)
      BY <3>3 DEF verifyVolumeIsSafeToDetach, NextStep, RoutineSteps
    <3>4. CASE Detach(v)
      BY <3>4 DEF Detach, NextStep, RoutineSteps
    <3>5. CASE MarkDetached(v)
      BY <3>5 DEF MarkDetached, NextStep, RoutineSteps
    <3>6. CASE ReportAgain(v)
      BY <3>6 DEF ReportAgain, NextStep, RoutineSteps
    <3>7. CASE CallFails(v)
      BY <3>7 DEF CallFails, NextStep, RoutineSteps
    <3>8. CASE CallFailsLate(v)
      BY <3>8 DEF CallFailsLate, NextStep, RoutineSteps
    <3> QED
      BY <1>3, <3>1, <3>2, <3>3, <3>4, <3>5, <3>6, <3>7, <3>8
         DEF GoroutineStep, RoutineStep
  <2> QED
    BY <1>1, <2>1, GotoMoves
<1> QED
  BY <1>2, <1>3

(***************************************************************************)
(* The list of pending operations: at most one entry for each volume, one  *)
(* that is pending for each goroutine.                                     *)
(***************************************************************************)
OperationsInv ==
    /\ \A i \in DOMAIN operations :
         operations[i].podName = NoPod
    /\ \A i, j \in DOMAIN operations :
         operations[i].volumeName = operations[j].volumeName => i = j
    /\ \A v \in Volumes : routines[v] # NoEntry =>
         \E i \in DOMAIN operations : /\ operations[i].volumeName = v
                                      /\ operations[i].operationPending

\* The indices of the list of operations.
LEMMA OperationsDomain ==
    ASSUME TypeInv
    PROVE  /\ operations \in Seq(Operation)
           /\ Len(operations) \in Nat
           /\ DOMAIN operations = 1 .. Len(operations)
BY LenProperties DEF TypeInv, ListType

\* Run keeps the list in order, whether or not it starts the operation.
LEMMA StartOperations ==
    ASSUME TypeInv, OperationsInv, NEW v \in Volumes, NEW n, NEW s, Start(v, n, s)
    PROVE  OperationsInv'
<1>0. /\ operations \in Seq(Operation)
      /\ Len(operations) \in Nat
      /\ DOMAIN operations = 1 .. Len(operations)
  BY OperationsDomain
<1>1. CASE ~RunAccepts(operations, v, NoPod)
  BY <1>1 DEF Start, opVars, OperationsInv
<1>2. CASE RunAccepts(operations, v, NoPod)
  <2>1. /\ operations' = AfterRun(operations, v, NoPod)
        /\ routines' = [routines EXCEPT ![v] = [node |-> n, step |-> s]]
    BY <1>2 DEF Start
  <2>2. \A w \in Volumes : w # v => routines'[w] = routines[w]
    BY <2>1 DEF TypeInv, ReportInv, RoutineInv
  <2>3. v \in VolumeNames /\ NoPod \in PodNames /\ v # NoVolume
    BY NamesAssumption DEF VolumeNames, PodNames
  <2>5. CASE isOperationExists(operations, v, NoPod)
    <3>1. PICK k : k = previousOpIndex(operations, v, NoPod)
      OBVIOUS
    <3>2. /\ k \in 1 .. Len(operations)
          /\ operations[k].volumeName = v
      BY <1>0, <2>5, <3>1, PreviousOp
    <3>3. /\ operations' \in Seq(Operation)
          /\ Len(operations') = Len(operations)
          /\ operations'[k].volumeName = v
          /\ operations'[k].podName = NoPod
          /\ operations'[k].operationPending
          /\ \A i \in 1 .. Len(operations) :
               i # k => operations'[i] = operations[i]
      BY <1>0, <2>1, <2>3, <2>5, <3>1, RunTakesOver
    <3>4. DOMAIN operations' = 1 .. Len(operations)
      BY <3>3, LenProperties
    <3>5. \A i \in 1 .. Len(operations) :
            /\ operations'[i].volumeName = operations[i].volumeName
            /\ operations'[i].podName = NoPod
            /\ operations[i].operationPending => operations'[i].operationPending
      BY <1>0, <3>2, <3>3 DEF OperationsInv
    <3>6. ASSUME NEW w \in Volumes, routines'[w] # NoEntry
          PROVE  \E i \in DOMAIN operations' :
                    /\ operations'[i].volumeName = w
                    /\ operations'[i].operationPending
      <4>1. CASE w = v
        BY <3>2, <3>3, <3>4, <4>1
      <4>2. CASE w # v
        <5>1. PICK i \in DOMAIN operations : /\ operations[i].volumeName = w
                                             /\ operations[i].operationPending
          BY <2>2, <3>6, <4>2 DEF OperationsInv
        <5> QED
          BY <1>0, <3>4, <3>5, <5>1
      <4> QED
        BY <4>1, <4>2
    <3> QED
      BY <1>0, <3>4, <3>5, <3>6 DEF OperationsInv
  <2>6. CASE ~isOperationExists(operations, v, NoPod)
    <3>1. \A i \in DOMAIN operations : operations[i].volumeName # v
      BY <2>3, <2>6 DEF isOperationExists, Matches, Excludes
    <3>2. /\ operations' \in Seq(Operation)
          /\ Len(operations') = Len(operations) + 1
          /\ operations'[Len(operations) + 1] = NewOperation(v, NoPod)
          /\ \A i \in 1 .. Len(operations) : operations'[i] = operations[i]
      BY <1>0, <2>1, <2>3, <2>6, RunAppends
    <3>3. /\ NewOperation(v, NoPod).volumeName = v
          /\ NewOperation(v, NoPod).podName = NoPod
          /\ NewOperation(v, NoPod).operationPending
      BY DEF NewOperation
    <3>4. /\ DOMAIN operations' = 1 .. Len(operations) + 1
          /\ \A i \in DOMAIN operations' :
               i \in DOMAIN operations \/ i = Len(operations) + 1
      BY <1>0, <3>2, LenProperties
    <3>5. \A i \in DOMAIN operations' : operations'[i].podName = NoPod
      BY <1>0, <3>2, <3>3, <3>4 DEF OperationsInv
    <3>6. \A i, j \in DOMAIN operations' :
            operations'[i].volumeName = operations'[j].volumeName => i = j
      BY <1>0, <3>1, <3>2, <3>3, <3>4 DEF OperationsInv
    <3>7. ASSUME NEW w \in Volumes, routines'[w] # NoEntry
          PROVE  \E i \in DOMAIN operations' :
                    /\ operations'[i].volumeName = w
                    /\ operations'[i].operationPending
      <4>1. CASE w = v
        <5>1. Len(operations) + 1 \in DOMAIN operations'
          BY <1>0, <3>4
        <5> QED
          BY <3>2, <3>3, <4>1, <5>1
      <4>2. CASE w # v
        <5>1. PICK i \in DOMAIN operations : /\ operations[i].volumeName = w
                                             /\ operations[i].operationPending
          BY <2>2, <3>7, <4>2 DEF OperationsInv
        <5>2. i \in DOMAIN operations' /\ operations'[i] = operations[i]
          BY <1>0, <3>2, <3>4
        <5> QED
          BY <5>1, <5>2
      <4> QED
        BY <4>1, <4>2
    <3> QED
      BY <3>5, <3>6, <3>7 DEF OperationsInv
  <2> QED
    BY <2>5, <2>6
<1> QED
  BY <1>1, <1>2

\* operationComplete keeps the list in order.
LEMMA CompleteOperations ==
    ASSUME TypeInv, OperationsInv, NEW v \in Volumes, Complete(v)
    PROVE  OperationsInv'
<1>0. /\ operations \in Seq(Operation)
      /\ Len(operations) \in Nat
      /\ DOMAIN operations = 1 .. Len(operations)
  BY OperationsDomain
<1>1. routines[v] # NoEntry
  BY DEF Complete, At
<1>2. EntriesNamed(operations, v, NoPod) # {}
  BY <1>1 DEF OperationsInv, EntriesNamed
<1>3. PICK failed \in BOOLEAN : failed = At(v, "failed")
  BY DEF At
<1>4. PICK k : k = getOperation(operations, v, NoPod)
  OBVIOUS
<1>5. /\ k \in DOMAIN operations
      /\ operations[k].volumeName = v
  BY <1>0, <1>2, <1>4, GetOperation
<1>6. PICK next : next = operationComplete(operations, v, NoPod, failed)
  OBVIOUS
<1>7. operations' = next
  BY <1>3, <1>6 DEF Complete
<1>8. PICK from \in [DOMAIN next -> DOMAIN operations] :
        /\ ComesFrom(from, next, operations, k)
        /\ \A i \in DOMAIN next : from[i] = k => failed
  BY <1>0, <1>2, <1>4, <1>6, CompleteMoves
<1>9. \A j \in DOMAIN operations : j # k =>
         \E i \in DOMAIN next : next[i] = operations[j]
  BY <1>0, <1>2, <1>4, <1>6, CompleteEntries
<1>10. \A w \in Volumes : w # v => routines'[w] = routines[w]
  BY DEF Complete, TypeInv, ReportInv, RoutineInv
<1>11. routines'[v] = NoEntry
  BY DEF Complete, TypeInv, ReportInv, RoutineInv
<1>12. \A i \in DOMAIN next : next[i].podName = NoPod
  BY <1>8 DEF OperationsInv, ComesFrom
<1>13. \A i, j \in DOMAIN next :
         next[i].volumeName = next[j].volumeName => i = j
  BY <1>8 DEF OperationsInv, ComesFrom
<1>14. ASSUME NEW w \in Volumes, routines'[w] # NoEntry
       PROVE  \E i \in DOMAIN next : /\ next[i].volumeName = w
                                     /\ next[i].operationPending
  <2>1. w # v /\ routines[w] # NoEntry
    BY <1>10, <1>11, <1>14
  <2>2. PICK j \in DOMAIN operations : /\ operations[j].volumeName = w
                                       /\ operations[j].operationPending
    BY <2>1 DEF OperationsInv
  <2>3. j # k
    BY <1>5, <2>1, <2>2
  <2> QED
    BY <1>9, <2>2, <2>3
<1> QED
  BY <1>7, <1>12, <1>13, <1>14 DEF OperationsInv

\* OperationsInv is inductive.
LEMMA OperationsNext ==
    ASSUME TypeInv, OperationsInv, [Next]_vars
    PROVE  OperationsInv'
<1>1. ASSUME operations' = operations,
             \A v \in Volumes : routines'[v] # NoEntry => routines[v] # NoEntry
      PROVE  OperationsInv'
  BY <1>1 DEF OperationsInv
<1>2. ASSUME NEW v \in Volumes, GoroutineStep(v)
      PROVE  OperationsInv'
  <2>1. CASE Complete(v)
    BY <2>1, CompleteOperations
  <2>2. CASE ~Complete(v)
    BY <1>1, <1>2, <2>2, RoutineMoves
  <2> QED
    BY <2>1, <2>2
<1>3. CASE ReconcilerStep
  <2>1. CASE DetachVolume
    <3>1. rc.current \in VolumeNodes
      BY <2>1 DEF DetachVolume, TypeInv, ReportInv, PassInv, Pass
    <3>2. rc.current[1] \in Volumes
      BY <3>1 DEF VolumeNodes
    <3> QED
      BY <2>1, <3>2, StartOperations DEF DetachVolume
  <2>2. ASSUME NEW t \in rc.todo, AttachVolume(t)
        PROVE  OperationsInv'
    <3>1. t[1][1] \in Volumes
      BY TodoType DEF TypeInv, ReportInv
    <3>2. UNCHANGED <<operations, routines>> \/ Start(t[1][1], t[1][2], "attach")
      BY <2>2 DEF AttachVolume, opVars
    <3> QED
      BY <1>1, <3>1, <3>2, StartOperations
  <2>3. \/ UNCHANGED <<operations, routines>> \/ DetachVolume
        \/ \E t \in rc.todo : AttachVolume(t)
    BY <1>3 DEF ReconcilerStep, BeginPass, GetVolumesToReportAttached,
                UpdatesDone, DetachesDone, AttachesDone, EndPass, SyncStates,
                SkipDesired, ConsiderDetach, PatchUnknownNode, PatchSucceeds,
                PatchFails, opVars
  <2> QED
    BY <1>1, <2>1, <2>2, <2>3
<1>4. CASE Tick
  <2>1. routines' = routines /\ operations' = Later(operations)
    BY <1>4 DEF Tick
  <2>2. /\ operations \in Seq(Operation)
        /\ DOMAIN operations = 1 .. Len(operations)
    BY OperationsDomain
  <2>3. /\ operations' \in Seq(Operation)
        /\ Len(operations') = Len(operations)
        /\ \A i \in 1 .. Len(operations) :
             /\ operations'[i].volumeName = operations[i].volumeName
             /\ operations'[i].podName = operations[i].podName
             /\ operations'[i].operationPending = operations[i].operationPending
    BY <2>1, <2>2, LaterEntries
  <2>4. DOMAIN operations' = 1 .. Len(operations)
    BY <2>3, LenProperties
  <2> QED
    BY <2>1, <2>2, <2>3, <2>4 DEF OperationsInv
<1>5. CASE Restart
  <2>1. operations' = << >> /\ \A v \in Volumes : routines'[v] = NoEntry
    BY <1>5 DEF Restart
  <2>2. DOMAIN operations' = {}
    BY <2>1
  <2> QED
    BY <2>1, <2>2 DEF OperationsInv
<1>6. ASSUME NEW v \in Volumes, NEW n \in Nodes, UnmountWaitElapses(v, n)
      PROVE  OperationsInv'
  BY <1>1, <1>6 DEF UnmountWaitElapses, opVars
<1> QED
  BY <1>1, <1>2, <1>3, <1>4, <1>5, <1>6, StepCases, WorldFrame, QuietFrame

(***************************************************************************)
(* Run accepts a volume only without a goroutine.                          *)
(***************************************************************************)
LEMMA AcceptedIsIdle ==
    ASSUME TypeInv, OperationsInv, NEW v \in Volumes,
           RunAccepts(operations, v, NoPod)
    PROVE  routines[v] = NoEntry
<1>0. /\ operations \in Seq(Operation)
      /\ DOMAIN operations = 1 .. Len(operations)
  BY OperationsDomain
<1>1. ASSUME NEW i \in DOMAIN operations, operations[i].volumeName = v
      PROVE  ~operations[i].operationPending
  <2>1. isOperationExists(operations, v, NoPod)
    <3>1. v # NoVolume
      BY NamesAssumption
    <3> QED
      BY <1>1, <3>1 DEF isOperationExists, Matches, Excludes
  <2>2. PICK k : k = previousOpIndex(operations, v, NoPod)
    OBVIOUS
  <2>3. k \in DOMAIN operations /\ operations[k].volumeName = v
    BY <1>0, <2>1, <2>2, PreviousOp
  <2>4. k = i
    BY <1>1, <2>3 DEF OperationsInv
  <2> QED
    BY <2>1, <2>2, <2>4 DEF RunAccepts
<1> QED
  BY <1>1 DEF OperationsInv

-----------------------------------------------------------------------------
(***************************************************************************)
(* The storage behind the entries.  A goroutine that is about to mark the  *)
(* volume as attached has attached it, and nobody else detaches it.        *)
(***************************************************************************)
MarkedIsAttached ==
    \A v \in Volumes :
        At(v, "markAttached") => <<v, routines[v].node>> \in attachments

\* What a goroutine does to the storage concerns its own volume and node.
LEMMA StorageSteps ==
    ASSUME NEW v \in Volumes, GoroutineStep(v)
    PROVE  \A x : x # <<v, routines[v].node>> =>
             /\ x \in attachments => x \in attachments'
             /\ x \in detachedLate => x \in detachedLate'
<1>1. CASE MarkAttached(v) \/ verifyVolumeIsSafeToDetach(v) \/ ReportAgain(v)
           \/ Complete(v) \/ CallFails(v)
  BY <1>1 DEF MarkAttached, verifyVolumeIsSafeToDetach, ReportAgain, Complete,
     CallFails, ghostVars
<1>2. CASE Attach(v) \/ Detach(v) \/ MarkDetached(v)
  BY <1>2 DEF Attach, Detach, MarkDetached, ghostVars
<1>3. CASE CallFailsLate(v)
  BY <1>3 DEF CallFailsLate
<1> QED
  BY <1>1, <1>2, <1>3 DEF GoroutineStep, RoutineStep

\* ... where the entry keeps its meaning, ...
LEMMA OwnEntry ==
    ASSUME TypeInv, EntryIsAttached, MarkedIsAttached, NEW v \in Volumes,
           GoroutineStep(v), NEW n \in Nodes, n = routines[v].node,
           attachedVolumes'[<<v, n>>] # NoEntry
    PROVE  \/ <<v, n>> \in attachments' \cup detachedLate'
           \/ /\ routines'[v] # NoEntry
              /\ routines'[v].step = "markDetached" /\ routines'[v].node = n
<1>1. <<v, n>> \in VolumeNodes /\ AswInv
  BY DEF VolumeNodes, TypeInv, ReportInv
<1>2. CASE Attach(v)
  BY <1>2 DEF Attach
<1>3. CASE MarkAttached(v)
  BY <1>3 DEF MarkAttached, MarkedIsAttached
<1>4. CASE Detach(v)
  <2>1. routines[v] # NoEntry /\ Goto(v, "markDetached")
    BY <1>4 DEF Detach, At
  <2> QED
    BY <2>1, GotoMoves DEF RoutineSteps
<1>5. CASE MarkDetached(v)
  <2>1. MarkVolumeAsDetached(v, n)
    BY <1>5 DEF MarkDetached
  <2>2. CASE \E m \in Nodes : VolumeNodeExists(v, m)
    <3>1. attachedVolumes' = [attachedVolumes EXCEPT ![<<v, n>>] = NoEntry]
      BY <2>1, <2>2 DEF MarkVolumeAsDetached
    <3> QED
      BY <1>1, <3>1 DEF AswInv
  <2>3. CASE ~\E m \in Nodes : VolumeNodeExists(v, m)
    BY <2>1, <2>3 DEF MarkVolumeAsDetached, VolumeNodeExists, aswVars
  <2> QED
    BY <2>2, <2>3
<1>6. CASE CallFailsLate(v)
  BY <1>6 DEF CallFailsLate
<1>7. CASE verifyVolumeIsSafeToDetach(v) \/ ReportAgain(v) \/ Complete(v) \/ CallFails(v)
  <2>1. ~At(v, "markDetached")
    BY <1>7 DEF verifyVolumeIsSafeToDetach, ReportAgain, Complete, CallFails, At
  <2>2. UNCHANGED <<attachedVolumes, attachments, detachedLate>>
    BY <1>7 DEF verifyVolumeIsSafeToDetach, ReportAgain, Complete, CallFails,
       AddVolumeToReportAsAttached, aswVars, ghostVars
  <2> QED
    BY <2>1, <2>2 DEF EntryIsAttached, VolumeNodeExists
<1> QED
  BY <1>2, <1>3, <1>4, <1>5, <1>6, <1>7 DEF GoroutineStep, RoutineStep

\* ... as do the others.
LEMMA GoroutineEntries ==
    ASSUME TypeInv, EntryIsAttached, MarkedIsAttached, [Next]_vars,
           NEW v \in Volumes, GoroutineStep(v)
    PROVE  EntryIsAttached' /\ MarkedIsAttached'
<1>1. /\ routines[v] # NoEntry
      /\ \A w \in Volumes : w # v => routines'[w] = routines[w]
  BY RoutineMoves
<1>2. \A x : x # <<v, routines[v].node>> =>
        /\ x \in attachments => x \in attachments'
        /\ x \in detachedLate => x \in detachedLate'
  BY StorageSteps
<1>3. ASSUME NEW w \in Volumes, NEW n \in Nodes, VolumeNodeExists(w, n)'
      PROVE  \/ <<w, n>> \in attachments' \cup detachedLate'
             \/ At(w, "markDetached")' /\ routines'[w].node = n
  <2>1. attachedVolumes'[<<w, n>>] # NoEntry
    BY <1>3 DEF VolumeNodeExists
  <2>2. CASE w = v /\ n = routines[v].node
    BY <2>1, <2>2, OwnEntry DEF At
  <2>3. CASE ~(w = v /\ n = routines[v].node)
    <3>1. <<w, n>> # <<v, routines[v].node>>
      BY <2>3
    <3>2. attachedVolumes[<<w, n>>] # NoEntry
      <4>1. SUFFICES ASSUME MarkAttached(w), routines[w].node = n, w # v
                     PROVE  FALSE
        BY <2>1, <2>3, EntrySteps
      <4>2. routines[w] # NoEntry /\ routines[w].step = "markAttached"
            /\ Goto(w, "succeeded")
        BY <4>1 DEF MarkAttached, At
      <4>3. routines'[w].step = "succeeded"
        BY <4>2, GotoMoves DEF RoutineSteps
      <4> QED
        BY <1>1, <4>1, <4>2, <4>3
    <3>3. \/ <<w, n>> \in attachments \cup detachedLate
          \/ w # v /\ At(w, "markDetached") /\ routines[w].node = n
      BY <2>3, <3>2 DEF EntryIsAttached, VolumeNodeExists
    <3> QED
      BY <1>1, <1>2, <3>1, <3>3 DEF At
  <2> QED
    BY <2>2, <2>3
<1>4. ASSUME NEW w \in Volumes, At(w, "markAttached")'
      PROVE  <<w, routines'[w].node>> \in attachments'
  <2>1. CASE w # v
    <3>1. routines'[w] = routines[w]
      BY <1>1, <2>1
    <3>2. <<w, routines[w].node>> \in attachments
      BY <1>4, <3>1 DEF At, MarkedIsAttached
    <3>3. <<w, routines[w].node>> # <<v, routines[v].node>>
      BY <2>1
    <3> QED
      BY <1>2, <3>1, <3>2, <3>3
  <2>2. CASE w = v
    <3>1. Attach(v) /\ routines'[v].node = routines[v].node
      BY <1>4, <2>2, RoutineMoves DEF At, NextStep
    <3> QED
      BY <2>2, <3>1 DEF Attach
  <2> QED
    BY <2>1, <2>2
<1> QED
  BY <1>3, <1>4 DEF EntryIsAttached, MarkedIsAttached

\* A step that leaves the storage alone, adds no entry, and starts goroutines
\* only for volumes without one.
LEMMA QuietEntries ==
    ASSUME EntryIsAttached, MarkedIsAttached,
           UNCHANGED <<attachments, detachedLate>>,
           \A v \in Volumes, n \in Nodes :
             attachedVolumes[<<v, n>>] = NoEntry => attachedVolumes'[<<v, n>>] = NoEntry,
           \A v \in Volumes : \/ routines'[v] = routines[v]
                              \/ /\ routines[v] = NoEntry
                                 /\ ~At(v, "markAttached")'
    PROVE  EntryIsAttached' /\ MarkedIsAttached'
<1>1. ASSUME NEW v \in Volumes, NEW n \in Nodes, VolumeNodeExists(v, n)'
      PROVE  \/ <<v, n>> \in attachments' \cup detachedLate'
             \/ At(v, "markDetached")' /\ routines'[v].node = n
  BY <1>1 DEF EntryIsAttached, VolumeNodeExists, At
<1>2. ASSUME NEW v \in Volumes, At(v, "markAttached")'
      PROVE  <<v, routines'[v].node>> \in attachments'
  BY <1>2 DEF MarkedIsAttached, At
<1> QED
  BY <1>1, <1>2 DEF EntryIsAttached, MarkedIsAttached

\* Run starts the goroutine of one volume.
LEMMA StartMoves ==
    ASSUME TypeInv, OperationsInv, NEW v \in Volumes, NEW n \in Nodes,
           NEW s \in {"attach", "verifySafe", "forceDetach"}, Start(v, n, s)
    PROVE  \A w \in Volumes : \/ routines'[w] = routines[w]
                              \/ routines[w] = NoEntry /\ ~At(w, "markAttached")'
<1>1. CASE RunAccepts(operations, v, NoPod)
  <2>1. routines[v] = NoEntry
    BY <1>1, AcceptedIsIdle
  <2>2. routines' = [routines EXCEPT ![v] = [node |-> n, step |-> s]]
    BY <1>1 DEF Start
  <2>3. /\ routines'[v].step # "markAttached"
        /\ \A w \in Volumes : w # v => routines'[w] = routines[w]
    BY <2>2 DEF TypeInv, ReportInv, RoutineInv
  <2> QED
    BY <2>1, <2>3 DEF At
<1>2. CASE ~RunAccepts(operations, v, NoPod)
  BY <1>2 DEF Start, opVars
<1> QED
  BY <1>1, <1>2

LEMMA ReconcilerEntries ==
    ASSUME TypeInv, OperationsInv, ReconcilerStep
    PROVE  /\ UNCHANGED <<attachments, detachedLate>>
           /\ \A w \in Volumes : \/ routines'[w] = routines[w]
                                 \/ routines[w] = NoEntry /\ ~At(w, "markAttached")'
<1>1. UNCHANGED <<attachments, detachedLate>>
  BY ReconcilerFrame DEF passFrame
<1>2. CASE DetachVolume
  <2>1. rc.current \in VolumeNodes
    BY <1>2 DEF DetachVolume, TypeInv, ReportInv, PassInv, Pass
  <2>2. rc.current[1] \in Volumes /\ rc.current[2] \in Nodes
    BY <2>1 DEF VolumeNodes
  <2>3. \E s \in {"verifySafe", "forceDetach"} :
          Start(rc.current[1], rc.current[2], s)
    BY <1>2 DEF DetachVolume
  <2> QED
    BY <1>1, <2>2, <2>3, StartMoves
<1>3. ASSUME NEW t \in rc.todo, AttachVolume(t)
      PROVE  \A w \in Volumes : \/ routines'[w] = routines[w]
                                \/ routines[w] = NoEntry /\ ~At(w, "markAttached")'
  <2>1. t[1][1] \in Volumes /\ t[1][2] \in Nodes
    BY TodoType DEF TypeInv, ReportInv
  <2>2. routines' = routines \/ Start(t[1][1], t[1][2], "attach")
    BY <1>3 DEF AttachVolume, opVars
  <2> QED
    BY <2>1, <2>2, StartMoves
<1>4. \/ routines' = routines \/ DetachVolume
      \/ \E t \in rc.todo : AttachVolume(t)
  BY DEF ReconcilerStep, BeginPass, GetVolumesToReportAttached, UpdatesDone,
     DetachesDone, AttachesDone, EndPass, SyncStates, SkipDesired, ConsiderDetach,
     PatchUnknownNode, PatchSucceeds, PatchFails, opVars
<1> QED
  BY <1>1, <1>2, <1>3, <1>4

EntryInv == TypeInv /\ OperationsInv /\ EntryIsAttached /\ MarkedIsAttached

LEMMA EntryInvNext == EntryInv /\ [Next]_vars => EntryInv'
<1> SUFFICES ASSUME EntryInv, [Next]_vars
             PROVE  EntryIsAttached' /\ MarkedIsAttached'
  BY TypeInvNext, OperationsNext DEF EntryInv
<1> USE DEF EntryInv
<1>1. ASSUME NEW v \in Volumes, GoroutineStep(v)
      PROVE  EntryIsAttached' /\ MarkedIsAttached'
  BY <1>1, GoroutineEntries
<1>2. CASE Restart
  <2>1. /\ \A v \in Volumes : routines'[v] = NoEntry
        /\ \A x \in VolumeNodes : attachedVolumes'[x] = NoEntry
    BY <1>2 DEF Restart
  <2>2. \A v \in Volumes, n \in Nodes : ~VolumeNodeExists(v, n)'
    BY <2>1 DEF VolumeNodeExists, VolumeNodes
  <2> QED
    BY <2>1, <2>2 DEF EntryIsAttached, MarkedIsAttached, At
<1>3. CASE (\A v \in Volumes : ~GoroutineStep(v)) /\ ~Restart
  <2>1. ASSUME NEW v \in Volumes, NEW n \in Nodes, attachedVolumes[<<v, n>>] = NoEntry
        PROVE  attachedVolumes'[<<v, n>>] = NoEntry
    BY <1>3, <2>1, EntrySteps DEF GoroutineStep, RoutineStep
  <2>2. /\ UNCHANGED <<attachments, detachedLate>>
        /\ \A v \in Volumes : \/ routines'[v] = routines[v]
                              \/ routines[v] = NoEntry /\ ~At(v, "markAttached")'
    BY <1>3, StepCases, WorldFrame, QuietFrame, ReconcilerEntries
  <2> QED
    BY <2>1, <2>2, QuietEntries
<1> QED
  BY <1>1, <1>2, <1>3

(***************************************************************************)
(* For any nodes, volumes and pods and any number of faults, a volume the  *)
(* actual state of the world shows on a node (attachedVolumes) is attached *)
(* there, or the goroutine that has detached it is about to say so, or a   *)
(* call that returned an error has detached it: no goroutine's mark of a   *)
(* volume is overtaken by another's, because the list of pending           *)
(* operations keeps them apart, through back-offs, retries and restarts.   *)
(***************************************************************************)
THEOREM EntriesAreAttached == Spec => []EntryIsAttached
<1>1. Init => EntryInv
  <2> SUFFICES ASSUME Init PROVE EntryInv
    OBVIOUS
  <2>1. /\ \A v \in Volumes : routines[v] = NoEntry
        /\ operations = << >>
        /\ \A x \in VolumeNodes : attachedVolumes[x] = NoEntry
    BY DEF Init, CachesInit
  <2>2. OperationsInv
    BY <2>1 DEF OperationsInv
  <2>3. \A v \in Volumes, n \in Nodes : ~VolumeNodeExists(v, n)
    BY <2>1 DEF VolumeNodeExists, VolumeNodes
  <2> QED
    BY <2>1, <2>2, <2>3, TypeInvInit DEF EntryInv, EntryIsAttached, MarkedIsAttached, At
<1>2. EntryInv => EntryIsAttached
  BY DEF EntryInv
<1> QED
  BY <1>1, <1>2, EntryInvNext, PTL DEF Spec
=============================================================================
