----------------------------- MODULE ModelTable -----------------------------
(***************************************************************************)
(* The tables behind the API of memx.h: models that are open, the device   *)
(* groups they opened, the MPU groups of a device they are attached to,    *)
(* and what the chips hold.  A call is one action: one process makes calls *)
(* one after the other, on cascade-plus devices, and memory never runs     *)
(* out.  Opening a device, reading a DFP file and a download may fail.     *)
(***************************************************************************)
EXTENDS Integers, FiniteSets, FiniteSetsExt

CONSTANTS
    Models,         \* model ids
    Groups,         \* device groups that are present
    None,           \* 0xff: no model, or MEMX_MPU_GROUP_ID_UNATTTACHED
    MaxMpuGroups,   \* MPU groups a device can be configured for
    MayFail,        \* opens, files and downloads may fail
    MaxRef          \* bound on the references to a model or to a device

ASSUME ModelTableAssumption ==
    /\ IsFiniteSet(Models)
    /\ MaxMpuGroups \in Nat \ {0}
    /\ MayFail \in BOOLEAN
    /\ MaxRef \in Nat
    /\ None \notin Models \cup Nat

Parts == {"wtmem", "config"}
MpuGroups == 0 .. MaxMpuGroups      \* entries of the tables of a device

VARIABLES
    model,      \* g_mpu_models: ref_count (0 is not open), group_id and the
                \* mpu_group_id of the model's mpu
    dev,        \* g_mpu_device_groups: ref_count (0 is not open) and the MPU
                \* groups that are busy
    hw,         \* hw_info of the device: group_count and the input chip of
                \* every entry of groups
    chips,      \* chips[g][c]: whose weights and configuration chip c holds
    g_last_model_id,
    returned    \* what the last call downloaded, if it says so: model, parts

vars == <<model, dev, hw, chips, g_last_model_id, returned>>

-----------------------------------------------------------------------------
Closed == [ref_count |-> 0, group_id |-> None, mpu_group_id |-> None]
NoDevice == [ref_count |-> 0, busy |-> {}]
Nothing == [model |-> None, parts |-> {}]

IsOpen(m) == model[m].ref_count > 0
Group(m) == model[m].group_id

Init ==
    /\ model = [m \in Models |-> Closed]
    /\ dev = [g \in Groups |-> NoDevice]
    /\ hw = [g \in Groups |-> [group_count |-> 1,
                               chip |-> [i \in MpuGroups |-> 0]]]
    /\ chips = [g \in Groups |-> [c \in MpuGroups |-> [p \in Parts |-> None]]]
    /\ g_last_model_id = None
    /\ returned = Nothing

-----------------------------------------------------------------------------
(* memx_device_group_create: open the device, or take a reference to it.   *)
TakenOnlyNew(d) == [d EXCEPT !.ref_count = 1]   \* mutant: no reference taken
Taken(d) == [d EXCEPT !.ref_count = @ + 1]

(* memx_device_group_destory: skipped if the device is not open; the last  *)
(* reference frees the device, and with it which MPU groups are busy.      *)
ReleasedUnchecked(d) == [d EXCEPT !.ref_count = @ - 1]  \* mutant: no test
Released(d) ==
    IF d.ref_count <= 1 THEN NoDevice ELSE [d EXCEPT !.ref_count = @ - 1]

(* memx_open of a model that is not open; if the device cannot be opened   *)
(* nothing remains.                                                        *)
OpenNew(m, g) ==
    /\ ~IsOpen(m)
    /\ dev[g].ref_count < MaxRef
    /\ dev' = [dev EXCEPT ![g] = Taken(@)]
    /\ model' = [model EXCEPT ![m] =
                    [Closed EXCEPT !.ref_count = 1, !.group_id = g]]
    /\ returned' = Nothing
    /\ UNCHANGED <<hw, chips, g_last_model_id>>

(* Another reference to the model and to its device; another device is     *)
(* refused with MEMX_STATUS_MODEL_IN_USE.                                  *)
OpenAgain(m) ==
    /\ IsOpen(m)
    /\ dev[Group(m)].ref_count < MaxRef
    /\ dev' = [dev EXCEPT ![Group(m)] = Taken(@)]
    /\ model' = [model EXCEPT ![m].ref_count = @ + 1]
    /\ returned' = Nothing
    /\ UNCHANGED <<hw, chips, g_last_model_id>>

(* Only the close that destroys the model gives a reference to the device  *)
(* back, one, whatever the number of opens; the MPU group stays busy.      *)
Close(m) ==
    /\ g_last_model_id' = None
    /\ IF ~IsOpen(m) THEN UNCHANGED <<model, dev>>
       ELSE IF model[m].ref_count > 1
         THEN /\ model' = [model EXCEPT ![m].ref_count = @ - 1]
              /\ UNCHANGED dev
         ELSE /\ model' = [model EXCEPT ![m] = Closed]
              /\ dev' = [dev EXCEPT ![Group(m)] = Released(@)]
    /\ returned' = Nothing
    /\ UNCHANGED <<hw, chips>>

-----------------------------------------------------------------------------
(* memx_mpuio_attach_idle_mpu_group looks at one entry more than there are *)
(* MPU groups.                                                             *)
IdleMpuGroups(g) == (0 .. hw[g].group_count) \ dev[g].busy

Attach(m) == LET g == Group(m) IN
    IF model[m].mpu_group_id # None THEN model[m].mpu_group_id
    ELSE IF IdleMpuGroups(g) = {} THEN None
    ELSE Min(IdleMpuGroups(g))

(* memx_mpu_download_model: every part is loaded to the input chip of the  *)
(* MPU group, weights first; what comes after a failure is not loaded, and *)
(* a part that failed leaves nothing of use.  done: the parts loaded.      *)
Load(m, parts, done) ==
    LET g == Group(m)
        i == Attach(m)
        c == hw[g].chip[i]
        failed == IF done = parts THEN {}
                  ELSE IF "wtmem" \in parts \ done THEN {"wtmem"} ELSE {"config"}
    IN  IF i = None
          THEN UNCHANGED <<model, dev, chips>>
          ELSE /\ model' = [model EXCEPT ![m].mpu_group_id = i]
               /\ dev' = [dev EXCEPT ![g].busy = @ \cup {i}]
               /\ chips' = [chips EXCEPT ![g][c] = [p \in Parts |->
                     IF p \in done THEN m ELSE IF p \in failed THEN None ELSE @[p]]]

(* The parts a download gets done: all, or, when it may fail, a beginning. *)
LoadedParts(parts) ==
    IF MayFail THEN {{}, parts \ {"config"}, parts} ELSE {parts}

Says(m, parts, ok) ==
    returned' = IF ok THEN [model |-> m, parts |-> parts] ELSE Nothing

(* memx_download_model: skipped for the model of the last call, which is   *)
(* noted before the file is read and the parts are loaded.                 *)
DownloadSkipped(m, parts) ==
    /\ IsOpen(m)
    /\ g_last_model_id = m
    /\ Says(m, parts, TRUE)
    /\ UNCHANGED <<model, dev, hw, chips, g_last_model_id>>

DownloadModel(m, parts) ==
    /\ IsOpen(m)
    /\ g_last_model_id # m
    /\ g_last_model_id' = m
    /\ \E done \in LoadedParts(parts) :
        /\ Load(m, parts, done)
        /\ Says(m, parts, Attach(m) # None /\ done = parts)
    /\ UNCHANGED hw

(* A DFP file that cannot be read: nothing but the note. *)
DownloadBadFile(m) ==
    /\ MayFail
    /\ IsOpen(m)
    /\ g_last_model_id # m
    /\ g_last_model_id' = m
    /\ returned' = Nothing
    /\ UNCHANGED <<model, dev, hw, chips>>

(* memx_download_model_config and memx_download_model_wtmem never look at  *)
(* the note nor change it.                                                 *)
DownloadPart(m, p) ==
    /\ IsOpen(m)
    /\ \E done \in LoadedParts({p}) :
        /\ Load(m, {p}, done)
        /\ Says(m, {p}, Attach(m) # None /\ done = {p})
    /\ UNCHANGED <<hw, g_last_model_id>>

(* memx_download_model_from_cahce is never skipped. *)
DownloadFromCache(m, parts) ==
    /\ IsOpen(m)
    /\ \E done \in LoadedParts(parts) :
        LET ok == Attach(m) # None /\ done = parts IN
        /\ Load(m, parts, done)
        /\ Says(m, parts, ok)
        /\ g_last_model_id' = IF ok THEN m ELSE g_last_model_id
    /\ UNCHANGED hw

-----------------------------------------------------------------------------
(* memx_set_stream_disable gives the MPU group back. *)
StillAttached(m) == model[m].mpu_group_id       \* mutant: id not reset
Unattached(m) == None

Disable(m) ==
    /\ IsOpen(m)
    /\ dev' = [dev EXCEPT ![Group(m)].busy = @ \ {model[m].mpu_group_id}]
    /\ model' = [model EXCEPT ![m].mpu_group_id = Unattached(m)]
    /\ returned' = Nothing
    /\ UNCHANGED <<hw, chips, g_last_model_id>>

(* memx_config_mpu_group: open the device if need be, make n MPU groups of *)
(* its chips, give the reference back, even if there is none.  The entries *)
(* past n keep their chips, and MPU groups stay busy.                      *)
ConfigMpuGroup(g, n) ==
    /\ g_last_model_id' = None
    /\ dev' = [dev EXCEPT ![g] = Released(Taken(@))]
    /\ hw' = [hw EXCEPT ![g] = [group_count |-> n,
                chip |-> [i \in MpuGroups |-> IF i < n THEN i ELSE @.chip[i]]]]
    /\ chips' = [chips EXCEPT ![g] = [c \in MpuGroups |-> [p \in Parts |-> None]]]
    /\ returned' = Nothing
    /\ UNCHANGED model

ConfigFails(g) ==
    /\ MayFail
    /\ dev[g].ref_count = 0
    /\ g_last_model_id' = None
    /\ dev' = [dev EXCEPT ![g] = Released(@)]
    /\ returned' = Nothing
    /\ UNCHANGED <<model, hw, chips>>

(* Power state PS3 and deep sleep, in and out: the chips lose everything.  *)
PowerDown(g) ==
    /\ g_last_model_id' = None
    /\ chips' = [chips EXCEPT ![g] = [c \in MpuGroups |-> [p \in Parts |-> None]]]
    /\ returned' = Nothing
    /\ UNCHANGED <<model, dev, hw>>

(* __memx_del__ at exit, whatever the references, and a new process. *)
Exit ==
    /\ model' = [m \in Models |-> Closed]
    /\ dev' = [g \in Groups |-> NoDevice]
    /\ g_last_model_id' = None
    /\ returned' = Nothing
    /\ UNCHANGED <<hw, chips>>

-----------------------------------------------------------------------------
Download(m) ==
    \/ \E parts \in (SUBSET Parts) \ {{}} :
          \/ DownloadSkipped(m, parts)
          \/ DownloadModel(m, parts)
          \/ DownloadFromCache(m, parts)
    \/ DownloadBadFile(m)
    \/ \E p \in Parts : DownloadPart(m, p)

Next ==
    \/ \E m \in Models :
          \/ \E g \in Groups : OpenNew(m, g)
          \/ OpenAgain(m)
          \/ Close(m)
          \/ Download(m)
          \/ Disable(m)
    \/ \E g \in Groups :
          \/ \E n \in 1 .. MaxMpuGroups : ConfigMpuGroup(g, n)
          \/ ConfigFails(g)
          \/ PowerDown(g)
    \/ Exit

Spec == Init /\ [][Next]_vars

-----------------------------------------------------------------------------
Holders == Models \cup {None}

TypeOK ==
    /\ \A m \in Models :
        /\ model[m].ref_count \in 0 .. MaxRef
        /\ model[m].group_id \in Groups \cup {None}
        /\ model[m].mpu_group_id \in MpuGroups \cup {None}
    /\ \A g \in Groups :
        /\ dev[g].ref_count \in Nat
        /\ dev[g].busy \subseteq MpuGroups
        /\ hw[g].group_count \in 1 .. MaxMpuGroups
        /\ chips[g] \in [MpuGroups -> [Parts -> Holders]]
    /\ g_last_model_id \in Holders

(* The device of an open model is open, whatever other models were opened  *)
(* and closed on it, so no call reaches a device that was freed; and the   *)
(* note names no model that has been closed since.                         *)
OpenModelsBacked ==
    /\ \A m \in Models : IsOpen(m) => dev[Group(m)].ref_count > 0
    /\ g_last_model_id # None => IsOpen(g_last_model_id)

(* An MPU group is attached to one open model at most, and is busy then,   *)
(* through downloads that fail and changes of the configuration.           *)
AttachedExclusively ==
    \A m \in Models : model[m].mpu_group_id # None =>
        /\ model[m].mpu_group_id \in dev[Group(m)].busy
        /\ \A other \in Models \ {m} :
            ~ /\ Group(other) = Group(m)
              /\ model[other].mpu_group_id = model[m].mpu_group_id

(* A download that returns OK has put every part it was asked for on the   *)
(* chip of the model's MPU group.                                          *)
DownloadDelivers ==
    \A p \in returned.parts :
        LET g == Group(returned.model)
            i == model[returned.model].mpu_group_id
        IN  i # None /\ chips[g][hw[g].chip[i]][p] = returned.model
=============================================================================
