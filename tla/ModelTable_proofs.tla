------------------------- MODULE ModelTable_proofs --------------------------
(***************************************************************************)
(* Proofs about ModelTable, for any number of models, devices and MPU      *)
(* groups: the tables are well typed, the device of an open model is open, *)
(* and no MPU group is attached to two models.                             *)
(***************************************************************************)
EXTENDS ModelTable, FiniteSetTheorems, WellFoundedInduction, TLAPS

(* Open models other than m on the device of m, by the table t of models.  *)
OthersOn(t, m) ==
    {o \in Models \ {m} : t[o].ref_count > 0 /\ t[o].group_id = t[m].group_id}

(* The sets the variables range over. *)
ModelTables == [Models -> [ref_count : Nat, group_id : Groups \cup {None},
                           mpu_group_id : MpuGroups \cup {None}]]
DeviceTables == [Groups -> [ref_count : 0 .. MaxRef, busy : SUBSET MpuGroups]]

TypeInv ==
    /\ model \in ModelTables
    /\ dev \in DeviceTables
    /\ hw \in [Groups -> [group_count : 1 .. MaxMpuGroups,
                          chip : [MpuGroups -> MpuGroups]]]
    /\ chips \in [Groups -> [MpuGroups -> [Parts -> Holders]]]
    /\ g_last_model_id \in Holders

(* A model that is open is on a device; one that is not has no traces.     *)
OpenOrClosed ==
    \A m \in Models : IF IsOpen(m) THEN Group(m) \in Groups
                                   ELSE model[m] = Closed

(* A device has a reference for every reference of any one of its models   *)
(* and one for each of the others: those that closes did not give back     *)
(* belong to nobody.                                                       *)
BackedBy(t, d) ==
    \A m \in Models : t[m].ref_count > 0 =>
        t[m].ref_count + Cardinality(OthersOn(t, m)) <= d[t[m].group_id].ref_count

Backed == BackedBy(model, dev)

LastIsOpen == g_last_model_id # None => IsOpen(g_last_model_id)

Inv == /\ TypeInv /\ OpenOrClosed /\ Backed /\ LastIsOpen
       /\ AttachedExclusively

-----------------------------------------------------------------------------
(* A set of naturals that is not empty has a least element. *)
LEMMA LeastExists ==
    ASSUME NEW S \in SUBSET Nat, S # {}
    PROVE  Min(S) \in S
<1>1. PICK x \in S : \A y \in S : ~ (<<y, x>> \in OpToRel(<, Nat))
  BY ONLY WFMin, NatLessThanWellFounded, S \in SUBSET Nat, S # {}, Zenon
<1>2. \A y \in S : ~ (y < x)
  BY ONLY <1>1, S \in SUBSET Nat DEF OpToRel
<1>3. \E z \in S : \A y \in S : z <= y
  BY <1>2
<1>. QED
  BY <1>3 DEF Min

(* The sets of open models are finite. *)
LEMMA OthersFinite ==
    ASSUME NEW t, NEW m
    PROVE  /\ IsFiniteSet(OthersOn(t, m))
           /\ Cardinality(OthersOn(t, m)) \in Nat
<1>1. OthersOn(t, m) \in SUBSET Models
  BY DEF OthersOn
<1>2. IsFiniteSet(OthersOn(t, m))
  BY <1>1, FS_Subset, ModelTableAssumption
<1>. QED
  BY <1>2, FS_CardinalityType

(* The device of an open model has a reference, and one more if there is   *)
(* another open model on it.                                               *)
LEMMA BackedBounds ==
    ASSUME NEW t \in ModelTables, NEW d \in DeviceTables, BackedBy(t, d),
           NEW m \in Models, t[m].ref_count > 0, t[m].group_id \in Groups
    PROVE  /\ d[t[m].group_id].ref_count >= 1
           /\ d[t[m].group_id].ref_count >= t[m].ref_count
           /\ OthersOn(t, m) # {} => d[t[m].group_id].ref_count >= 2
<1>. DEFINE c == Cardinality(OthersOn(t, m))
<1>1. c \in Nat /\ IsFiniteSet(OthersOn(t, m))
  BY OthersFinite
<1>2. /\ t[m].ref_count \in Nat
      /\ d[t[m].group_id].ref_count \in Nat
      /\ t[m].ref_count + c <= d[t[m].group_id].ref_count
  BY ModelTableAssumption DEF ModelTables, DeviceTables, BackedBy
<1>3. OthersOn(t, m) # {} => c >= 1
  <2>1. c = 0 => OthersOn(t, m) = {}
    BY <1>1, FS_EmptySet
  <2>. QED
    BY <1>1, <2>1
<1>. HIDE DEF c
<1>. QED
  BY <1>1, <1>2, <1>3

(* References that stay or grow on the side of the devices. *)
LEMMA BackedSame ==
    ASSUME NEW t, NEW u, NEW d, NEW e, BackedBy(t, d),
           \A m \in Models : /\ u[m].ref_count = t[m].ref_count
                             /\ u[m].group_id = t[m].group_id
                             /\ t[m].ref_count > 0 =>
                                  e[t[m].group_id].ref_count
                                    = d[t[m].group_id].ref_count
    PROVE  BackedBy(u, e)
<1>1. \A m \in Models : OthersOn(u, m) = OthersOn(t, m)
  BY DEF OthersOn
<1>. QED
  BY <1>1 DEF BackedBy

(* One more reference on both sides, to a model that is open. *)
LEMMA BackedAgain ==
    ASSUME NEW t \in ModelTables, NEW d \in DeviceTables, BackedBy(t, d),
           \A x \in Models : t[x].ref_count > 0 => t[x].group_id \in Groups,
           NEW m \in Models, t[m].ref_count > 0
    PROVE  BackedBy([t EXCEPT ![m].ref_count = @ + 1],
                    [d EXCEPT ![t[m].group_id].ref_count = @ + 1])
<1>. DEFINE u == [t EXCEPT ![m].ref_count = @ + 1]
            e == [d EXCEPT ![t[m].group_id].ref_count = @ + 1]
<1>1. \A x \in Models : /\ u[x].group_id = t[x].group_id
                        /\ u[x].ref_count > 0 <=> t[x].ref_count > 0
                        /\ u[x].ref_count = IF x = m THEN t[x].ref_count + 1
                                                     ELSE t[x].ref_count
  BY DEF ModelTables
<1>2. \A x \in Models : OthersOn(u, x) = OthersOn(t, x)
  BY <1>1 DEF OthersOn
<1>3. \A g \in Groups : e[g].ref_count = IF g = t[m].group_id
                           THEN d[g].ref_count + 1 ELSE d[g].ref_count
  BY DEF DeviceTables
<1>. SUFFICES ASSUME NEW x \in Models, u[x].ref_count > 0
              PROVE  u[x].ref_count + Cardinality(OthersOn(u, x))
                       <= e[u[x].group_id].ref_count
  BY DEF BackedBy
<1>4. /\ t[x].group_id \in Groups
      /\ t[x].ref_count + Cardinality(OthersOn(t, x))
           <= d[t[x].group_id].ref_count
  BY <1>1 DEF BackedBy
<1>5. /\ Cardinality(OthersOn(t, x)) \in Nat
      /\ t[x].ref_count \in Nat
      /\ d[t[x].group_id].ref_count \in Nat
  BY <1>4, OthersFinite, ModelTableAssumption DEF ModelTables, DeviceTables
<1>. HIDE DEF u, e
<1>. QED
  BY <1>1, <1>2, <1>3, <1>4, <1>5

(* A model is opened: a reference on both sides. *)
LEMMA BackedNew ==
    ASSUME NEW t \in ModelTables, NEW d \in DeviceTables, BackedBy(t, d),
           \A x \in Models : t[x].ref_count > 0 => t[x].group_id \in Groups,
           NEW m \in Models, ~ (t[m].ref_count > 0), NEW g \in Groups
    PROVE  BackedBy([t EXCEPT ![m] = [Closed EXCEPT !.ref_count = 1,
                                                    !.group_id = g]],
                    [d EXCEPT ![g].ref_count = @ + 1])
<1>. DEFINE u == [t EXCEPT ![m] = [Closed EXCEPT !.ref_count = 1, !.group_id = g]]
            e == [d EXCEPT ![g].ref_count = @ + 1]
<1>1. /\ u[m].ref_count = 1 /\ u[m].group_id = g
      /\ \A x \in Models \ {m} : u[x] = t[x]
  BY DEF ModelTables, Closed
<1>2. \A h \in Groups : e[h].ref_count = IF h = g THEN d[h].ref_count + 1
                                                 ELSE d[h].ref_count
  BY DEF DeviceTables
<1>. HIDE DEF u, e
<1>3. 1 + Cardinality(OthersOn(u, m)) <= e[g].ref_count
  <2>1. Cardinality(OthersOn(u, m)) \in Nat /\ IsFiniteSet(OthersOn(u, m))
    BY OthersFinite
  <2>2. d[g].ref_count \in Nat
    BY ModelTableAssumption DEF DeviceTables
  <2>3. CASE OthersOn(u, m) = {}
    BY <1>2, <2>2, <2>3, FS_EmptySet
  <2>4. CASE OthersOn(u, m) # {}
    <3>1. PICK o \in OthersOn(u, m) : TRUE
      BY <2>4
    <3>2. /\ o \in Models \ {m}
          /\ t[o].ref_count > 0
          /\ t[o].group_id = g
      BY <1>1, <3>1 DEF OthersOn
    <3>3. OthersOn(t, o) = OthersOn(u, m) \ {o}
      BY <1>1, <3>2 DEF OthersOn
    <3>4. Cardinality(OthersOn(t, o)) = Cardinality(OthersOn(u, m)) - 1
      BY <2>1, <3>1, <3>3, FS_RemoveElement
    <3>5. t[o].ref_count + Cardinality(OthersOn(t, o)) <= d[g].ref_count
      BY <3>2 DEF BackedBy
    <3>6. t[o].ref_count \in Nat
      BY <3>2 DEF ModelTables
    <3>. QED
      BY <1>2, <2>1, <2>2, <3>2, <3>4, <3>5, <3>6
  <2>. QED
    BY <2>3, <2>4
<1>4. ASSUME NEW x \in Models \ {m}, t[x].ref_count > 0
      PROVE  t[x].ref_count + Cardinality(OthersOn(u, x))
               <= e[t[x].group_id].ref_count
  <2>1. /\ Cardinality(OthersOn(t, x)) \in Nat
        /\ IsFiniteSet(OthersOn(t, x))
        /\ t[x].ref_count \in Nat
        /\ t[x].group_id \in Groups
        /\ d[t[x].group_id].ref_count \in Nat
    BY <1>4, OthersFinite, ModelTableAssumption DEF ModelTables, DeviceTables
  <2>2. t[x].ref_count + Cardinality(OthersOn(t, x)) <= d[t[x].group_id].ref_count
    BY <1>4 DEF BackedBy
  <2>3. CASE t[x].group_id = g
    <3>1. OthersOn(u, x) = OthersOn(t, x) \cup {m}
      BY <1>1, <1>4, <2>3 DEF OthersOn
    <3>2. m \notin OthersOn(t, x)
      BY DEF OthersOn
    <3>3. Cardinality(OthersOn(u, x)) = Cardinality(OthersOn(t, x)) + 1
      BY <2>1, <3>1, <3>2, FS_AddElement
    <3>. QED
      BY <1>2, <2>1, <2>2, <2>3, <3>3
  <2>4. CASE t[x].group_id # g
    <3>1. OthersOn(u, x) = OthersOn(t, x)
      BY <1>1, <1>4, <2>4 DEF OthersOn
    <3>. QED
      BY <1>2, <2>1, <2>2, <2>4, <3>1
  <2>. QED
    BY <2>3, <2>4
<1>. QED
  BY <1>1, <1>3, <1>4 DEF BackedBy, u, e

(* The last close of a model: one reference less to its device. *)
LEMMA BackedClose ==
    ASSUME NEW t \in ModelTables, NEW d \in DeviceTables, BackedBy(t, d),
           \A x \in Models : t[x].ref_count > 0 => t[x].group_id \in Groups,
           NEW m \in Models, t[m].ref_count > 0,
           NEW e, \A h \in Groups : e[h].ref_count = IF h = t[m].group_id
                       THEN d[h].ref_count - 1 ELSE d[h].ref_count
    PROVE  BackedBy([t EXCEPT ![m] = Closed], e)
<1>. DEFINE u == [t EXCEPT ![m] = Closed]
<1>1. /\ u[m].ref_count = 0
      /\ \A x \in Models \ {m} : u[x] = t[x]
  BY DEF ModelTables, Closed
<1>. HIDE DEF u
<1>2. ASSUME NEW x \in Models \ {m}, t[x].ref_count > 0
      PROVE  t[x].ref_count + Cardinality(OthersOn(u, x))
               <= e[t[x].group_id].ref_count
  <2>1. /\ Cardinality(OthersOn(t, x)) \in Nat
        /\ IsFiniteSet(OthersOn(t, x))
        /\ t[x].ref_count \in Nat
        /\ t[x].group_id \in Groups
        /\ d[t[x].group_id].ref_count \in Nat
    BY <1>2, OthersFinite, ModelTableAssumption DEF ModelTables, DeviceTables
  <2>2. t[x].ref_count + Cardinality(OthersOn(t, x)) <= d[t[x].group_id].ref_count
    BY <1>2 DEF BackedBy
  <2>3. OthersOn(u, x) = OthersOn(t, x) \ {m}
    BY <1>1, <1>2 DEF OthersOn
  <2>4. CASE t[x].group_id = t[m].group_id
    <3>1. m \in OthersOn(t, x)
      BY <1>2, <2>4 DEF OthersOn
    <3>2. Cardinality(OthersOn(u, x)) = Cardinality(OthersOn(t, x)) - 1
      BY <2>1, <2>3, <3>1, FS_RemoveElement
    <3>3. e[t[x].group_id].ref_count = d[t[x].group_id].ref_count - 1
      BY <2>1, <2>4
    <3>. QED
      BY <2>1, <2>2, <3>2, <3>3
  <2>5. CASE t[x].group_id # t[m].group_id
    <3>1. OthersOn(u, x) = OthersOn(t, x)
      BY <2>3, <2>5 DEF OthersOn
    <3>2. e[t[x].group_id].ref_count = d[t[x].group_id].ref_count
      BY <2>1, <2>5
    <3>. QED
      BY <2>2, <3>1, <3>2
  <2>. QED
    BY <2>4, <2>5
<1>3. ASSUME NEW x \in Models, u[x].ref_count > 0
      PROVE  u[x].ref_count + Cardinality(OthersOn(u, x)) <= e[u[x].group_id].ref_count
  <2>1. x # m
    BY <1>1, <1>3
  <2>. QED
    BY <1>1, <1>2, <1>3, <2>1
<1>4. BackedBy(u, e)
  BY <1>3 DEF BackedBy
<1>. QED
  BY <1>4 DEF u

-----------------------------------------------------------------------------
(* Attaching gives the MPU group the model has, or one that is not busy.   *)
LEMMA AttachResult ==
    ASSUME Inv, NEW m \in Models, IsOpen(m)
    PROVE  /\ Attach(m) \in MpuGroups \cup {None}
           /\ model[m].mpu_group_id # None => Attach(m) = model[m].mpu_group_id
           /\ model[m].mpu_group_id = None /\ Attach(m) # None
                => Attach(m) \notin dev[Group(m)].busy
<1>1. Group(m) \in Groups
  BY DEF Inv, OpenOrClosed
<1>2. /\ model[m].mpu_group_id \in MpuGroups \cup {None}
      /\ hw[Group(m)].group_count \in 1 .. MaxMpuGroups
  BY <1>1 DEF Inv, TypeInv, ModelTables
<1>. DEFINE idle == IdleMpuGroups(Group(m))
<1>3. idle \in SUBSET Nat /\ idle \subseteq MpuGroups
  BY <1>2, ModelTableAssumption DEF IdleMpuGroups, MpuGroups
<1>4. idle # {} => Min(idle) \in MpuGroups /\ Min(idle) \notin dev[Group(m)].busy
  <2>1. idle # {} => Min(idle) \in idle
    BY <1>3, LeastExists
  <2>. QED
    BY <1>3, <2>1 DEF IdleMpuGroups
<1>. HIDE DEF idle
<1>5. Attach(m) = IF model[m].mpu_group_id # None THEN model[m].mpu_group_id
                  ELSE IF idle = {} THEN None ELSE Min(idle)
  BY DEF Attach, idle
<1>. QED
  BY <1>2, <1>4, <1>5

(* What loading to the chips changes, whatever gets loaded. *)
LEMMA LoadKeeps ==
    ASSUME Inv, NEW m \in Models, IsOpen(m), NEW parts, NEW done,
           Load(m, parts, done), hw' = hw
    PROVE  /\ g_last_model_id' \in Holders => TypeInv'
           /\ OpenOrClosed' /\ Backed' /\ AttachedExclusively'
           /\ \A x \in Models : IsOpen(x)' <=> IsOpen(x)
<1>. DEFINE g == Group(m)
            i == Attach(m)
            c == hw[g].chip[i]
<1>1. g \in Groups
  BY DEF Inv, OpenOrClosed
<1>2. CASE i = None
  <2>1. UNCHANGED <<model, dev, hw, chips>>
    BY <1>2 DEF Load
  <2>. QED
    BY <2>1 DEF Inv, TypeInv, OpenOrClosed, Backed, AttachedExclusively, IsOpen,
                Group
<1>3. CASE i # None
  <2>1. i \in MpuGroups /\ c \in MpuGroups
    BY <1>1, <1>3, AttachResult DEF Inv, TypeInv
  <2>2. /\ model' = [model EXCEPT ![m].mpu_group_id = i]
        /\ dev' = [dev EXCEPT ![g].busy = @ \cup {i}]
    BY <1>3 DEF Load
  <2>. DEFINE failed == IF done = parts THEN {}
                       ELSE IF "wtmem" \in parts \ done THEN {"wtmem"}
                       ELSE {"config"}
  <2>3. chips' = [chips EXCEPT ![g][c] = [p \in Parts |->
            IF p \in done THEN m ELSE IF p \in failed THEN None ELSE @[p]]]
    BY <1>3, Zenon DEF Load
  <2>. HIDE DEF failed
  <2>4. chips' \in [Groups -> [MpuGroups -> [Parts -> Holders]]]
    <3>. DEFINE new == [p \in Parts |-> IF p \in done THEN m
                           ELSE IF p \in failed THEN None ELSE chips[g][c][p]]
    <3>2. chips \in [Groups -> [MpuGroups -> [Parts -> Holders]]]
      BY DEF Inv, TypeInv
    <3>3. new \in [Parts -> Holders]
      BY <1>1, <2>1, <3>2 DEF Holders
    <3>4. chips' = [chips EXCEPT ![g][c] = new]
      BY <2>3
    <3>. HIDE DEF new, g, c
    <3>. QED
      BY <1>1, <2>1, <3>2, <3>3, <3>4
  <2>5. model' \in ModelTables /\ dev' \in DeviceTables
    <3>. HIDE DEF g, i, c
    <3>1. model' \in ModelTables
      BY <2>1, <2>2 DEF Inv, TypeInv, ModelTables
    <3>2. dev[g] \in [ref_count : 0 .. MaxRef, busy : SUBSET MpuGroups]
      BY <1>1 DEF Inv, TypeInv, DeviceTables
    <3>3. [dev[g] EXCEPT !.busy = @ \cup {i}]
            \in [ref_count : 0 .. MaxRef, busy : SUBSET MpuGroups]
      BY <2>1, <3>2
    <3>4. dev' \in DeviceTables
      BY <1>1, <2>2, <3>3 DEF Inv, TypeInv, DeviceTables
    <3>. QED
      BY <3>1, <3>4
  <2>6. \A x \in Models : /\ model'[x].ref_count = model[x].ref_count
                          /\ model'[x].group_id = model[x].group_id
                          /\ model'[x].mpu_group_id =
                               IF x = m THEN i ELSE model[x].mpu_group_id
                          /\ x # m => model'[x] = model[x]
    BY <2>2 DEF Inv, TypeInv, ModelTables
  <2>7. \A h \in Groups : /\ dev'[h].ref_count = dev[h].ref_count
                          /\ dev'[h].busy = IF h = g THEN dev[h].busy \cup {i}
                                                     ELSE dev[h].busy
    BY <1>1, <2>2 DEF Inv, TypeInv, DeviceTables
  <2>8. OpenOrClosed'
    BY <2>6 DEF Inv, OpenOrClosed, IsOpen, Group
  <2>9. Backed'
    <3>1. \A x \in Models : model[x].ref_count > 0 => model[x].group_id \in Groups
      BY DEF Inv, OpenOrClosed, IsOpen, Group
    <3>. DEFINE u == model'
                e == dev'
    <3>. HIDE DEF u, e
    <3>2. \A x \in Models : /\ u[x].ref_count = model[x].ref_count
                            /\ u[x].group_id = model[x].group_id
                            /\ model[x].ref_count > 0 =>
                                 e[model[x].group_id].ref_count
                                   = dev[model[x].group_id].ref_count
      BY <2>6, <2>7, <3>1 DEF u, e
    <3>3. BackedBy(u, e)
      BY <3>2, BackedSame DEF Inv, Backed
    <3>. QED
      BY <3>3 DEF Backed, BackedBy, OthersOn, u, e
  <2>10. AttachedExclusively'
    <3>1. /\ model[m].mpu_group_id # None => i = model[m].mpu_group_id
          /\ model[m].mpu_group_id = None => i \notin dev[g].busy
      BY <1>3, AttachResult
    <3>2. /\ \A x \in Models : model[x].mpu_group_id # None
                                => model[x].group_id \in Groups
          /\ g = model[m].group_id
      BY <1>1 DEF Inv, OpenOrClosed, IsOpen, Group, Closed
    <3>3. \A x \in Models : model[x].mpu_group_id # None =>
            /\ model[x].mpu_group_id \in dev[model[x].group_id].busy
            /\ \A other \in Models \ {x} :
                 ~ /\ model[other].group_id = model[x].group_id
                   /\ model[other].mpu_group_id = model[x].mpu_group_id
      BY DEF Inv, AttachedExclusively, Group
    <3>. HIDE DEF g, i, c
    <3>4. \A x \in Models : model'[x].mpu_group_id # None =>
            model'[x].mpu_group_id \in dev'[model'[x].group_id].busy
      <4>1. model'[m].mpu_group_id \in dev'[model'[m].group_id].busy
        BY <1>1, <2>6, <2>7, <3>2
      <4>2. ASSUME NEW x \in Models \ {m}, model[x].mpu_group_id # None
            PROVE  model'[x].mpu_group_id \in dev'[model'[x].group_id].busy
        <5>1. /\ model[x].group_id \in Groups
              /\ model[x].mpu_group_id \in dev[model[x].group_id].busy
          BY <3>2, <3>3, <4>2
        <5>2. dev[model[x].group_id].busy \subseteq dev'[model[x].group_id].busy
          BY <2>7, <5>1
        <5>3. model'[x] = model[x]
          BY <2>6
        <5>. QED
          BY <5>1, <5>2, <5>3
      <4>. QED
        BY <2>6, <4>1, <4>2
    <3>5. ASSUME NEW x \in Models \ {m}, model[x].group_id = g,
                 model[x].mpu_group_id = i
          PROVE  FALSE
      <4>1. i \in dev[g].busy
        BY <1>3, <3>3, <3>5
      <4>2. model[m].mpu_group_id = i
        BY <3>1, <4>1
      <4>. QED
        BY <1>3, <3>2, <3>3, <3>5, <4>2
    <3>6. \A x \in Models : model'[x].mpu_group_id # None =>
            \A other \in Models \ {x} :
                 ~ /\ model'[other].group_id = model'[x].group_id
                   /\ model'[other].mpu_group_id = model'[x].mpu_group_id
      BY <2>6, <3>2, <3>3, <3>5
    <3>. QED
      BY <3>4, <3>6 DEF AttachedExclusively, Group
  <2>. QED
    BY <2>4, <2>5, <2>6, <2>8, <2>9, <2>10 DEF Inv, TypeInv, IsOpen
<1>. QED
  BY <1>2, <1>3

(* What is attached stays attached to one model, if a step attaches none   *)
(* and leaves the MPU groups of the models that keep theirs busy.          *)
LEMMA AttachedKept ==
    ASSUME Inv, NEW u, NEW e,
           \A x \in Models : u[x].mpu_group_id # None =>
              /\ u[x].mpu_group_id = model[x].mpu_group_id
              /\ u[x].group_id = model[x].group_id
              /\ IsOpen(x) /\ Group(x) \in Groups
                   => model[x].mpu_group_id \in e[Group(x)].busy,
           NEW x \in Models, u[x].mpu_group_id # None
    PROVE  /\ u[x].mpu_group_id \in e[u[x].group_id].busy
           /\ \A other \in Models \ {x} :
                ~ /\ u[other].group_id = u[x].group_id
                  /\ u[other].mpu_group_id = u[x].mpu_group_id
<1>1. IsOpen(x) /\ Group(x) \in Groups
  BY DEF Inv, OpenOrClosed, Closed
<1>2. u[x].mpu_group_id \in e[u[x].group_id].busy
  BY <1>1 DEF Group
<1>3. ASSUME NEW other \in Models \ {x}, u[other].group_id = u[x].group_id,
             u[other].mpu_group_id = u[x].mpu_group_id
      PROVE  FALSE
  <2>1. /\ model[other].group_id = model[x].group_id
        /\ model[other].mpu_group_id = model[x].mpu_group_id
        /\ model[x].mpu_group_id # None
    BY <1>3
  <2>. QED
    BY <2>1 DEF Inv, AttachedExclusively, Group
<1>. QED
  BY <1>2, <1>3

(* The same of the next state. *)
LEMMA AttachedNext ==
    ASSUME Inv,
           \A x \in Models : model'[x].mpu_group_id # None =>
              /\ model'[x].mpu_group_id = model[x].mpu_group_id
              /\ model'[x].group_id = model[x].group_id
              /\ IsOpen(x) /\ Group(x) \in Groups
                   => model[x].mpu_group_id \in dev'[Group(x)].busy
    PROVE  AttachedExclusively'
<1>. DEFINE u == model'
            e == dev'
<1>1. \A x \in Models : u[x].mpu_group_id # None =>
              /\ u[x].mpu_group_id = model[x].mpu_group_id
              /\ u[x].group_id = model[x].group_id
              /\ IsOpen(x) /\ Group(x) \in Groups
                   => model[x].mpu_group_id \in e[Group(x)].busy
  OBVIOUS
<1>. HIDE DEF u, e
<1>2. ASSUME NEW x \in Models, u[x].mpu_group_id # None
      PROVE  /\ u[x].mpu_group_id \in e[u[x].group_id].busy
             /\ \A other \in Models \ {x} :
                  ~ /\ u[other].group_id = u[x].group_id
                    /\ u[other].mpu_group_id = u[x].mpu_group_id
  BY <1>1, <1>2, AttachedKept
<1>. QED
  BY <1>2 DEF AttachedExclusively, Group, u, e

(* BackedBy for the next values of the tables. *)
LEMMA BackedNext ==
    ASSUME NEW u, NEW e, BackedBy(u, e), model' = u, dev' = e
    PROVE  Backed'
BY DEF Backed, BackedBy, OthersOn

(* What Inv says of an open model and its device. *)
LEMMA OpenModel ==
    ASSUME Inv
    PROVE  /\ \A x \in Models : model[x].ref_count > 0 => model[x].group_id \in Groups
           /\ \A x \in Models : ~ IsOpen(x) => model[x] = Closed
           /\ \A x \in Models : model[x].mpu_group_id # None => IsOpen(x)
           /\ \A x \in Models : model[x].mpu_group_id # None
                => model[x].mpu_group_id \in dev[Group(x)].busy
           /\ model \in ModelTables /\ dev \in DeviceTables /\ BackedBy(model, dev)
BY DEF Inv, TypeInv, OpenOrClosed, Backed, AttachedExclusively, IsOpen, Group, Closed

-----------------------------------------------------------------------------
(* Each operation keeps the invariant: first, the open of a new model. *)
LEMMA OpenNewStep ==
    ASSUME Inv, NEW m \in Models, NEW g \in Groups, OpenNew(m, g)
    PROVE  Inv'
<1>. DEFINE u == [model EXCEPT ![m] = [Closed EXCEPT !.ref_count = 1, !.group_id = g]]
            e == [dev EXCEPT ![g].ref_count = @ + 1]
<1>1. model' = u /\ dev' = e /\ dev[g].ref_count < MaxRef /\ ~ IsOpen(m)
  BY DEF OpenNew, Taken
<1>2. /\ u[m] = [ref_count |-> 1, group_id |-> g, mpu_group_id |-> None]
      /\ \A x \in Models \ {m} : u[x] = model[x]
  BY OpenModel DEF ModelTables, Closed
<1>3. BackedBy(u, e)
  BY <1>1, OpenModel, BackedNew DEF IsOpen
<1>4. dev[g] \in [ref_count : 0 .. MaxRef, busy : SUBSET MpuGroups]
  BY OpenModel DEF DeviceTables
<1>5. e \in DeviceTables
  <2>1. [dev[g] EXCEPT !.ref_count = @ + 1]
          \in [ref_count : 0 .. MaxRef, busy : SUBSET MpuGroups]
    BY <1>1, <1>4, ModelTableAssumption
  <2>. QED
    BY <2>1, OpenModel DEF DeviceTables
<1>6. u \in ModelTables
  BY OpenModel DEF ModelTables, Closed
<1>7. \A h \in Groups : e[h].busy = dev[h].busy
  BY OpenModel DEF DeviceTables
<1>. HIDE DEF u, e
<1>8. TypeInv'
  BY <1>1, <1>5, <1>6 DEF Inv, TypeInv, OpenNew
<1>9. OpenOrClosed'
  BY <1>1, <1>2 DEF Inv, OpenOrClosed, IsOpen, Group
<1>10. Backed'
  BY <1>1, <1>3, BackedNext
<1>11. LastIsOpen'
  BY <1>1, <1>2 DEF Inv, TypeInv, Holders, LastIsOpen, IsOpen, OpenNew
<1>12. AttachedExclusively'
  BY <1>1, <1>2, <1>7, OpenModel, AttachedNext DEF Group
<1>. QED
  BY <1>8, <1>9, <1>10, <1>11, <1>12 DEF Inv

(* An open of a model that is open. *)
LEMMA OpenAgainStep ==
    ASSUME Inv, NEW m \in Models, OpenAgain(m)
    PROVE  Inv'
<1>. DEFINE u == [model EXCEPT ![m].ref_count = @ + 1]
            e == [dev EXCEPT ![model[m].group_id].ref_count = @ + 1]
<1>1. /\ model' = u /\ dev' = e /\ IsOpen(m) /\ model[m].group_id \in Groups
      /\ dev[model[m].group_id].ref_count < MaxRef
  BY OpenModel DEF OpenAgain, Taken, Group, IsOpen
<1>2. BackedBy(u, e)
  BY <1>1, OpenModel, BackedAgain DEF IsOpen
<1>3. e \in DeviceTables
  <2>1. dev[model[m].group_id] \in [ref_count : 0 .. MaxRef, busy : SUBSET MpuGroups]
    BY <1>1, OpenModel DEF DeviceTables
  <2>2. [dev[model[m].group_id] EXCEPT !.ref_count = @ + 1]
          \in [ref_count : 0 .. MaxRef, busy : SUBSET MpuGroups]
    BY <1>1, <2>1, ModelTableAssumption
  <2>. QED
    BY <1>1, <2>2, OpenModel DEF DeviceTables
<1>4. u \in ModelTables
  BY OpenModel DEF ModelTables
<1>5. \A h \in Groups : e[h].busy = dev[h].busy
  BY OpenModel DEF DeviceTables
<1>6. \A x \in Models : /\ u[x].group_id = model[x].group_id
                        /\ u[x].mpu_group_id = model[x].mpu_group_id
                        /\ u[x].ref_count > 0 <=> model[x].ref_count > 0
                        /\ x # m => u[x] = model[x]
  BY <1>1, OpenModel DEF ModelTables, IsOpen
<1>. HIDE DEF u, e
<1>7. TypeInv'
  BY <1>1, <1>3, <1>4 DEF Inv, TypeInv, OpenAgain
<1>8. OpenOrClosed'
  BY <1>1, <1>6 DEF Inv, OpenOrClosed, IsOpen, Group
<1>9. Backed'
  BY <1>1, <1>2, BackedNext
<1>10. LastIsOpen'
  BY <1>1, <1>6 DEF Inv, TypeInv, Holders, LastIsOpen, IsOpen, OpenAgain
<1>11. AttachedExclusively'
  BY <1>1, <1>5, <1>6, OpenModel, AttachedNext DEF Group
<1>. QED
  BY <1>7, <1>8, <1>9, <1>10, <1>11 DEF Inv

(* A close that is not the last one. *)
LEMMA CloseOneStep ==
    ASSUME Inv, NEW m \in Models, Close(m), model[m].ref_count > 1
    PROVE  Inv'
<1>. DEFINE u == [model EXCEPT ![m].ref_count = @ - 1]
<1>1. model' = u /\ dev' = dev /\ g_last_model_id' = None
  BY OpenModel DEF Close, IsOpen, ModelTables
<1>2. \A x \in Models : /\ u[x].group_id = model[x].group_id
                        /\ u[x].mpu_group_id = model[x].mpu_group_id
                        /\ u[x].ref_count > 0 <=> model[x].ref_count > 0
                        /\ u[x].ref_count = IF x = m THEN model[x].ref_count - 1
                                                     ELSE model[x].ref_count
                        /\ x # m => u[x] = model[x]
  BY OpenModel DEF ModelTables
<1>3. u \in ModelTables
  BY OpenModel DEF ModelTables
<1>. HIDE DEF u
<1>4. ASSUME NEW x \in Models, u[x].ref_count > 0
      PROVE  u[x].ref_count + Cardinality(OthersOn(u, x))
               <= dev[u[x].group_id].ref_count
  <2>1. OthersOn(u, x) = OthersOn(model, x)
    BY <1>2 DEF OthersOn
  <2>2. model[x].ref_count + Cardinality(OthersOn(model, x))
          <= dev[model[x].group_id].ref_count
    BY <1>2, <1>4, OpenModel DEF BackedBy
  <2>3. /\ model[x].ref_count \in Nat
        /\ Cardinality(OthersOn(model, x)) \in Nat
        /\ dev[model[x].group_id].ref_count \in Nat
    BY <1>2, <1>4, OpenModel, OthersFinite, ModelTableAssumption
    DEF ModelTables, DeviceTables
  <2>. QED
    BY <1>2, <2>1, <2>2, <2>3
<1>5. BackedBy(u, dev)
  BY <1>4 DEF BackedBy
<1>6. TypeInv'
  BY <1>1, <1>3 DEF Inv, TypeInv, Close, Holders
<1>7. OpenOrClosed'
  <2>1. model[m].ref_count > 0
    BY OpenModel DEF ModelTables
  <2>2. \A x \in Models : IF u[x].ref_count > 0 THEN u[x].group_id \in Groups
                                               ELSE u[x] = Closed
    BY <1>2, <2>1, OpenModel DEF IsOpen
  <2>. QED
    BY <1>1, <2>2 DEF OpenOrClosed, IsOpen, Group
<1>8. Backed'
  BY <1>1, <1>5, BackedNext
<1>9. LastIsOpen'
  BY <1>1 DEF LastIsOpen
<1>10. AttachedExclusively'
  BY <1>1, <1>2, OpenModel, AttachedNext DEF Group
<1>. QED
  BY <1>6, <1>7, <1>8, <1>9, <1>10 DEF Inv

(* The close that destroys the model. *)
LEMMA CloseLastStep ==
    ASSUME Inv, NEW m \in Models, Close(m), model[m].ref_count = 1
    PROVE  Inv'
<1>. DEFINE u == [model EXCEPT ![m] = Closed]
            k == model[m].group_id
            e == [dev EXCEPT ![k] = Released(@)]
<1>1. model' = u /\ dev' = e /\ g_last_model_id' = None
  BY DEF Close, IsOpen, Group
<1>2. /\ k \in Groups /\ dev[k] \in [ref_count : 0 .. MaxRef, busy : SUBSET MpuGroups]
      /\ dev[k].ref_count \in Nat /\ dev[k].ref_count >= 1
  BY OpenModel, BackedBounds, ModelTableAssumption DEF DeviceTables
<1>3. /\ Released(dev[k]) \in [ref_count : 0 .. MaxRef, busy : SUBSET MpuGroups]
      /\ Released(dev[k]).ref_count = dev[k].ref_count - 1
      /\ dev[k].ref_count >= 2 => Released(dev[k]).busy = dev[k].busy
  BY <1>2, ModelTableAssumption DEF Released, NoDevice
<1>. HIDE DEF k
<1>4. e \in DeviceTables
  BY <1>2, <1>3, OpenModel DEF DeviceTables
<1>5. \A h \in Groups : /\ e[h].ref_count = IF h = k THEN dev[h].ref_count - 1
                                                     ELSE dev[h].ref_count
                        /\ h # k \/ dev[k].ref_count >= 2 => e[h].busy = dev[h].busy
  BY <1>2, <1>3, OpenModel DEF DeviceTables
<1>6. u \in ModelTables
  BY OpenModel DEF ModelTables, Closed
<1>7. u[m] = Closed /\ \A x \in Models \ {m} : u[x] = model[x]
  BY OpenModel DEF ModelTables
<1>8. BackedBy(u, e)
  <2>. HIDE DEF e
  <2>1. model[m].ref_count > 0
    OBVIOUS
  <2>2. \A h \in Groups : e[h].ref_count = IF h = model[m].group_id
                       THEN dev[h].ref_count - 1 ELSE dev[h].ref_count
    BY <1>5 DEF k
  <2>. QED
    BY <2>1, <2>2, OpenModel, BackedClose
<1>9. ASSUME NEW x \in Models \ {m}, IsOpen(x), Group(x) = k
      PROVE  dev[k].ref_count >= 2
  <2>1. x \in OthersOn(model, m)
    BY <1>9 DEF OthersOn, IsOpen, Group, k
  <2>. QED
    BY <1>2, <2>1, OpenModel, BackedBounds DEF k
<1>. HIDE DEF u, e
<1>10. TypeInv'
  BY <1>1, <1>4, <1>6 DEF Inv, TypeInv, Close, Holders
<1>11. OpenOrClosed'
  BY <1>1, <1>7 DEF Inv, OpenOrClosed, IsOpen, Group, Closed
<1>12. Backed'
  BY <1>1, <1>8, BackedNext
<1>13. LastIsOpen'
  BY <1>1 DEF LastIsOpen
<1>14. ASSUME NEW x \in Models, u[x].mpu_group_id # None
       PROVE  /\ u[x] = model[x]
              /\ IsOpen(x) /\ Group(x) \in Groups
                   => model[x].mpu_group_id \in e[Group(x)].busy
  <2>1. x # m
    BY <1>7, <1>14 DEF Closed
  <2>2. /\ u[x] = model[x] /\ IsOpen(x)
        /\ model[x].mpu_group_id \in dev[Group(x)].busy
    BY <1>7, <1>14, <2>1, OpenModel
  <2>3. Group(x) = k => dev[k].ref_count >= 2
    BY <1>9, <2>1, <2>2
  <2>4. Group(x) \in Groups => e[Group(x)].busy = dev[Group(x)].busy
    BY <1>5, <2>3
  <2>. QED
    BY <2>2, <2>4
<1>15. AttachedExclusively'
  BY <1>1, <1>14, AttachedNext
<1>. QED
  BY <1>10, <1>11, <1>12, <1>13, <1>15 DEF Inv

(* The downloads: what is loaded, and who is noted. *)
LEMMA DownloadStep ==
    ASSUME Inv, NEW m \in Models, Download(m)
    PROVE  Inv'
<1>1. \/ UNCHANGED <<model, dev, hw, chips, g_last_model_id>>
      \/ /\ IsOpen(m) /\ hw' = hw
         /\ g_last_model_id' \in {g_last_model_id, m}
         /\ \/ \E parts, done : Load(m, parts, done)
            \/ UNCHANGED <<model, dev, chips>>
  BY DEF Download, DownloadSkipped, DownloadModel, DownloadFromCache,
         DownloadBadFile, DownloadPart
<1>2. CASE UNCHANGED <<model, dev, hw, chips, g_last_model_id>>
  BY <1>2 DEF Inv, TypeInv, OpenOrClosed, Backed, LastIsOpen,
              AttachedExclusively, IsOpen, Group
<1>3. CASE /\ IsOpen(m) /\ hw' = hw
           /\ g_last_model_id' \in {g_last_model_id, m}
           /\ UNCHANGED <<model, dev, chips>>
  BY <1>3 DEF Inv, TypeInv, OpenOrClosed, Backed, LastIsOpen, Holders,
              AttachedExclusively, IsOpen, Group
<1>4. ASSUME IsOpen(m), hw' = hw, g_last_model_id' \in {g_last_model_id, m},
             NEW parts, NEW done, Load(m, parts, done)
      PROVE  Inv'
  <2>1. g_last_model_id' \in Holders
    BY <1>4 DEF Inv, TypeInv, Holders
  <2>2. /\ TypeInv' /\ OpenOrClosed' /\ Backed' /\ AttachedExclusively'
        /\ \A x \in Models : IsOpen(x)' <=> IsOpen(x)
    BY <1>4, <2>1, LoadKeeps
  <2>3. LastIsOpen'
    <3>1. g_last_model_id' # None =>
            g_last_model_id' \in Models /\ IsOpen(g_last_model_id')
      BY <1>4, <2>1 DEF Inv, LastIsOpen, Holders
    <3>. QED
      BY <2>2, <3>1 DEF LastIsOpen, IsOpen
  <2>. QED
    BY <2>2, <2>3 DEF Inv
<1>. QED
  BY <1>1, <1>2, <1>3, <1>4

(* memx_set_stream_disable. *)
LEMMA DisableStep ==
    ASSUME Inv, NEW m \in Models, Disable(m)
    PROVE  Inv'
<1>. DEFINE u == [model EXCEPT ![m].mpu_group_id = Unattached(m)]
            k == Group(m)
            i == model[m].mpu_group_id
            e == [dev EXCEPT ![k].busy = @ \ {i}]
<1>1. model' = u /\ dev' = e /\ IsOpen(m) /\ g_last_model_id' = g_last_model_id
  BY DEF Disable
<1>2. k \in Groups /\ k = model[m].group_id
  BY <1>1 DEF Inv, OpenOrClosed, Group
<1>. HIDE DEF k, i
<1>3. u \in ModelTables
  BY OpenModel DEF ModelTables, Unattached
<1>4. e \in DeviceTables
  <2>1. [dev[k] EXCEPT !.busy = @ \ {i}]
          \in [ref_count : 0 .. MaxRef, busy : SUBSET MpuGroups]
    BY <1>2, OpenModel DEF DeviceTables
  <2>. QED
    BY <1>2, <2>1, OpenModel DEF DeviceTables
<1>5. \A x \in Models : /\ u[x].ref_count = model[x].ref_count
                        /\ u[x].group_id = model[x].group_id
                        /\ x # m => u[x] = model[x]
  BY OpenModel DEF ModelTables
<1>6. u[m].mpu_group_id = None
  BY OpenModel DEF ModelTables, Unattached
<1>7. \A h \in Groups : /\ e[h].ref_count = dev[h].ref_count
                        /\ e[h].busy = IF h = k THEN dev[h].busy \ {i}
                                                ELSE dev[h].busy
  BY <1>2, OpenModel DEF DeviceTables
<1>. HIDE DEF u, e
<1>8. BackedBy(u, e)
  <2>1. \A x \in Models : /\ u[x].ref_count = model[x].ref_count
                          /\ u[x].group_id = model[x].group_id
                          /\ model[x].ref_count > 0 =>
                               e[model[x].group_id].ref_count
                                 = dev[model[x].group_id].ref_count
    BY <1>5, <1>7, OpenModel
  <2>. QED
    BY <2>1, OpenModel, BackedSame
<1>9. ASSUME NEW x \in Models, u[x].mpu_group_id # None
      PROVE  /\ u[x] = model[x]
             /\ IsOpen(x) /\ Group(x) \in Groups
                  => model[x].mpu_group_id \in e[Group(x)].busy
  <2>1. x # m
    BY <1>6, <1>9
  <2>2. u[x] = model[x]
    BY <1>5, <2>1
  <2>3. model[x].mpu_group_id \in dev[Group(x)].busy
    BY <1>9, <2>2, OpenModel
  <2>4. Group(x) = k => model[x].mpu_group_id # i
    BY <1>9, <2>1, <2>2 DEF Inv, AttachedExclusively, k, i
  <2>. QED
    BY <1>7, <2>2, <2>3, <2>4
<1>10. TypeInv'
  BY <1>1, <1>3, <1>4 DEF Inv, TypeInv, Disable
<1>11. OpenOrClosed'
  BY <1>1, <1>2, <1>5, OpenModel DEF Inv, OpenOrClosed, IsOpen, Group
<1>12. Backed'
  BY <1>1, <1>8, BackedNext
<1>13. LastIsOpen'
  BY <1>1, <1>5 DEF Inv, TypeInv, Holders, LastIsOpen, IsOpen
<1>14. AttachedExclusively'
  BY <1>1, <1>9, AttachedNext
<1>. QED
  BY <1>10, <1>11, <1>12, <1>13, <1>14 DEF Inv

(* The reference that memx_config_mpu_group takes and gives back.          *)
LEMMA ConfigDevice ==
    ASSUME Inv, NEW g \in Groups, NEW r,
           r = IF dev[g].ref_count = 0 THEN NoDevice ELSE dev[g],
           dev' = [dev EXCEPT ![g] = r], model' = model
    PROVE  dev' \in DeviceTables /\ Backed' /\ AttachedExclusively'
<1>. DEFINE e == [dev EXCEPT ![g] = r]
<1>1. dev[g] \in [ref_count : 0 .. MaxRef, busy : SUBSET MpuGroups]
  BY OpenModel DEF DeviceTables
<1>2. r \in [ref_count : 0 .. MaxRef, busy : SUBSET MpuGroups]
      /\ r.ref_count = dev[g].ref_count
  BY <1>1, ModelTableAssumption DEF NoDevice
<1>3. e \in DeviceTables /\ e[g] = r
  BY <1>2, OpenModel DEF DeviceTables
<1>4. \A h \in Groups : /\ e[h].ref_count = dev[h].ref_count
                        /\ dev[h].ref_count # 0 => e[h].busy = dev[h].busy
  BY <1>2, OpenModel DEF DeviceTables
<1>. HIDE DEF e
<1>5. BackedBy(model, e)
  <2>1. \A x \in Models : model[x].ref_count > 0 =>
           e[model[x].group_id].ref_count = dev[model[x].group_id].ref_count
    BY <1>4, OpenModel
  <2>. QED
    BY <2>1, OpenModel, BackedSame
<1>6. ASSUME NEW x \in Models, model[x].mpu_group_id # None,
             IsOpen(x), Group(x) \in Groups
      PROVE  model[x].mpu_group_id \in e[Group(x)].busy
  <2>1. dev[Group(x)].ref_count # 0
    BY <1>6, OpenModel, BackedBounds DEF IsOpen, Group
  <2>. QED
    BY <1>4, <1>6, <2>1, OpenModel
<1>7. dev' = e
  BY DEF e
<1>. QED
  BY <1>3, <1>5, <1>6, <1>7, AttachedNext, BackedNext

(* memx_config_mpu_group, when the device opens. *)
LEMMA ConfigStep ==
    ASSUME Inv, NEW g \in Groups, NEW n \in 1 .. MaxMpuGroups,
           ConfigMpuGroup(g, n)
    PROVE  Inv'
<1>1. model' = model /\ dev' = [dev EXCEPT ![g] = Released(Taken(dev[g]))]
      /\ g_last_model_id' = None
  BY DEF ConfigMpuGroup
<1>2. dev[g] \in [ref_count : 0 .. MaxRef, busy : SUBSET MpuGroups]
  BY OpenModel DEF DeviceTables
<1>3. Released(Taken(dev[g])) = IF dev[g].ref_count = 0 THEN NoDevice ELSE dev[g]
  <2>1. PICK n1 \in 0 .. MaxRef, b \in SUBSET MpuGroups :
           dev[g] = [ref_count |-> n1, busy |-> b]
    BY <1>2
  <2>2. Taken(dev[g]) = [ref_count |-> n1 + 1, busy |-> b]
    BY <2>1 DEF Taken
  <2>3. n1 > 0 => Released(Taken(dev[g])) = [ref_count |-> n1, busy |-> b]
    BY <2>2, ModelTableAssumption DEF Released
  <2>4. n1 = 0 => Released(Taken(dev[g])) = NoDevice
    BY <2>2 DEF Released
  <2>. QED
    BY <2>1, <2>3, <2>4, ModelTableAssumption
<1>4. dev' \in DeviceTables /\ Backed' /\ AttachedExclusively'
  BY <1>1, <1>3, ConfigDevice
<1>5. hw' \in [Groups -> [group_count : 1 .. MaxMpuGroups,
                          chip : [MpuGroups -> MpuGroups]]]
  <2>. DEFINE chip == [i \in MpuGroups |-> IF i < n THEN i ELSE hw[g].chip[i]]
              w == [group_count |-> n, chip |-> chip]
  <2>1. hw[g].chip \in [MpuGroups -> MpuGroups]
    BY DEF Inv, TypeInv
  <2>2. w \in [group_count : 1 .. MaxMpuGroups, chip : [MpuGroups -> MpuGroups]]
    BY <2>1
  <2>3. hw' = [hw EXCEPT ![g] = w]
    BY DEF ConfigMpuGroup
  <2>. HIDE DEF w
  <2>. QED
    BY <2>2, <2>3 DEF Inv, TypeInv
<1>6. chips' \in [Groups -> [MpuGroups -> [Parts -> Holders]]]
  BY DEF ConfigMpuGroup, Inv, TypeInv, Holders
<1>7. TypeInv'
  BY <1>1, <1>4, <1>5, <1>6 DEF Inv, TypeInv, Holders
<1>8. OpenOrClosed' /\ LastIsOpen'
  BY <1>1 DEF Inv, OpenOrClosed, IsOpen, Group, LastIsOpen
<1>. QED
  BY <1>4, <1>7, <1>8 DEF Inv

(* memx_config_mpu_group, when it does not. *)
LEMMA ConfigFailsStep ==
    ASSUME Inv, NEW g \in Groups, ConfigFails(g)
    PROVE  Inv'
<1>1. /\ model' = model /\ dev' = [dev EXCEPT ![g] = Released(dev[g])]
      /\ g_last_model_id' = None /\ hw' = hw /\ chips' = chips
  BY DEF ConfigFails
<1>2. Released(dev[g]) = IF dev[g].ref_count = 0 THEN NoDevice ELSE dev[g]
  BY DEF Released, ConfigFails
<1>3. dev' \in DeviceTables /\ Backed' /\ AttachedExclusively'
  BY <1>1, <1>2, ConfigDevice
<1>4. TypeInv'
  BY <1>1, <1>3 DEF Inv, TypeInv, Holders
<1>5. OpenOrClosed' /\ LastIsOpen'
  BY <1>1 DEF Inv, OpenOrClosed, IsOpen, Group, LastIsOpen
<1>. QED
  BY <1>3, <1>4, <1>5 DEF Inv

(* A device that loses what its chips hold. *)
LEMMA PowerDownStep ==
    ASSUME Inv, NEW g \in Groups, PowerDown(g)
    PROVE  Inv'
<1>1. chips' \in [Groups -> [MpuGroups -> [Parts -> Holders]]]
  BY DEF PowerDown, Inv, TypeInv, Holders
<1>2. model' = model /\ dev' = dev /\ hw' = hw /\ g_last_model_id' = None
  BY DEF PowerDown
<1>. QED
  BY <1>1, <1>2 DEF Inv, TypeInv, OpenOrClosed, Backed, LastIsOpen,
                    AttachedExclusively, IsOpen, Group, Holders

(* The tables of a process that starts. *)
LEMMA FreshTables ==
    ASSUME NEW u, NEW e, u = [m \in Models |-> Closed],
           e = [g \in Groups |-> NoDevice]
    PROVE  /\ u \in ModelTables /\ e \in DeviceTables /\ BackedBy(u, e)
           /\ \A m \in Models : /\ u[m] = Closed /\ ~ (u[m].ref_count > 0)
                                /\ u[m].mpu_group_id = None
BY ModelTableAssumption
DEF ModelTables, DeviceTables, BackedBy, Closed, NoDevice

(* The exit of a process and the start of another. *)
LEMMA ExitStep ==
    ASSUME Inv, Exit
    PROVE  Inv'
<1>. DEFINE u == model'
            e == dev'
<1>1. u = [m \in Models |-> Closed] /\ e = [g \in Groups |-> NoDevice]
  BY DEF Exit
<1>. HIDE DEF u, e
<1>2. /\ u \in ModelTables /\ e \in DeviceTables /\ BackedBy(u, e)
      /\ \A m \in Models : /\ u[m] = Closed /\ ~ (u[m].ref_count > 0)
                           /\ u[m].mpu_group_id = None
  BY <1>1, FreshTables
<1>3. hw' = hw /\ chips' = chips /\ g_last_model_id' = None
  BY DEF Exit
<1>4. Backed'
  BY <1>2, BackedNext DEF u, e
<1>. QED
  BY <1>2, <1>3, <1>4 DEF Inv, TypeInv, OpenOrClosed, LastIsOpen,
       AttachedExclusively, IsOpen, Group, Holders, u, e

(* The invariant holds at first. *)
LEMMA InvInit == Init => Inv
<1>. SUFFICES ASSUME Init PROVE Inv
  OBVIOUS
<1>1. /\ model \in ModelTables /\ dev \in DeviceTables /\ BackedBy(model, dev)
      /\ \A m \in Models : /\ model[m] = Closed /\ ~ (model[m].ref_count > 0)
                           /\ model[m].mpu_group_id = None
  BY FreshTables DEF Init
<1>2. /\ hw \in [Groups -> [group_count : 1 .. MaxMpuGroups,
                            chip : [MpuGroups -> MpuGroups]]]
      /\ chips \in [Groups -> [MpuGroups -> [Parts -> Holders]]]
      /\ g_last_model_id = None
  BY ModelTableAssumption DEF Init, MpuGroups, Holders
<1>. QED
  BY <1>1, <1>2 DEF Inv, TypeInv, OpenOrClosed, Backed, LastIsOpen,
       AttachedExclusively, IsOpen, Holders

(* Every step keeps it. *)
LEMMA InvNext == Inv /\ [Next]_vars => Inv'
<1>. SUFFICES ASSUME Inv, [Next]_vars PROVE Inv'
  OBVIOUS
<1>1. ASSUME NEW m \in Models, Close(m)
      PROVE  Inv'
  <2>1. CASE ~ IsOpen(m)
    <3>1. g_last_model_id' = None /\ UNCHANGED <<model, dev, hw, chips>>
      BY <1>1, <2>1 DEF Close
    <3>. QED
      BY <3>1 DEF Inv, TypeInv, OpenOrClosed, Backed, LastIsOpen, Holders,
                  AttachedExclusively, IsOpen, Group
  <2>2. CASE IsOpen(m)
    <3>1. model[m].ref_count > 1 \/ model[m].ref_count = 1
      BY <2>2, OpenModel DEF IsOpen, ModelTables
    <3>. QED
      BY <1>1, <3>1, CloseOneStep, CloseLastStep
  <2>. QED
    BY <2>1, <2>2
<1>2. CASE UNCHANGED vars
  BY <1>2 DEF vars, Inv, TypeInv, OpenOrClosed, Backed, LastIsOpen,
              AttachedExclusively, IsOpen, Group
<1>. QED
  BY <1>1, <1>2, OpenNewStep, OpenAgainStep, DownloadStep, DisableStep,
     ConfigStep, ConfigFailsStep, PowerDownStep, ExitStep DEF Next

(* The invariant always holds. *)
LEMMA InvAlways == Spec => []Inv
BY InvInit, InvNext, PTL DEF Spec

-----------------------------------------------------------------------------
(* The tables hold what they may hold; no model has more references than   *)
(* its device, so none passes the bound on those.                          *)
THEOREM TypeCorrect == Spec => []TypeOK
<1>1. Inv => TypeOK
  <2>. SUFFICES ASSUME Inv PROVE TypeOK
    OBVIOUS
  <2>1. \A m \in Models : model[m].ref_count \in 0 .. MaxRef
    <3>. SUFFICES ASSUME NEW m \in Models PROVE model[m].ref_count \in 0 .. MaxRef
      OBVIOUS
    <3>1. model[m].ref_count \in Nat
      BY OpenModel DEF ModelTables
    <3>2. CASE model[m].ref_count > 0
      <4>1. /\ dev[model[m].group_id].ref_count \in 0 .. MaxRef
            /\ dev[model[m].group_id].ref_count >= model[m].ref_count
        BY <3>2, OpenModel, BackedBounds DEF DeviceTables
      <4>. QED
        BY <3>1, <4>1, ModelTableAssumption
    <3>. QED
      BY <3>1, <3>2, ModelTableAssumption
  <2>. QED
    BY <2>1, ModelTableAssumption DEF Inv, TypeInv, TypeOK, ModelTables, DeviceTables
<1>. QED
  BY <1>1, InvAlways, PTL

(* The device of an open model is open: the references of a device are as  *)
(* many as those of any one model on it and one for each of the others, so *)
(* a close never gives back the one that another model lives on.           *)
THEOREM OpenModelsBackedHolds == Spec => []OpenModelsBacked
<1>1. Inv => OpenModelsBacked
  <2>. SUFFICES ASSUME Inv PROVE OpenModelsBacked
    OBVIOUS
  <2>1. ASSUME NEW m \in Models, IsOpen(m)
        PROVE  dev[Group(m)].ref_count > 0
    <3>1. Group(m) \in Groups /\ dev[Group(m)].ref_count >= 1
      BY <2>1, OpenModel, BackedBounds DEF IsOpen, Group
    <3>2. dev[Group(m)].ref_count \in 0 .. MaxRef
      BY <3>1, OpenModel DEF DeviceTables
    <3>. QED
      BY <3>1, <3>2, ModelTableAssumption
  <2>. QED
    BY <2>1 DEF Inv, LastIsOpen, OpenModelsBacked
<1>. QED
  BY <1>1, InvAlways, PTL

(* An MPU group is attached to one open model at most: only an idle one is *)
(* attached, and a device is freed, with what is busy, only when no model  *)
(* is left on it.                                                          *)
THEOREM AttachedExclusivelyHolds == Spec => []AttachedExclusively
<1>1. Inv => AttachedExclusively
  BY DEF Inv
<1>. QED
  BY <1>1, InvAlways, PTL
=============================================================================
