---------------------------- MODULE QcvmEntities ----------------------------
(***************************************************************************)
(* The executor's entities (exec.cpp): a pool of slots, their fields one   *)
(* after the other in `entitydata`, and the instructions and builtins that *)
(* reach them.  Entity 0 is the world.                                     *)
(*                                                                         *)
(* A program keeps entity numbers and, between INSTR_ADDRESS and           *)
(* INSTR_STOREP, an index into entitydata; other code may run in between.  *)
(***************************************************************************)
EXTENDS Integers, Sequences

CONSTANTS EntityFields,  \* prog->entityfields: words of an entity
          FieldVal,      \* values of a word; 0 is one of them
          StateFields,   \* cached_fields, or {} when INSTR_STATE has not all of them
          MaxEntities,   \* bound of the model on the pool's size
          NoAddress

VARIABLES entitypool,       \* prog->entitypool: is the slot in use?
          entities,         \* prog->entities
          entitydata,       \* prog->entitydata
          allowworldwrites, \* no one sets it: whatever memory held
          entityerror,      \* prog->vmerror > 0
          address,          \* what the last INSTR_ADDRESS computed, and from what
          live              \* history: entities spawned and not removed since

entitiesVars == <<entitypool, entities, entitydata, allowworldwrites, entityerror, address, live>>

EntityAssumption ==
    /\ EntityFields \in Nat \ {0} /\ MaxEntities \in Nat
    /\ 0 \in FieldVal /\ StateFields \subseteq 0 .. EntityFields - 1
ASSUME EntityAssumption

(* C indices: slot e is entitypool[e + 1].                                 *)
InUse(e) == entitypool[e + 1]
Slots == 0 .. Len(entitypool) - 1
Clear == [k \in 1 .. EntityFields |-> 0]
Word(e, f) == EntityFields * e + f
DataOf(data, e) == SubSeq(data, Word(e, 0) + 1, Word(e, 0) + EntityFields)

EntitiesInit == /\ entitypool = <<TRUE>>
                /\ entities = 1
                /\ entitydata = Clear
                /\ allowworldwrites \in BOOLEAN
                /\ entityerror = FALSE
                /\ address = NoAddress
                /\ live = {0}

(* prog_spawn_entity: the first slot not in use is cleared and returned;   *)
(* else the pool grows.  The reused slot's flag stays as it is.            *)
Cleared(e) == [k \in DOMAIN entitydata |->
                 IF k - 1 \in Word(e, 0) .. Word(e, EntityFields - 1)
                 THEN 0 ELSE entitydata[k]]

(* Mutant: the reused slot keeps the removed entity's fields.              *)
SpawnReusingStale(e) ==
    /\ ~InUse(e) /\ \A d \in 0 .. e - 1 : InUse(d)
    /\ UNCHANGED <<entitydata, entitypool, entities>>

SpawnReusing(e) ==
    /\ ~InUse(e) /\ \A d \in 0 .. e - 1 : InUse(d)
    /\ entitydata' = Cleared(e)
    /\ UNCHANGED <<entitypool, entities>>

(* Mutant: prog->entities counts live entities, not slots.                 *)
SpawnGrowingUncounted(e) ==
    /\ \A d \in Slots : InUse(d)
    /\ e = Len(entitypool) /\ e < MaxEntities
    /\ entitypool' = Append(entitypool, TRUE)
    /\ entitydata' = entitydata \o Clear
    /\ UNCHANGED entities

SpawnGrowing(e) ==
    /\ \A d \in Slots : InUse(d)
    /\ e = Len(entitypool) /\ e < MaxEntities
    /\ entitypool' = Append(entitypool, TRUE)
    /\ entities' = entities + 1
    /\ entitydata' = entitydata \o Clear

(* qc_spawn                                                                *)
Spawn(e) ==
    /\ ~entityerror
    /\ IF e \in Slots THEN SpawnReusing(e) ELSE SpawnGrowing(e)
    /\ live' = live \cup {e}
    /\ UNCHANGED <<allowworldwrites, entityerror, address>>

(* qc_kill, prog_free_entity: the world, a slot that does not exist and    *)
(* one that is not in use are errors.                                      *)
Freeable(e) == e # 0 /\ e \in Slots /\ InUse(e)
RemoveEntity(e) ==
    /\ ~entityerror /\ Freeable(e)
    /\ entitypool' = [entitypool EXCEPT ![e + 1] = FALSE]
    /\ live' = live \ {e}
    /\ UNCHANGED <<entities, entitydata, allowworldwrites, entityerror, address>>

RemoveFails(e) ==
    /\ ~entityerror /\ ~Freeable(e)
    /\ entityerror' = TRUE
    /\ UNCHANGED <<entitypool, entities, entitydata, allowworldwrites, address, live>>

(* INSTR_LOAD_*, INSTR_ADDRESS check the entity against prog->entities and *)
(* the field against entityfields; a removed entity is as good as any.     *)
Addressable(e, f) == e < entities /\ f < EntityFields

(* Mutant: the field is not checked against the entity's size.             *)
AddressUnchecked(e, f) ==
    /\ ~entityerror /\ e < entities
    /\ address' = [ptr |-> Word(e, f), entity |-> e, field |-> f]
    /\ UNCHANGED <<entitypool, entities, entitydata, allowworldwrites, entityerror, live>>

Address(e, f) ==
    /\ ~entityerror /\ Addressable(e, f)
    /\ address' = [ptr |-> Word(e, f), entity |-> e, field |-> f]
    /\ UNCHANGED <<entitypool, entities, entitydata, allowworldwrites, entityerror, live>>

AccessFails(e, f) ==
    /\ ~entityerror /\ ~Addressable(e, f)
    /\ entityerror' = TRUE
    /\ UNCHANGED <<entitypool, entities, entitydata, allowworldwrites, address, live>>

(* INSTR_STOREP_*: an index outside entitydata is an error.  A write to    *)
(* the world is one too, but is done all the same.                         *)
StoreP(v) ==
    /\ ~entityerror /\ address # NoAddress
    /\ IF address.ptr >= Len(entitydata)
       THEN entityerror' = TRUE /\ UNCHANGED entitydata
       ELSE /\ entityerror' = (address.ptr < EntityFields /\ ~allowworldwrites)
            /\ entitydata' = [entitydata EXCEPT ![address.ptr + 1] = v]
    /\ UNCHANGED <<entitypool, entities, allowworldwrites, address, live>>

(* INSTR_STATE on `self`: prog_getedict turns a slot that does not exist   *)
(* into the world, with an error, and the fields are written there.        *)
State(self, v) ==
    /\ ~entityerror /\ StateFields # {}
    /\ LET e == IF self \in Slots THEN self ELSE 0 IN
       entitydata' = [k \in DOMAIN entitydata |->
                        IF \E f \in StateFields : k = Word(e, f) + 1
                        THEN v ELSE entitydata[k]]
    /\ entityerror' = (self \notin Slots)
    /\ UNCHANGED <<entitypool, entities, allowworldwrites, address, live>>

(* The host runs another function of the same program: prog_exec           *)
ExecEntities ==
    /\ entityerror' = FALSE
    /\ address' = NoAddress
    /\ UNCHANGED <<entitypool, entities, entitydata, allowworldwrites, live>>

EntitiesNext == \/ \E e \in 0 .. MaxEntities :
                      \/ Spawn(e) \/ RemoveEntity(e) \/ RemoveFails(e)
                      \/ \E f \in 0 .. EntityFields : Address(e, f) \/ AccessFails(e, f)
                      \/ \E v \in FieldVal : State(e, v)
                \/ \E v \in FieldVal : StoreP(v)
                \/ ExecEntities

EntitiesSpec == EntitiesInit /\ [][EntitiesNext]_entitiesVars
-----------------------------------------------------------------------------
(* The type invariant.                                                     *)
EntitiesTypeOK == /\ entitypool \in Seq(BOOLEAN) /\ entitypool # <<>>
                  /\ entities \in Nat
                  /\ entitydata \in Seq(FieldVal)
                  /\ allowworldwrites \in BOOLEAN /\ entityerror \in BOOLEAN
                  /\ address = NoAddress \/ address.ptr \in Nat
                  /\ live \subseteq Slots

(* The three records of how many entities there are agree, after any       *)
(* number of spawns, removals and reuses: the bound INSTR_LOAD tests is    *)
(* the one prog_free_entity tests, and every entity's fields exist.        *)
PoolAgrees == /\ entities = Len(entitypool)
              /\ Len(entitydata) = EntityFields * entities
              /\ InUse(0)

(* The index INSTR_ADDRESS computed still is that field of that entity     *)
(* when INSTR_STOREP uses it, however many entities were spawned or        *)
(* removed in between: the store reaches no other entity.                  *)
AddressStays ==
    address # NoAddress =>
        /\ address.ptr < Len(entitydata)
        /\ address.ptr \in Word(address.entity, 0) .. Word(address.entity, EntityFields - 1)
        /\ \A e \in Slots : e # address.entity =>
              address.ptr \notin Word(e, 0) .. Word(e, EntityFields - 1)

(* An entity that qc_spawn returns has nothing in its fields, whoever had  *)
(* the slot before, and no other entity loses a word.                      *)
SpawnIsClean ==
    [][\A e \in 0 .. MaxEntities : Spawn(e) =>
          /\ DataOf(entitydata', e) = Clear
          /\ \A d \in Slots \ {e} : DataOf(entitydata', d) = DataOf(entitydata, d)]_entitiesVars

(* prog_free_entity's "Double free on entity": the entity was removed and  *)
(* not spawned since.  The code disagrees: a reused slot is not marked as  *)
(* in use again, so removing a live entity is taken for a double free, and *)
(* a second spawn returns the live entity once more.                       *)
DoubleFreeIsReal ==
    [][\A e \in Slots \ {0} : RemoveFails(e) => e \notin live]_entitiesVars
=============================================================================
