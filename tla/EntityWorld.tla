---------------------------- MODULE EntityWorld ----------------------------
(***************************************************************************)
(* Client::EntityWorld: the entities a client knows of and which of them   *)
(* is its own, as operators from a world to a world.  Each method holds    *)
(* mutex_ from beginning to end, so a thread applies it in one step.       *)
(* Position, heading and velocity are left out: they are whatever the last *)
(* Spawn or EntityState of the entity said.                                *)
(***************************************************************************)
CONSTANT NoEntity  \* hasMyEntityId_ is not set

EmptyWorld == [entities |-> {}, myEntityId |-> NoEntity]

OnSpawn(world, id) ==
  [ entities   |-> world.entities \union {id},
    myEntityId |-> IF world.myEntityId = NoEntity THEN id ELSE world.myEntityId ]

\* Mutant: the entity taken for the client's own is never forgotten.
OnDespawn_NotOwn(world, id) ==
  IF id = world.myEntityId THEN world ELSE [world EXCEPT !.entities = @ \ {id}]

OnDespawn(world, id) == [world EXCEPT !.entities = @ \ {id}]

\* An entity it does not know is created: its Spawn may have been missed.
\* (ids: the entries of a batch)
OnState(world, ids) == [world EXCEPT !.entities = @ \union ids]
=============================================================================
