-------------------------- MODULE MC_ExecutorWatch --------------------------
(* Watch "rw" of the instance: one DBusWatch whose flags may name both    *)
(* directions, the most restart() ever arms.  libdbus's socket transport  *)
(* uses one read and one write watch; they share no adapter state, so one *)
(* watch shows every interleaving of the properties below.                *)
EXTENDS ExecutorWatch

MC_Flags == [w \in Watches |-> {"read", "write"}]
=============================================================================
