---------------------------- MODULE MCLuaBinding ----------------------------
(* LuaBinding with two writers and a coroutine besides the main thread.     *)
EXTENDS LuaBinding, TLC

Alike == Permutations(Threads) \cup Permutations(Functions)
=============================================================================
