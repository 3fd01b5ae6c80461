-------------------------------- MODULE MCTracer --------------------------------
(***************************************************************************)
(* Guests and locations for checking Tracer.                               *)
(***************************************************************************)
EXTENDS TracerProps, TLC

Plain == [op |-> "plain", to |-> {}, base |-> "other", role |-> "goto", size |-> 1,
          form |-> "register", index |-> 0]
Branch(to) == [Plain EXCEPT !.op = "branch", !.to = to]
CallTo(pc) == [Plain EXCEPT !.op = "load_imm_and_jump", !.to = {pc}, !.base = "RA"]
CallThrough(to) == [CallTo(0) EXCEPT !.op = "load_imm_and_jump_indirect", !.to = to]
Ret == [Plain EXCEPT !.op = "jump_indirect", !.base = "RA", !.role = "return"]
GotoAny(to) == [Plain EXCEPT !.op = "jump_indirect", !.to = to]
Div == [Plain EXCEPT !.op = "div"]
Mem(size) == [Plain EXCEPT !.op = "mem", !.size = size]
StoreImm(size) == [Mem(size) EXCEPT !.form = "immediate"]
Trap == [Plain EXCEPT !.op = "trap"]
Ecalli(n) == [Plain EXCEPT !.op = "ecalli", !.index = n]

Program(seq) == [pc \in 0..(Len(seq) - 1) |-> seq[pc + 1]]

MCPaths == {"guest.polkavm", "a.rs", "b.rs"}
MCReadable == {"a.rs", "guest.polkavm"}

(* A recursive guest: 4 calls itself or stops; 1 and 4 share a location,   *)
(* 3, 7 and 9 another, 2 and 8 have none.                                  *)
CallsCode == Program(<<Plain, CallTo(4), Ecalli(4), Ret,
                       Branch({5, 8}), CallTo(4), Div, Ret,
                       Mem(4), Ret>>)
CallsCost == [pc \in 0..9 |-> CASE pc = 0 -> 2 [] pc = 2 -> 2 [] pc = 4 -> 1
                                [] pc = 5 -> 1 [] pc = 6 -> 2 [] pc = 8 -> 2
                                [] OTHER -> 0]
CallsLocations ==
    [pc \in {0, 1, 3, 4, 5, 6, 7, 9} |->
        CASE pc = 0 -> At("b.rs", 1, 1)
          [] pc \in {1, 4} -> At("a.rs", 2, 5)
          [] pc \in {5, 6} -> At("a.rs", 2, 9)
          [] OTHER -> At("b.rs", 3, 0)]

(* Host calls, known and unknown, traps and faults, in and out of a        *)
(* subroutine.                                                             *)
HostCode == Program(<<Ecalli(0), Branch({2, 4, 6}), Ecalli(28), Ret,
                      Ecalli(99), Trap, CallTo(8), Ret,
                      Ecalli(5), Mem(2), Branch({11, 12, 13}), Trap, GotoAny({}),
                      Ret>>)
HostCost == [pc \in 0..13 |-> 1]
HostLocations == [pc \in {0, 2, 6, 8, 9} |->
                    At(IF pc = 0 THEN "a.rs" ELSE "b.rs", IF pc = 9 THEN 1 ELSE 2, 0)]

(* A subroutine called through a register.                                 *)
IndirectCode == Program(<<CallThrough({2}), Ret, Plain, Ret>>)
(* A store of an immediate that may be out of bounds.                      *)
StoreImmCode == Program(<<Plain, StoreImm(4), Ret>>)
NoLocations == [pc \in {} |-> At("a.rs", 1, 0)]
SmallCost(n) == [pc \in 0..(n - 1) |-> 1]
IndirectCost == SmallCost(4)
StoreImmCost == SmallCost(3)
=============================================================================
