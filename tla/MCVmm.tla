------------------------------- MODULE MCVmm -------------------------------
(* Instances of Vmm for TLC.  Pages of a program that share a page table,  *)
(* that share only a page directory, and that share no table at all.       *)
EXTENDS Vmm

MCVas == {<<0, 0, 0, 0>>, <<0, 0, 0, 1>>, <<0, 0, 1, 0>>, <<1, 0, 0, 0>>}
TwoVas == {<<0, 0, 0, 0>>, <<0, 0, 0, 1>>}
Touched == {<<0, 0, 0, 0>>}

ReadOnly == {"P", "U"}
ReadWrite == {"P", "W", "U"}
MCFlags == {ReadOnly, ReadWrite}
=============================================================================
