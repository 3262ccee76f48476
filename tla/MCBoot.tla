------------------------------- MODULE MCBoot -------------------------------
(* Disks and machines for Boot; addresses are the real ones.               *)
EXTENDS Boot

D(bps, spc, root, spf, spt, heads, cluster) ==
    [bps |-> bps, spc |-> spc, reserved |-> 2, fats |-> 2, root |-> root,
     spf |-> spf, spt |-> spt, heads |-> heads, cluster |-> cluster,
     second |-> cluster, junk |-> 65535]

\* 1.44 MB (the image of the Makefile) and 1.2 MB floppies, the kernel in
\* several places; 2.88 MB with two sectors to a cluster; a disk of 63
\* sectors to a track; the last sector ch reaches.
Floppy == {D(512, 1, 224, 9, 18, 2, c) : c \in {2, 3, 40, 2000}}
Other == {D(512, 1, 224, 7, 15, 2, 700), D(512, 2, 240, 9, 36, 2, 2),
          D(512, 1, 224, 9, 63, 2, 30), D(512, 1, 224, 9, 8, 2, 4063)}
\* Disks that are not supported: two sectors to a cluster, 16 heads, track
\* 256, sector 64, another file in the second entry, a wide root directory.
Unsupported == {D(512, 2, 240, 9, 36, 2, 3), D(512, 1, 512, 17, 63, 16, 5),
                D(512, 1, 224, 9, 8, 2, 4065), D(512, 1, 224, 9, 72, 2, 32),
                [D(512, 1, 224, 9, 18, 2, 40) EXCEPT !.second = 3],
                D(64, 1, 600, 9, 18, 2, 5)}
MCDisks == Floppy \cup Other \cup Unsupported

M(e, p, b) == [entries |-> e, pages |-> p, bios |-> b]
\* 1 MiB, 128 MiB and one page, 14 GiB; a long memory map; memory maps that
\* fail; bitmaps that reach video memory, the screen, the end of the pool and
\* the end of the mapped region.
MCMachines ==
    {M(6, 256, "last"), M(7, 32769, "error"), M(171, 3670016, "last"),
     M(170, 262144, "error"), M(341, 262144, "last"),
     M(0, 0, "error"), M(1, 0, "last"),
     M(6, 4194304, "last"), M(6, 5242880, "error"), M(6, 15335424, "last"),
     M(6, 15532032, "last"), M(6, 16777216, "last")}
=============================================================================
