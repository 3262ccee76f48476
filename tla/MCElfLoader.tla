---------------------------- MODULE MCElfLoader ----------------------------
(* Files for ElfLoader.  Pages have 4 bytes and tables 2 entries.          *)
EXTENDS ElfLoader

Ph(t, a, m, n, w) == [type |-> t, va |-> a, memsz |-> m, filesz |-> n, w |-> w]
Good == user_program_elf.ehdr
File(h, ps) == [ehdr |-> h, phdrs |-> ps]

\* Begins and ends inside pages, with memory beyond the file's bytes.
Unaligned == File(Good, <<Ph(1, 6, 7, 4, FALSE)>>)
\* Two segments that meet at a page boundary, and a header to be skipped.
Adjacent == File(Good, <<Ph(1, 4, 4, 4, FALSE), Ph(4, 0, 4, 4, FALSE),
                       Ph(1, 8, 3, 2, TRUE)>>)
\* A writable segment, then a read-only one that needs the same tables; and a
\* read-only one with a writable one after it, in tables of its own.
DataFirst == File(Good, <<Ph(1, 4, 3, 3, TRUE), Ph(1, 8, 2, 2, FALSE)>>)
FarApart == File(Good, <<Ph(1, 4, 3, 2, FALSE), Ph(1, 32, 3, 1, TRUE)>>)
\* Two segments that meet inside a page, the first with a page of its own.
Shared == File(Good, <<Ph(1, 4, 6, 6, FALSE), Ph(1, 10, 4, 3, TRUE)>>)
\* Two such segments with the higher one first, which loses its page to the
\* extra page of the other.
Descending == File(Good, <<Ph(1, 8, 3, 2, TRUE), Ph(1, 4, 4, 4, FALSE)>>)
\* An empty segment, and no segment.
Hollow == File(Good, <<Ph(1, 4, 0, 0, TRUE)>>)
None == File(Good, <<>>)
\* A header with a wrong byte of the magic, another class, byte order or
\* machine, and one with two faults.
With1(k, x) == [Good EXCEPT !.e_ident[k] = x]
BadHeaders ==
    {With1(0, 0), With1(3, 0), With1(4, 1), With1(5, 2), [Good EXCEPT !.e_machine = 3],
     [With1(4, 1) EXCEPT !.e_machine = 3]}
Bad == {File(h, <<>>) : h \in BadHeaders}

\* More bytes in the file than memory for them.
Overfull == File(Good, <<Ph(1, 4, 2, 6, FALSE)>>)

MCFiles ==
    {Unaligned, Adjacent, DataFirst, FarApart, Shared, Descending, Hollow, None, Overfull}
        \cup Bad
=============================================================================
