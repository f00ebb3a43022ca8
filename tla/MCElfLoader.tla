----------------------------- MODULE MCElfLoader -----------------------------
(* Six names: two object files that need each other, a second definition   *)
(* of a name, one with a .rel companion and no source name, one with a     *)
(* relocation that is not supported, and one that is not there.            *)
EXTENDS M68KElfLoader

CONSTANTS ao, bo, co, no, eo, missing,
          main, helper, counter, spare, ac, bc, cc

MCFileNames == {ao, bo, co, no, eo, missing}

MCHash == [n \in {main, helper, counter, spare} |->
             CASE n = main -> 1 [] n = helper -> 2 [] n = counter -> 3 [] n = spare -> 4]

Sym(name, global, shndx, value) ==
  [name |-> name, global |-> global, shndx |-> shndx, value |-> value]
Sec(type, dataName, size, rel, rela, dbg) ==
  [type |-> type, dataName |-> dataName, size |-> size, rel |-> rel, rela |-> rela, dbg |-> dbg]
Rel(type, offset, symbol, addend) ==
  [type |-> type, offset |-> offset, symbol |-> symbol, addend |-> addend]
Dbg(type, startLine, endLine, pc) ==
  [type |-> type, startLine |-> startLine, endLine |-> endLine, pc |-> pc]
Elf(source, sections, symbols) ==
  [kind |-> "elf", source |-> source, sections |-> sections, symbols |-> symbols]

MCImages ==
  [f \in MCFileNames |->
     CASE f = ao -> Elf(ac,
            <<Sec("PROGBITS", FALSE, 7, FALSE,
                  <<Rel("R_68K_32", 0, 2, 0), Rel("R_68K_16", 4, 3, 1)>>,
                  <<Dbg(2, 1, 3, 0), Dbg(2, 3, 4, 4)>>)>>,
            <<Sym(main, TRUE, 1, 0), Sym(helper, TRUE, 0, 0), Sym(counter, TRUE, 0, 0)>>)
       [] f = bo -> Elf(bc,
            <<Sec("OTHER", FALSE, 9, FALSE, <<>>, <<>>),
              Sec("PROGBITS", FALSE, 4, FALSE,
                  <<Rel("R_68K_32", 0, 3, 2)>>, <<Dbg(1, 1, 2, 2), Dbg(2, 1, 2, 2)>>),
              Sec("PROGBITS", TRUE, 4, FALSE, <<>>, <<>>),
              Sec("NOBITS", FALSE, 3, FALSE, <<>>, <<>>)>>,
            <<Sym(helper, TRUE, 2, 2), Sym(counter, TRUE, 3, 0), Sym(spare, FALSE, 4, 1)>>)
       [] f = co -> Elf(cc,
            <<Sec("PROGBITS", FALSE, 1, FALSE, <<>>, <<Dbg(2, 1, 9, 0)>>)>>,
            <<Sym(helper, TRUE, 1, 0), Sym(counter, TRUE, 1, 1)>>)
       [] f = no -> Elf(NoSource,
            <<Sec("PROGBITS", FALSE, 4, TRUE, <<Rel("R_68K_32", 0, 1, 0)>>, <<>>)>>,
            <<Sym(spare, TRUE, 1, 0)>>)
       [] f = eo -> Elf(ac,
            <<Sec("NOBITS", FALSE, 5, FALSE, <<>>, <<>>),
              Sec("PROGBITS", FALSE, 2, FALSE, <<Rel("R_68K_PC16", 0, 1, 0)>>, <<>>)>>,
            <<Sym(spare, TRUE, 2, 0)>>)
       [] f = missing -> [kind |-> "missing"]]

MCArenas == {64, 160}
=============================================================================
