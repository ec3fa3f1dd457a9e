------------------------------- MODULE Loader --------------------------------
(***************************************************************************)
(* How a program gets into memory: loader::load_elf maps the segments of   *)
(* its image, and _init_memory, which runs on the emulated processor,      *)
(* clears .bss and copies the initial contents of .data from ROM to RAM.   *)
(*                                                                         *)
(* A segment has a virtual and a physical address, a size in words and the *)
(* words that the file holds for it (its progbits), none or the first of   *)
(* them; an image also has the symbols of link.ld that the startup code    *)
(* uses.  Addresses and sizes are multiples of 4 there.                    *)
(***************************************************************************)
EXTENDS Memory

\* segment_allocator: what the file does not hold is filled with zeros, or
\* with 0xCC bytes when debugging is enabled.
Segment(size, progbits, fill) ==
  [i \in 1..size |-> IF i <= Len(progbits) THEN progbits[i] ELSE fill]

\* Mutant: the region at the virtual address has the size of the progbits, too.
RegionsOfTheProgbits(segment, fill) ==
  IF segment.progbits # <<>> /\ segment.virtual # segment.physical
  THEN <<Region(segment.physical, segment.progbits),
         Region(segment.virtual, Segment(Len(segment.progbits), <<>>, fill))>>
  ELSE <<Region(segment.virtual, Segment(segment.size, segment.progbits, fill))>>

\* "requires_relocation": only the progbits are mapped at the physical address.
Regions(segment, fill) ==
  IF segment.progbits # <<>> /\ segment.virtual # segment.physical
  THEN <<Region(segment.physical, segment.progbits),
         Region(segment.virtual, Segment(segment.size, <<>>, fill))>>
  ELSE <<Region(segment.virtual, Segment(segment.size, segment.progbits, fill))>>

\* Segment by segment, and of each its regions: the order they are mapped in.
LoadElf(image, fill) ==
  MappedWords([k \in DOMAIN image.segments |-> MappedWords(Regions(image.segments[k], fill))])

\* _init_memory
InitMemory(words, image) ==
  LET cleared == [a \in DOMAIN words |->
                    IF a \in Addresses(image.bss_start, image.bss_size) THEN 0 ELSE words[a]]
  IN [a \in DOMAIN words |->
        IF a \in Addresses(image.data_start, image.data_size)
        THEN cleared[image.init_data_start + (a - image.data_start)]
        ELSE cleared[a]]

-----------------------------------------------------------------------------
(***************************************************************************)
(* What link.ld sees to: the vectors and the code are at 0 and stay there, *)
(* .data is copied from ROM, .bss is mapped and no part of what is in ROM  *)
(* or of .data, and no two segments overlap.                               *)
(***************************************************************************)
Stays(segment) == segment.progbits = <<>> \/ segment.virtual = segment.physical

Areas(segment) ==
  Addresses(segment.virtual, segment.size)
    \cup (IF Stays(segment) THEN {} ELSE Addresses(segment.physical, Len(segment.progbits)))

WellLinked(image) ==
  LET segments == image.segments
      bss      == Addresses(image.bss_start, image.bss_size)
      data     == Addresses(image.data_start, image.data_size)
      initial  == Addresses(image.init_data_start, image.data_size)
      rom      == Addresses(0, Len(image.rom))
  IN /\ segments \in Seq([virtual : Nat, physical : Nat, size : Nat, progbits : Seq(Word)])
     /\ \A i, j \in DOMAIN segments : i # j => Areas(segments[i]) \cap Areas(segments[j]) = {}
     /\ \A i \in DOMAIN segments :
          /\ segments[i].virtual % 4 = 0 /\ segments[i].physical % 4 = 0
          /\ Len(segments[i].progbits) <= segments[i].size
          /\ ~Stays(segments[i]) =>
               Addresses(segments[i].physical, Len(segments[i].progbits))
                 \cap Addresses(segments[i].virtual, segments[i].size) = {}
     /\ \E i \in DOMAIN segments :
          segments[i].virtual = 0 /\ Stays(segments[i]) /\ segments[i].progbits = image.rom
     /\ image.data_size = Len(image.data)
     /\ image.data # <<>> =>
          \E i \in DOMAIN segments :
            /\ ~Stays(segments[i]) /\ segments[i].progbits = image.data
            /\ segments[i].virtual = image.data_start
            /\ segments[i].physical = image.init_data_start
     /\ bss \subseteq UNION {Areas(segments[i]) : i \in DOMAIN segments}
     /\ bss \cap (rom \cup data \cup initial) = {}
=============================================================================
