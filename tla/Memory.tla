------------------------------- MODULE Memory --------------------------------
(***************************************************************************)
(* The memory of the emulated machine: memory, memory_mapping and          *)
(* register_map.  Accesses of 32 bits look among the memory mapped         *)
(* registers first, every access then needs an aligned address that some   *)
(* region maps; one that fails raises a hard fault and a failed read       *)
(* returns 0.                                                              *)
(*                                                                         *)
(* A word has four bytes of ByteBits bits (8 in the code).  Regions start  *)
(* and end at multiples of 4, as link.ld aligns its sections, so memory is *)
(* kept by words; a byte access takes part of one, the low byte first.     *)
(***************************************************************************)
EXTENDS Integers, FiniteSetsExt, SequencesExt

CONSTANT ByteBits

ASSUME ByteAssumption == ByteBits \in Nat \ {0}

WordBits == 4 * ByteBits
Modulus  == 2^WordBits
Word     == 0..(Modulus - 1)

\* What the provers are told of powers of two.
ASSUME PowersAssumption ==
  /\ 2^1 = 2
  /\ \A m, n \in 0..WordBits :
       m + n <= WordBits => 2^m \in Nat \ {0} /\ 2^(m + n) = 2^m * 2^n

\* Arithmetic on words wraps.
Wrap(v)    == v % Modulus
Aligned(a) == a - (a % 4)

\* The bits of a word that are set: what &, | and ~ do to words they do to these.
Bits(v)    == {k \in 0..(WordBits - 1) : (v \div 2^k) % 2 = 1}

-----------------------------------------------------------------------------
(* Regions: the words that are mapped from an address on *)

Addresses(start, size) == {start + 4 * i : i \in 0..(size - 1)}

Region(start, words) == [a \in Addresses(start, Len(words)) |-> words[(a - start) \div 4 + 1]]

\* find_const_region: the first region in the order of mapping
FindRegion(regions, a) == regions[SelectInSeq(regions, LAMBDA region : a \in DOMAIN region)]

MappedWords(regions) ==
  [a \in UNION {DOMAIN region : region \in ToSet(regions)} |-> FindRegion(regions, a)[a]]

-----------------------------------------------------------------------------
(* mem has the words of the regions, the memory mapped registers and the *)
(* hash of their addresses.                                                *)

\* "Cpmpute a hash by ORing all they addresses together"
KeysHash(addresses) == UNION {Bits(a) : a \in addresses}

NewMemory(words, registers) ==
  [words |-> words, registers |-> registers, keys_hash |-> KeysHash(DOMAIN registers)]

\* get_register_at, behind its filter
IsRegister(mem, a) == Bits(a) \subseteq mem.keys_hash /\ a \in DOMAIN mem.registers

IsMapped(mem, a, size) == a % size = 0 /\ Aligned(a) \in DOMAIN mem.words

\* The size bytes of a word from byte offset on.
Part(word, offset, size) == (word \div 2^(ByteBits * offset)) % 2^(ByteBits * size)


Replaced(word, offset, size, v) ==
  word + ((v % 2^(ByteBits * size)) - Part(word, offset, size)) * 2^(ByteBits * offset)

Read(mem, a, size) ==
  IF size = 4 /\ IsRegister(mem, a)
  THEN [ok |-> TRUE, value |-> mem.registers[a]]
  ELSE IF IsMapped(mem, a, size)
  THEN [ok |-> TRUE, value |-> Part(mem.words[Aligned(a)], a % 4, size)]
  ELSE [ok |-> FALSE, value |-> 0]

Write(mem, a, size, v) ==
  IF size = 4 /\ IsRegister(mem, a)
  THEN [ok |-> TRUE, mem |-> [mem EXCEPT !.registers[a] = v]]
  ELSE IF IsMapped(mem, a, size)
  THEN [ok |-> TRUE, mem |-> [mem EXCEPT !.words[Aligned(a)] = Replaced(@, a % 4, size, v)]]
  ELSE [ok |-> FALSE, mem |-> mem]

-----------------------------------------------------------------------------
(* Memory as programs see it *)

\* Words by their address, memory mapped registers included, and their bytes.
WordsOf(mem) ==
  [a \in DOMAIN mem.words \cup DOMAIN mem.registers |->
     IF a \in DOMAIN mem.words THEN mem.words[a] ELSE mem.registers[a]]

ByteAt(ws, a) == (ws[Aligned(a)] \div 2^(ByteBits * (a % 4))) % 2^ByteBits
=============================================================================
