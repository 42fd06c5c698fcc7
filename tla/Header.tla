------------------------------- MODULE Header -------------------------------
(***************************************************************************)
(* Module files (binary-header.c, module.c): the header that               *)
(* compile_write_header makes, its bytes in the file, the code behind it,  *)
(* and what module_read makes of a file.                                   *)
(*                                                                         *)
(* A file is a sequence of bytes.  A byte is <<kind, v, k>>: the k-th byte *)
(* of the value v that was written, so that a value can be read only where *)
(* one was written; a number or an instruction that is read elsewhere is   *)
(* Garbage.                                                                *)
(***************************************************************************)
EXTENDS Bytecode, Sequences, TLC
LOCAL INSTANCE SequencesExt
LOCAL INSTANCE FiniteSetsExt

Garbage == -1
Width   == [u32 |-> 4, u8 |-> 1, char |-> 1, instruction |-> 8]
Bytes(kind, v) == [k \in 1..Width[kind] |-> <<kind, v, k>>]

Characters(s) == FlattenSeq([k \in 1..Len(s) |-> Bytes("char", SubSeq(s, k, k))])

\* bhdr_add_counted_string_to_header
Counted(s) == Bytes("u32", Len(s)) \o Characters(s)

-----------------------------------------------------------------------------
(* Writing.                                                                 *)

\* compile_create_label_name for the labels of jumps.
LabelName(l) == IF l[2] = -1 THEN l[1] ELSE "<" \o l[1] \o "_" \o ToString(l[2]) \o ">"

CountedSize(s) == Width.u32 + Len(s)

LabelSize_NoType(l) == CountedSize(l.name) + Width.u32

LabelSize(l) == CountedSize(l.name) + Width.u8 + Width.u32

SizeOfAll(list, SizeOf(_)) == FoldLeft(LAMBDA sum, item : sum + SizeOf(item), 0, list)

\* compile_write_header up to the call of bhdr_write, from the state c of the
\* generator.  The size counts the labels of the table, n_labels all labels
\* since the program started.  The order of the buckets is left open.
HeaderOf(c) ==
  LET list   == FoldSet(LAMBDA name, names : Append(names, name), <<>>, DOMAIN c.labels)
      labels == [k \in DOMAIN list |->
                   [name |-> LabelName(list[k]), addr |-> c.labels[list[k]].addr,
                    type |-> IF c.labels[list[k]].is_task THEN 1 ELSE 0]]
  IN  [size |-> 4 * Width.u32 + CountedSize(c.name)
                  + SizeOfAll(labels, LabelSize) + SizeOfAll(c.strings, CountedSize),
       n_labels  |-> c.n_labels,
       n_strings |-> Len(c.strings),
       code_size |-> c.g_ip * Width.instruction,
       name |-> c.name, strings |-> c.strings, labels |-> labels]

\* bhdr_write.  The entries of the label list behind those that were filled in
\* are memory that malloc returned: entry stands for what each of them holds.
bhdr_write(h, entry) ==
  LET Label(k) == LET l == IF k <= Len(h.labels) THEN h.labels[k] ELSE entry
                  IN  Counted(l.name) \o Bytes("u8", l.type) \o Bytes("u32", l.addr)
  IN  Bytes("u32", h.size) \o Bytes("u32", h.n_labels) \o Bytes("u32", h.n_strings)
        \o Bytes("u32", h.code_size) \o Counted(h.name)
        \o FlattenSeq([k \in 1..h.n_strings |-> Counted(h.strings[k])])
        \o FlattenSeq([k \in 1..h.n_labels  |-> Label(k)])

\* compile_write_code
CodeBytes(c) ==
  FlattenSeq([k \in 1..c.g_ip |-> Bytes("instruction", c.g_code[k - 1])])

-----------------------------------------------------------------------------
(* Reading.                                                                 *)

\* g_raw_header after n bytes of the file have been read into it.
Zero == <<"zero", 0, 1>>
Raw(file, n) == [file |-> file, n |-> n]
ByteAt(raw, ofs) == IF ofs < raw.n THEN raw.file[ofs + 1] ELSE Zero
BytesAt(raw, ofs, w) == [k \in 1..w |-> ByteAt(raw, ofs + k - 1)]

\* bhdr_get_u32 and bhdr_get_u8
NumberIn(b, kind) ==
  CASE b = Bytes(kind, b[1][2]) -> b[1][2]
    [] \A k \in DOMAIN b : b[k] = Zero -> 0
    [] OTHER -> Garbage
NumberAt(raw, kind, ofs) == NumberIn(BytesAt(raw, ofs, Width[kind]), kind)

\* bhdr_get_counted_string, which copies the characters up to a zero.
StringAt(raw, ofs) ==
  FoldLeft(LAMBDA s, byte : IF byte[1] = "char" THEN s \o byte[2] ELSE s,
           "", BytesAt(raw, ofs + Width.u32, NumberAt(raw, "u32", ofs)))

\* The list of the n things that follow each other from ofs on, of which Item
\* reads one and SizeOf is the number of bytes, and the offset behind them.
ListAt(ofs, n, Item(_), SizeOf(_)) ==
  LET Add(l, item) == [list |-> Append(l.list, item), ofs |-> l.ofs + SizeOf(item)]
  IN  FoldLeft(LAMBDA l, k : Add(l, Item(l.ofs)),
               [list |-> <<>>, ofs |-> ofs], [k \in 1..n |-> k])

LabelAt(raw, ofs) ==
  LET name == StringAt(raw, ofs)
      rest == ofs + CountedSize(name)
  IN  [name |-> name, type |-> NumberAt(raw, "u8", rest),
       addr |-> NumberAt(raw, "u32", rest + Width.u8)]

Failed(how) == [result |-> how]

\* The header in the raw bytes.  Without strings the pointer to the label list
\* is what malloc left in the block (bhdr_new), and the first label is written
\* there.
HeaderAt(raw) ==
  LET n_labels  == NumberAt(raw, "u32", Width.u32)
      n_strings == NumberAt(raw, "u32", 2 * Width.u32)
      name      == StringAt(raw, 4 * Width.u32)
      strings   == ListAt(4 * Width.u32 + CountedSize(name), n_strings,
                          LAMBDA ofs : StringAt(raw, ofs), CountedSize)
      labels    == ListAt(strings.ofs, n_labels, LAMBDA ofs : LabelAt(raw, ofs), LabelSize)
  IN  IF n_strings = 0 /\ n_labels > 0 THEN Failed("wild_pointer")
      ELSE [result |-> "header",
            header |-> [size |-> raw.n, n_labels |-> n_labels, n_strings |-> n_strings,
                        code_size |-> NumberAt(raw, "u32", 3 * Width.u32),
                        name |-> name, strings |-> strings.list, labels |-> labels.list]]

bhdr_read(file) ==
  LET size == NumberAt(Raw(file, Len(file)), "u32", 0)
  IN  CASE Len(file) < Width.u32 -> Failed("exit")
        [] Len(file) >= Width.u32 /\ Len(file) < size -> Failed("NULL")
        [] OTHER -> HeaderAt(Raw(file, size))

CodeFits_NotChecked(file, h) == Len(file) >= h.size

\* fread gets as many bytes of code as the header says.
CodeFits(file, h) == Len(file) >= h.size + h.code_size

InstructionIn(b) ==
  IF b = Bytes("instruction", b[1][2]) THEN b[1][2] ELSE [op |-> "OP_BAD", arg |-> Garbage]

\* The code starts where the header says that the header ends.
CodeAt(file, h) ==
  [a \in 0..(h.code_size \div Width.instruction)-1 |->
     InstructionIn(BytesAt(Raw(file, Len(file)), h.size + a * Width.instruction, Width.instruction))]

ModuleAt(file, read) ==
  CASE read.result # "header" -> read
    [] read.result = "header" /\ ~CodeFits(file, read.header) -> Failed("NULL")
    [] OTHER -> [result |-> "module", header |-> read.header, code |-> CodeAt(file, read.header)]

module_read(file) == ModuleAt(file, bhdr_read(file))
=============================================================================
