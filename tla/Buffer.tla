------------------------------- MODULE Buffer -------------------------------
(***************************************************************************)
(* A script in a message: Write_To_Memory and Load_From_Memory over the     *)
(* growing buffer of BufferWriteInterface and the line reader of            *)
(* BufferReadInterface (libtasquake/src/io.cpp).  Operators only.           *)
(*                                                                          *)
(* The text of a line is its characters and a newline; a buffer is its size *)
(* and what was written so far.                                             *)
(***************************************************************************)
EXTENDS Script

CONSTANTS
    BUFFER_SIZE,    \* the 128 of BufferWriteInterface::Init
    LineLength      \* how long a line is, by its kind

\* A line has a character before its newline.
ASSUME BufferAssumption ==
    /\ BUFFER_SIZE \in Nat
    /\ LineLength \in [{"frame", "convar", "toggle", "command"} -> Nat \ {0, 1}]

Newline == <<"\\n">>
Null == <<"\\0">>

Text(line) ==
    [k \in 1 .. LineLength[line.kind] |->
        IF k = LineLength[line.kind] THEN Newline ELSE <<line, k>>]

\* BufferWriteInterface::Init
NewBuffer == [size |-> BUFFER_SIZE, data |-> <<>>]

\* The size is doubled until what is to be written fits, with no byte to spare for
\* the terminating null character.
AllocateSpaceForWrite(buffer, bytes) ==
    LET size == MaxOf(1, buffer.size)
        fits == {n \in 0 .. bytes : size * 2 ^ n >= Len(buffer.data) + bytes}
    IN  [buffer EXCEPT !.size = size * 2 ^ (CHOOSE n \in fits : \A m \in fits : n <= m)]

Front(text) == SubSeq(text, 1, Len(text) - 1)

\* vsnprintf, once or twice.  A text that fills the buffer to the last byte loses its
\* last character to the terminating null character.
Write(buffer, text) ==
    LET grown == IF Len(text) # buffer.size - Len(buffer.data)
                 THEN AllocateSpaceForWrite(buffer, Len(text)) ELSE buffer
        full  == Len(text) = grown.size - Len(grown.data)
    IN  [grown EXCEPT !.data = @ \o IF full THEN Append(Front(text), Null) ELSE text]

\* The script after what the message holds already.  Finalize trims the buffer, and the
\* length is filled in where the placeholder is.
Write_To_Memory(blocks, buffer) ==
    LET placed  == Write(buffer, [k \in 1 .. 4 |-> <<"0">>])
        lines   == _Write_To_File(blocks)
        writer[k \in 0 .. Len(lines)] ==
            IF k = 0 THEN placed ELSE Write(writer[k - 1], Text(lines[k]))
        written == writer[Len(lines)]
        length  == Len(written.data) - Len(placed.data)
    IN  [size |-> Len(written.data),
         data |-> [k \in DOMAIN written.data |->
                      IF k \in Len(buffer.data) + 1 .. Len(placed.data) THEN <<length>>
                      ELSE written.data[k]]]

\* Mutant: only a newline ends a line.
EndsLine_Bug(c) == c = Newline

EndsLine(c) == c \in {Newline, Null}

\* GetLine, up to the end: characters up to the end of a line, empty lines skipped.
GetLines(data) ==
    LET Read(acc, c) ==
            IF ~EndsLine(c) THEN [acc EXCEPT !.line = Append(@, c)]
            ELSE [lines |-> IF acc.line = <<>> THEN acc.lines ELSE Append(acc.lines, acc.line),
                  line  |-> <<>>]
        reader[k \in 0 .. Len(data)] ==
            IF k = 0 THEN [lines |-> <<>>, line |-> <<>>] ELSE Read(reader[k - 1], data[k])
        end == reader[Len(data)]
    IN  IF end.line = <<>> THEN end.lines ELSE Append(end.lines, end.line)

\* What the parser makes of the characters: two lines that ran together are a command.
LineOf(characters) ==
    LET line == characters[1][1]
    IN  IF characters = Front(Text(line)) THEN line ELSE [kind |-> "command", name |-> "run together"]

Load_From_Memory(data, offset) ==
    LET length == data[offset + 1][1]
        lines  == GetLines(SubSeq(data, offset + 5, offset + 4 + length))
    IN  _Load_From_File([k \in DOMAIN lines |-> LineOf(lines[k])])

=============================================================================
