-------------------------------- MODULE Log --------------------------------
(***************************************************************************)
(* tfm_log_printf (lib/log/tfm_log_raw.c): every thread formats into a     *)
(* buffer of its own and sends it to the standard output when it is full   *)
(* and at the end.  Threads interleave between two outputs;                *)
(* stdio_output_string is external and one step.                           *)
(*                                                                         *)
(* A format is a sequence of items: [tag |-> "", arg |-> c] is the         *)
(* character c, any other item a % tag with its argument.  A 32-bit number *)
(* is a pair of halves, for TLC's integers are narrower.                   *)
(***************************************************************************)
EXTENDS Integers, Sequences

CONSTANTS
    Thread,
    Char,               \* the characters of strings
    Item,               \* the characters and the tags, with their arguments
    Messages,           \* the formats, made of items, that are printed
    PRINT_BUFF_SIZE,    \* 32 in the code
    NUM_BUFF_SIZE       \* 12 in the code

VARIABLES
    th,                 \* each thread: [pc, fmt, item, text, said, buf, count]
    out                 \* the standard output: [by, char]

vars == <<th, out>>

HALF == 65536
Words == [hi : 0 .. HALF - 1, lo : 0 .. HALF - 1]
Word(hi, lo) == [hi |-> hi, lo |-> lo]
Zero == Word(0, 0)
IsNegative(n) == n.hi >= 32768

\* -num: INT32_MIN overflows, and stays what it is on the compilers in use.
Negated(n) ==
    IF n.lo = 0 THEN Word((HALF - n.hi) % HALF, 0) ELSE Word(HALF - 1 - n.hi, HALF - n.lo)

\* number % base and number / base
Rem(n, base) == ((n.hi % base) * HALF + n.lo) % base
Quot(n, base) == Word(n.hi \div base, ((n.hi % base) * HALF + n.lo) \div base)

hex_digits_lo == <<"0", "1", "2", "3", "4", "5", "6", "7", "8", "9", "a", "b", "c", "d", "e", "f">>
hex_digits_up == <<"0", "1", "2", "3", "4", "5", "6", "7", "8", "9", "A", "B", "C", "D", "E", "F">>

NumberTag == {"d", "i", "u", "x", "X", "p"}

ASSUME BufferAssumption == PRINT_BUFF_SIZE \in Nat \ {0} /\ NUM_BUFF_SIZE \in Nat \ 0 .. 9

\* Every tag comes with an argument of the type va_arg reads for it.
ASSUME MessageAssumption ==
    /\ Messages \subseteq Seq(Item)
    /\ \A item \in Item : /\ item.tag \in NumberTag => item.arg \in Words
                          /\ item.tag = "s" => item.arg \in Seq(Char)

-----------------------------------------------------------------------------
\* More divisions than any number takes, and the one after which nothing is left.
MaxDivisions == 40
Last(left) ==
    CHOOSE k \in 0 .. MaxDivisions - 1 : left[k + 1] = Zero /\ \A j \in 1 .. k : left[j] # Zero

\* The do-while of both conversions: the digits, least significant first, are
\* written to num_buff and read back from its end.
num_buff(n, base, digits) ==
    LET left[k \in 0 .. MaxDivisions] == IF k = 0 THEN n ELSE Quot(left[k - 1], base)
    IN  [i \in 1 .. Last(left) + 1 |-> digits[Rem(left[Last(left) + 1 - i], base) + 1]]

\* Mutant of dec_num_output: a negative number is not negated.
Mut_NotNegated(n, sign) ==
    (IF sign = "d" /\ IsNegative(n) THEN <<"-">> ELSE <<>>) \o num_buff(n, 10, hex_digits_lo)

\* _tfm_dec_num_output
dec_num_output(n, sign) ==
    IF sign = "d" /\ IsNegative(n)
    THEN <<"-">> \o num_buff(Negated(n), 10, hex_digits_lo)
    ELSE num_buff(n, 10, hex_digits_lo)

\* _tfm_hex_num_output
hex_num_output(n, hex_digits) == num_buff(n, 16, hex_digits)

\* The text of "[Unsupported Tag]", for short.
UnsupportedTag == <<"[", "?", "]">>

\* The switch of _tfm_log_vprintf.
Expand(item) ==
    CASE item.tag = "" -> <<item.arg>>
      [] item.tag \in {"d", "i"} -> dec_num_output(item.arg, "d")
      [] item.tag = "u" -> dec_num_output(item.arg, "u")
      [] item.tag = "x" -> hex_num_output(item.arg, hex_digits_lo)
      [] item.tag = "X" -> hex_num_output(item.arg, hex_digits_up)
      [] item.tag = "p" -> <<"0", "x">> \o hex_num_output(item.arg, hex_digits_lo)
      [] item.tag = "s" -> item.arg
      [] item.tag = "c" -> <<item.arg>>
      [] item.tag = "%" -> <<"%">>
      [] OTHER -> UnsupportedTag

Supported == {"", "d", "i", "u", "x", "X", "p", "s", "c", "%"}

\* What follows an item: the default case does not step over the tag, which is
\* printed as the next character ("end" is a % at the end of the format).
Following(fmt) ==
    IF Head(fmt).tag \in Supported \cup {"end"} THEN Tail(fmt)
    ELSE <<[tag |-> "", arg |-> Head(fmt).tag]>> \o Tail(fmt)

-----------------------------------------------------------------------------
NoItem == [tag |-> "", arg |-> ""]

Init ==
    /\ th = [t \in Thread |-> [pc |-> "idle", fmt |-> <<>>, item |-> NoItem, text |-> <<>>,
                               said |-> <<>>, buf |-> <<>>, count |-> 0]]
    /\ out = <<>>

tfm_log_printf(t) ==
    /\ th[t].pc = "idle"
    /\ \E m \in Messages : th' = [th EXCEPT ![t].pc = "print", ![t].fmt = m]
    /\ UNCHANGED out

\* External: stdio_output_string; it returns the number of characters.
stdio_output_string(t, chars) == out' = out \o [i \in DOMAIN chars |-> [by |-> t, char |-> chars[i]]]

\* The next item is expanded and counted.
vprintf_item(t) ==
    LET item == Head(th[t].fmt)
    IN  /\ th[t].pc = "print" /\ th[t].text = <<>> /\ th[t].fmt # <<>>
        /\ th' = [th EXCEPT ![t].item = item, ![t].text = Expand(item),
                            ![t].fmt = Following(@), ![t].said = @ \o Expand(item),
                            ![t].count = @ + Len(Expand(item))]
        /\ UNCHANGED out

\* Mutant of flush_formatted_buffer: the character that fills the buffer is lost.
Mut_FlushDrops(t) ==
    LET buf == Append(th[t].buf, Head(th[t].text))
    IN  /\ th[t].pc = "print" /\ th[t].text # <<>>
        /\ IF Len(buf) >= PRINT_BUFF_SIZE
           THEN stdio_output_string(t, th[t].buf) /\ th' = [th EXCEPT ![t].text = Tail(@), ![t].buf = <<>>]
           ELSE UNCHANGED out /\ th' = [th EXCEPT ![t].text = Tail(@), ![t].buf = buf]

\* _tfm_flush_formatted_buffer (and _tfm_string_output around it): a character
\* is buffered, and a full buffer is sent.
flush_formatted_buffer(t) ==
    LET buf == Append(th[t].buf, Head(th[t].text))
    IN  /\ th[t].pc = "print" /\ th[t].text # <<>>
        /\ IF Len(buf) >= PRINT_BUFF_SIZE
           THEN stdio_output_string(t, buf) /\ th' = [th EXCEPT ![t].text = Tail(@), ![t].buf = <<>>]
           ELSE UNCHANGED out /\ th' = [th EXCEPT ![t].text = Tail(@), ![t].buf = buf]

\* The end of _tfm_log_vprintf: what is left is sent, and counted again.
vprintf_end(t) ==
    /\ th[t].pc = "print" /\ th[t].text = <<>> /\ th[t].fmt = <<>>
    /\ stdio_output_string(t, th[t].buf)
    /\ th' = [th EXCEPT ![t].pc = "done", ![t].count = @ + Len(th[t].buf), ![t].buf = <<>>]

Done == (\A t \in Thread : th[t].pc = "done") /\ UNCHANGED vars

Next ==
    \/ \E t \in Thread :
          tfm_log_printf(t) \/ vprintf_item(t) \/ flush_formatted_buffer(t) \/ vprintf_end(t)
    \/ Done

Spec == Init /\ [][Next]_vars

-----------------------------------------------------------------------------
(* Properties. *)

\* What thread t has of the output o.
Share(o, t) ==
    LET upto[n \in 0 .. Len(o)] ==
            IF n = 0 THEN <<>>
            ELSE IF o[n].by = t THEN Append(upto[n - 1], o[n].char) ELSE upto[n - 1]
    IN  upto[Len(o)]

Printed(t) == Share(out, t)

\* n * base + d; hi is 2^16 or more when it overflows 32 bits.
Times(n, base, d) ==
    LET lo == n.lo * base + d
    IN  Word(n.hi * base + lo \div HALF, lo % HALF)

\* The number that digits denote.
Digit(c, base, digits) == (CHOOSE d \in 1 .. base : digits[d] = c) - 1
Denotes(chars, base, digits) ==
    LET val[k \in 0 .. Len(chars)] ==
            IF k = 0 THEN Zero ELSE Times(val[k - 1], base, Digit(chars[k], base, digits))
    IN  val[Len(chars)]

\* The digits printed for the item, after the sign or the 0x of a pointer, have
\* no leading zero, fit num_buff and denote the argument.
PrintedExactly(item) ==
    LET text == Expand(item)
        minus == text # <<>> /\ text[1] = "-"
        digits == IF minus THEN Tail(text)
                  ELSE IF item.tag = "p" THEN Tail(Tail(text)) ELSE text
    IN  /\ item.tag \in {"d", "i", "u"} =>
              /\ minus <=> (item.tag # "u" /\ IsNegative(item.arg))
              /\ Denotes(digits, 10, hex_digits_lo) = IF minus THEN Negated(item.arg) ELSE item.arg
        /\ item.tag = "p" => text[1] = "0" /\ text[2] = "x"
        /\ item.tag \in {"x", "p"} => Denotes(digits, 16, hex_digits_lo) = item.arg
        /\ item.tag = "X" => Denotes(digits, 16, hex_digits_up) = item.arg
        /\ item.tag \in {"d", "i", "u", "x", "X", "p"} =>
              Len(digits) <= NUM_BUFF_SIZE /\ (digits[1] = "0" => Len(digits) = 1)

\* Every number that a thread prints is printed exactly, INT32_MIN and
\* UINT32_MAX included.
NumbersExact == \A t \in Thread : PrintedExactly(th[t].item)

\* However the threads interleave and wherever the buffer fills up, nothing of a
\* message is lost, repeated or reordered: it is on the output, in the buffer or
\* still to come, and on the output when the call returns.
MessageKept ==
    \A t \in Thread :
        /\ Printed(t) \o th[t].buf \o th[t].text = th[t].said
        /\ th[t].pc = "done" => th[t].buf = <<>> /\ th[t].text = <<>>
        /\ Len(th[t].buf) < PRINT_BUFF_SIZE
=============================================================================
