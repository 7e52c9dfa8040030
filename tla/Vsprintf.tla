------------------------------ MODULE Vsprintf ------------------------------
(***************************************************************************)
(* The formatter of src/src/vsprintf.c: vsprintf and its helpers, as pure  *)
(* operators.  A format and the text it produces are sequences of          *)
(* one-character strings; an argument is what the caller passes: an       *)
(* integer in the caller's type, a character, or a string (a sequence of   *)
(* characters, or NULL).                                                   *)
(*                                                                         *)
(* int32_t and int64_t keep their two's-complement behaviour at a reduced  *)
(* width: IntBits stands for 32 and LongBits for 64, so that TLC's         *)
(* integers can hold every value of both types.                           *)
(***************************************************************************)
EXTENDS Integers, Sequences, SequencesExt

CONSTANTS
    IntBits,    \* the width of int32_t
    LongBits,   \* the width of int64_t and uint64_t
    NULL        \* a null char*

ASSUME 2 <= IntBits /\ IntBits < LongBits /\ LongBits <= 30

\* The end of the format: the NUL the for loop stops at.
NUL == "NUL"

\* Reading the value of a C integer object of w bits (two's complement).
Signed(v, w) == LET m == v % 2^w IN IF m >= 2^(w - 1) THEN m - 2^w ELSE m
Unsigned(v, w) == v % 2^w

DigitVal == "0" :> 0 @@ "1" :> 1 @@ "2" :> 2 @@ "3" :> 3 @@ "4" :> 4
            @@ "5" :> 5 @@ "6" :> 6 @@ "7" :> 7 @@ "8" :> 8 @@ "9" :> 9

\* The flag characters and the bits they set.
FlagOf == "-" :> "LEFT" @@ "+" :> "PLUS" @@ " " :> "SPACE"
          @@ "#" :> "SPECIAL" @@ "0" :> "ZEROPAD"

\* number's two digit strings.
UpperDigits == <<"0","1","2","3","4","5","6","7","8","9","A","B","C","D","E","F",
                 "G","H","I","J","K","L","M","N","O","P","Q","R","S","T","U","V",
                 "W","X","Y","Z">>
LowerDigits == <<"0","1","2","3","4","5","6","7","8","9","a","b","c","d","e","f",
                 "g","h","i","j","k","l","m","n","o","p","q","r","s","t","u","v",
                 "w","x","y","z">>

Ch(f, i) == IF i \in 1..Len(f) THEN f[i] ELSE NUL

Spaces(n) == [k \in 1..n |-> " "]
Fill(n, c) == [k \in 1..n |-> c]

\* skip_atoi: the decimal number at f[i..], and the index after it.
RECURSIVE SkipAtoi(_, _, _)
SkipAtoi(f, i, n) ==
    IF Ch(f, i) \in DOMAIN DigitVal
    THEN SkipAtoi(f, i + 1, n * 10 + DigitVal[Ch(f, i)])
    ELSE [i |-> i, n |-> n]

\* The repeat: loop over the flag characters after the '%' at i - 1.
RECURSIVE Flags(_, _, _)
Flags(f, i, fl) ==
    IF Ch(f, i) \in DOMAIN FlagOf
    THEN Flags(f, i + 1, fl \cup {FlagOf[Ch(f, i)]})
    ELSE [i |-> i, flags |-> fl]

\* The digits do_div's loop leaves in tmp, most significant first: divq
\* divides the 64-bit register as unsigned.
RECURSIVE DivDigits(_, _, _)
DivDigits(u, base, digits) ==
    IF u < base THEN <<digits[u + 1]>>
    ELSE DivDigits(u \div base, base, digits) \o <<digits[(u % base) + 1]>>

\* number: the text of num in base, in a field of size characters with at
\* least precision digits.  LEFT cancels ZEROPAD; SIGN prints a negative
\* num as '-' and its int64 negation, which for INT64_MIN is itself; the
\* sign and the 0/0x prefix count against size; what size leaves over is
\* spaces before, zeros after the sign, or spaces after the digits.
Number(num, base, size, precision, type) ==
    LET t == IF "LEFT" \in type THEN type \ {"ZEROPAD"} ELSE type
        digits == IF "SMALL" \in t THEN LowerDigits ELSE UpperDigits
        neg == "SIGN" \in t /\ num < 0
        sign == CASE neg -> <<"-">> [] "PLUS" \in t -> <<"+">>
                  [] "SPACE" \in t -> <<" ">> [] OTHER -> <<>>
        prefix == IF "SPECIAL" \in t
                  THEN CASE base = 8 -> <<"0">> [] base = 16 -> <<"0", digits[34]>>
                         [] OTHER -> <<>>
                  ELSE <<>>
        tmp == DivDigits(Unsigned(IF neg THEN Signed(-num, LongBits) ELSE num, LongBits),
                         base, digits)
        prec == IF Len(tmp) > precision THEN Len(tmp) ELSE precision
        pad == size - Len(sign) - Len(prefix) - prec
        n == IF pad > 0 THEN pad ELSE 0
    IN  (IF t \cap {"ZEROPAD", "LEFT"} = {} THEN Spaces(n) ELSE <<>>)
        \o sign \o prefix
        \o (IF "ZEROPAD" \in t THEN Fill(n, "0") ELSE <<>>)
        \o Fill(prec - Len(tmp), "0") \o tmp
        \o (IF "LEFT" \in t THEN Spaces(n) ELSE <<>>)

\* get_qualified_integer: no qualifier and 'h' read an int32_t, which is
\* sign-extended to the int64_t number takes; 'l' and 'L' read an int64_t.
GetQualifiedInteger(arg, qualifier) ==
    IF qualifier \in {NUL, "h"} THEN Signed(arg, IntBits) ELSE Signed(arg, LongBits)

\* strlen of string.c: 0 for NULL, else the characters before the NUL.
Strlen(s) == IF s = NULL THEN 0 ELSE Len(s)

\* The text of a %s argument: a NULL pointer prints as "<NULL>".
StrOf(s) == IF s = NULL THEN <<"<", "N", "U", "L", "L", ">">> ELSE s

\* The conversion specification after the '%' at f[i]: the flags, the
\* field width (digits, or a '*' taking an argument, whose negative value
\* means LEFT), the precision ('.' with digits, a '*' argument clamped at
\* 0, or nothing, which is 0) and the qualifier; j is the index of the
\* conversion character and args the arguments left.  fmt does not move
\* past a '*'.
ConvSpec(f, i, args) ==
    LET fl == Flags(f, i + 1, {})
        w == CASE Ch(f, fl.i) \in DOMAIN DigitVal -> SkipAtoi(f, fl.i, 0)
                 [] Ch(f, fl.i) = "*" ->
                        [i |-> fl.i, n |-> Head(args), star |-> TRUE]
                 [] OTHER -> [i |-> fl.i, n |-> -1]
        star == "star" \in DOMAIN w
        a1 == IF star THEN Tail(args) ELSE args
        p == IF Ch(f, w.i) # "." THEN [i |-> w.i, n |-> -1, args |-> a1]
             ELSE CASE Ch(f, w.i + 1) \in DOMAIN DigitVal ->
                         LET d == SkipAtoi(f, w.i + 1, 0)
                         IN [i |-> d.i, n |-> d.n, args |-> a1]
                    [] Ch(f, w.i + 1) = "*" ->
                         [i |-> w.i + 1, n |-> IF Head(a1) < 0 THEN 0 ELSE Head(a1),
                          args |-> Tail(a1)]
                    [] OTHER -> [i |-> w.i + 1, n |-> 0, args |-> a1]
        q == IF Ch(f, p.i) \in {"h", "l", "L"} THEN Ch(f, p.i) ELSE NUL
    IN  [flags |-> IF star /\ w.n < 0 THEN fl.flags \cup {"LEFT"} ELSE fl.flags,
         width |-> IF star /\ w.n < 0 THEN -w.n ELSE w.n,
         precision |-> p.n, qualifier |-> q,
         j |-> IF q = NUL THEN p.i ELSE p.i + 1, args |-> p.args]

\* The conversion sp names, at f[sp.j]: the result holds the index of the
\* last character of f it used (the for loop's ++fmt goes on from the
\* next), the arguments left, the text it appends and what a %n stores,
\* len being the length of the text so far.
Convert(f, sp, len) ==
    LET c == Ch(f, sp.j)
        arg == Head(sp.args)
        flags == sp.flags
        width == sp.width
        s == StrOf(arg)
        slen == IF sp.precision >= 0 /\ Strlen(s) > sp.precision THEN sp.precision
                ELSE Strlen(s)
        spad == IF width > slen THEN width - slen ELSE 0
        cpad == IF width > 1 THEN width - 1 ELSE 0
        Num(v, base, size, type) == Number(v, base, size, sp.precision, type)
        Emit(o) == [i |-> sp.j, args |-> Tail(sp.args), stored |-> <<>>, out |-> o]
    IN CASE c = "c" ->
              Emit(IF "LEFT" \in flags THEN <<arg>> \o Spaces(cpad)
                   ELSE Spaces(cpad) \o <<arg>>)
         [] c = "s" ->
              Emit(IF "LEFT" \in flags THEN SubSeq(s, 1, slen) \o Spaces(spad)
                   ELSE Spaces(spad) \o SubSeq(s, 1, slen))
         [] c = "o" ->
              Emit(Num(GetQualifiedInteger(arg, sp.qualifier), 8, width, flags))
         [] c = "p" ->
              Emit(IF width = -1
                   THEN Num(Signed(arg, LongBits), 16, 16, flags \cup {"ZEROPAD"})
                   ELSE Num(Signed(arg, LongBits), 16, width, flags))
         [] c \in {"x", "X"} ->
              Emit(Num(GetQualifiedInteger(arg, sp.qualifier), 16, width,
                       IF c = "x" THEN flags \cup {"SMALL"} ELSE flags))
         [] c \in {"d", "i", "u"} ->
              Emit(Num(GetQualifiedInteger(arg, sp.qualifier), 10, width,
                       IF c = "u" THEN flags ELSE flags \cup {"SIGN"}))
         [] c = "n" ->
              [Emit(<<>>) EXCEPT !.stored = <<[at |-> arg, val |-> len]>>]
         [] c = NUL ->
              [i |-> sp.j - 1, args |-> sp.args, stored |-> <<>>, out |-> <<"%">>]
         [] OTHER ->
              [i |-> sp.j, args |-> sp.args, stored |-> <<>>,
               out |-> IF c = "%" THEN <<"%">> ELSE <<"%", c>>]

\* One conversion of vsprintf at the '%' f[i], with the specification
\* parsed once.
Conv(f, i, args, len) ==
    CHOOSE r \in {Convert(f, sp, len) : sp \in {ConvSpec(f, i, args)}} : TRUE

\* One pass of vsprintf's for loop at f[i]: an ordinary character is
\* copied, a '%' starts a conversion.
Step(f, i, args, len) ==
    IF f[i] # "%" THEN [i |-> i, args |-> args, stored |-> <<>>, out |-> <<f[i]>>]
    ELSE Conv(f, i, args, len)

\* The for loop from f[i] on.  Each pass's result c and the text so far s
\* are bound by a set comprehension, so they are values and not
\* expressions evaluated again at each use.
RECURSIVE Loop(_, _, _, _)
Loop(f, i, args, st) ==
    IF i > Len(f) THEN st
    ELSE LET Pass(c) == {Loop(f, c.i + 1, c.args, s) :
                           s \in {[out |-> st.out \o c.out, stored |-> st.stored \o c.stored]}}
         IN  CHOOSE r \in UNION {Pass(c) : c \in {Step(f, i, args, Len(st.out))}} : TRUE

\* vsprintf(buf, fmt, args): the text written to buf, and the (pointer,
\* count) pairs its %n conversions store.
VsprintfSt(fmt, args) ==
    CHOOSE r \in {Loop(f, 1, a, [out |-> <<>>, stored |-> <<>>]) : f \in {fmt}, a \in {args}} : TRUE
Vsprintf(fmt, args) == VsprintfSt(fmt, args).out

====
