------------------------------- MODULE Mix32 --------------------------------
(***************************************************************************)
(* The 32-bit mixing function of core/TelemetryWire.cpp.  TLC's integers   *)
(* are signed 32-bit, so a word is a pair <<high, low>> of 16-bit halves   *)
(* and a product is taken byte by byte.                                    *)
(***************************************************************************)
EXTENDS Naturals, Bitwise

Half == 65536

\* The 32-bit product of two halves.
TimesHalf(a, b) ==
    LET p0  == a * (b % 256)
        p1  == a * (b \div 256)
        low == p0 + (p1 % 256) * 256
    IN <<p1 \div 256 + low \div Half, low % Half>>

\* uint32_t multiplication: what overflows the high half is lost.
Times(x, y) ==
    LET low == TimesHalf(x[2], y[2]) IN
    <<(low[1] + TimesHalf(x[1], y[2])[2] + TimesHalf(x[2], y[1])[2]) % Half, low[2]>>

\* x ^ (x >> 16) and x ^ (x >> 15)
Shift16(x) == <<x[1], x[2] ^^ x[1]>>
Shift15(x) ==
    <<x[1] ^^ (x[1] \div 32768), x[2] ^^ (((x[1] * 2) % Half) + (x[2] \div 32768))>>

\* The factors are 0x7feb352d and 0x846ca68b.
Mix(x) ==
    Shift16(Times(Shift15(Times(Shift16(x), <<32747, 13613>>)), <<33900, 42635>>))
=============================================================================
