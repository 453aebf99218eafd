-------------------------------- MODULE MuLaw --------------------------------
(***************************************************************************)
(* The mu-law codec (src/audio/mulaw.ts): 16-bit samples as sign, segment  *)
(* (exponent) and step within the segment (mantissa), eight bits in all,   *)
(* inverted.  Both directions are tables in the code, filled from these    *)
(* functions; shifts and masks are written as quotients and remainders.    *)
(***************************************************************************)
EXTENDS Integers, FiniteSetsExt

Bias == 132
Clip == 32635

Pcm16 == -32768..32767

Magnitude(s) == (IF s < 0 THEN -s ELSE s)

\* The highest bit of a biased magnitude, counted from the lowest segment.
Exponent(m) == Max({0} \cup {e \in 0..7 : (m \div 2^(7 + e)) % 2 = 1})

\* Mutant: the bias may carry a loud sample out of the top segment.
EncodeUnclipped(s) ==
    LET m    == Magnitude(s) + Bias
        e    == Exponent(m)
        sign == IF s < 0 THEN 128 ELSE 0
    IN  255 - (sign + e * 16 + ((m \div 2^(e + 3)) % 16))

EncodeSample(s) ==
    LET m    == Min({Magnitude(s), Clip}) + Bias
        e    == Exponent(m)
        sign == IF s < 0 THEN 128 ELSE 0
    IN  255 - (sign + e * 16 + ((m \div 2^(e + 3)) % 16))

DecodeSample(byte) ==
    LET inverted == 255 - byte
        e        == (inverted \div 16) % 8
        m        == ((inverted % 16) * 8 + Bias) * 2^e - Bias
    IN  IF inverted \div 128 = 1 THEN -m ELSE m

\* The table is indexed by a sample's unsigned view.
SignedView(i) == IF i >= 32768 THEN i - 65536 ELSE i

EncodeMuLaw(s) == EncodeSample(SignedView(s % 65536))

-----------------------------------------------------------------------------
(* Properties. *)

VARIABLE sample   \* one sample that is encoded, and decoded again

CodecInit == sample \in Pcm16

\* For every 16-bit sample, the extreme ones included: what is decoded again
\* keeps its sign and order and is off by at most half a step of its segment,
\* unless it was clipped; and a byte that passes through PCM comes back, except
\* for the second zero.
CodecFaithful ==
    LET back == DecodeSample(EncodeMuLaw(sample))
        step == 2^(Exponent(Min({Magnitude(sample), Clip}) + Bias) + 3)
        byte == sample % 256
    IN  /\ Magnitude(back - sample) <= IF Magnitude(sample) > Clip
                                          THEN step ELSE step \div 2
        /\ back * sample >= 0
        /\ sample < 32767 => back <= DecodeSample(EncodeMuLaw(sample + 1))
        /\ EncodeMuLaw(DecodeSample(byte)) = IF byte = 127 THEN 255 ELSE byte
=============================================================================
