---------------------------- MODULE MatrixMarket ----------------------------
(***************************************************************************)
(* What mmio.c makes of the head of a Matrix Market file: the five words   *)
(* of the banner, and the numbers scanf() finds in a piece of text.        *)
(*                                                                         *)
(* Text is a sequence of tokens: a number, a % or any other word.  Lines   *)
(* are shorter than the buffers of mmio.c.                                 *)
(***************************************************************************)
EXTENDS Integers, Sequences, FiniteSetsExt

Percent == -1
Word    == -2
IsNumber(token) == token >= 0

MM_PREMATURE_EOF    == 12
MM_NO_HEADER        == 14
MM_UNSUPPORTED_TYPE == 15

(* A word of a banner: the constant of mmio.h that it spells, letters of   *)
(* either case taken alike, or begins with; whether its letters are those  *)
(* of that constant; and whether more follow.                              *)
BannerWord == [is : STRING, exact : BOOLEAN, longer : BOOLEAN]

ToLower(word) == [word EXCEPT !.exact = TRUE]

(* strcmp() of a word with the constants of a field.                       *)
IsOneOf(word, constants) == word.is \in constants /\ word.exact /\ ~word.longer

(* The second to fifth words. *)
Object  == {"matrix"}
Format  == {"coordinate", "array"}
Field   == {"real", "complex", "pattern", "integer"}
Storage == {"general", "symmetric", "hermitian", "skew-symmetric"}

Supported(banner) ==
  /\ IsOneOf(ToLower(banner[2]), Object)
  /\ IsOneOf(ToLower(banner[3]), Format)
  /\ IsOneOf(ToLower(banner[4]), Field)
  /\ IsOneOf(ToLower(banner[5]), Storage)

(* strncmp(), with the length of the constant: more letters may follow.    *)
IsMatrixMarket(word) == word.is = "%%MatrixMarket" /\ word.exact

(* mm_read_banner() on the words of the first line.  Words after the fifth *)
(* are not looked at, and the first keeps its capitals.                    *)
mm_read_banner(banner) ==
  IF Len(banner) < 5 THEN MM_PREMATURE_EOF
  ELSE IF ~IsMatrixMarket(banner[1]) THEN MM_NO_HEADER
  ELSE IF Supported(banner) THEN 0 ELSE MM_UNSUPPORTED_TYPE

(* How many of k numbers scanf() finds at the beginning of text. *)
Matched(text, k) ==
  Max({n \in 0..Min({k, Len(text)}) : \A t \in 1..n : IsNumber(text[t])})

EOF == -1

(* What scanf() returns, and whether it met the end of the text.           *)
Retval(text, k) == IF text = <<>> THEN EOF ELSE Matched(text, k)
MeetsEnd(text, k, newline) ==
  /\ Matched(text, k) = Len(text)
  /\ Len(text) = k => ~newline
=============================================================================
