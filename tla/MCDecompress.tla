---------------------------- MODULE MCDecompress ----------------------------
EXTENDS Decompress

\* Digits, a capital letter, the character of 62 and the marks.
const_Char == {0, 7, 37, Underscore, Star, Wrap, Comma}
=============================================================================
