----------------------------- MODULE MCLibrary ------------------------------
(* Values for the constants of Library: small widths and lengths, so that  *)
(* every boundary is within them.                                          *)
EXTENDS Library

MCBits == <<1, 2, 3, 4, 6>>

MCQuotingBytes == {" ", "\"", "'", "\\", "x", "f", "n", "\n", "byte ff"}

MCSeparators == {<<" ">>, <<"x", "x">>, <<"x", "f">>}

MCLengths == {0, 5, 9, 10, 99, 100, 999, 1000, 9999, 10000, 99999, 100000, 999999, 1000000,
              9999999, 10000000, 12345678, 99999999, 100000000, 536870912}
=============================================================================
