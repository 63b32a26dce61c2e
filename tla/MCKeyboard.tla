----------------------------- MODULE MCKeyboard -----------------------------
(* Keyboard with letters of two bits, the second of which would be the first *)
(* but for the bit that is lost, and a dictionary with a word that begins    *)
(* another, and one that is spelled the same.                                *)
EXTENDS Keyboard

SmallDict ==
  <<[hanzi |-> <<"A">>, praige |-> <<"k">>],
    [hanzi |-> <<"B">>, praige |-> <<"k", "u">>],
    [hanzi |-> <<"A", "B">>, praige |-> <<"k", "u">>]>>
=============================================================================
