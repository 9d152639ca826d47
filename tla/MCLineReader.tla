---------------------------- MODULE MCLineReader ----------------------------
(* Instance for TLC: requests with an empty, a padded, an inner "=" and a   *)
(* too long value; responses with and without parameters and errors, one    *)
(* with a parameter named like the status; noise that ends a line, adds to  *)
(* it, or is unprintable.                                                   *)
EXTENDS LineReader, TLC

MCCharacter ==
  {"P", "t", "s", "e", "k", "v", "1", "0", "?", "&", "=", " ", "\n", "\t"}
MCUnprintable == {"\n", "\t"}
MCTerminator == {"\n"}
MCKeys == <<ErrorKey, <<"k">>, StatusKey, TypeKey>>
MCNoise == {"\n", "\t", "v"}

With(v) == TypeKey :> <<"P">> @@ <<"k">> :> v
MCRequest ==
  {TypeKey :> <<"P">>, With(<<>>), With(<<" ", "v">>), With(<<"v", "=">>),
   With(<<"v", "v", "v">>)}

Reply(ok, error, parameters) == [ok |-> ok, error |-> error, parameters |-> parameters]
MCResponse ==
  {Reply(TRUE, <<"v">>, <<>>), Reply(FALSE, <<>>, StatusKey :> <<"1">>),
   Reply(FALSE, <<"v">>, <<>>), Reply(TRUE, <<>>, <<"k">> :> <<"v", " ">>)}
=============================================================================
