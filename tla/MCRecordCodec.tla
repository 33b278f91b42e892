---------------------------- MODULE MCRecordCodec ----------------------------
(* Lines for RecordCodec, put together from pieces that matter to one of   *)
(* its two readers: every number form, escaped quotes, one key in two      *)
(* spellings, containers, terminators inside and behind a line.            *)
EXTENDS RecordCodec

Integer == {<<"7">>, <<"-", "0">>, <<"1", "0">>}
NotSafe == {<<"-", "0", ".", "0">>, <<"-", "0", "e", "1">>, <<"7", ".", "1">>, <<"7", "e", "-", "1">>,
            <<"1", "1">>, <<"0", "7">>, <<"7", ".">>, <<"-">>}
String == {<<Quote, "a", Quote>>, <<Quote, Backslash, "u", Quote>>,
           <<Quote, Backslash, Quote, "7", ".", "1", Quote>>, <<Quote, "a">>, <<Quote, "a", "a", "a", "a", "a", Quote>>,
           <<Quote, Backslash, "a", Quote>>}
Scalar == Integer \cup NotSafe \cup String \cup {<<"n">>, <<"x">>, <<"7", "x">>, <<"7", ".", "1", "x">>, <<"1", "1", "x">>,
                              <<"-", "0", ".", "0", "x">>}

Array(s) == <<"[">> \o s \o <<"]">>

Key(k, v) == k \o <<":">> \o v
Pair(s, t) == s \o <<",">> \o t
Braces(s) == <<"{">> \o s \o <<"}">>

Few == {<<"7">>, <<"n">>, <<"-", "0", ".", "0">>, <<Quote, "a", Quote>>,
        <<Quote, Backslash, Quote, "7", ".", "1", Quote>>, <<>>, <<"[", "]">>}
Keys == {<<Quote, "a", Quote>>, <<Quote, Backslash, "u", Quote>>, <<Quote, Quote>>, <<Quote, "a">>}

Documents ==
  Scalar \cup {Array(s) : s \in Scalar}
    \cup {Array(Pair(s, t)) : s, t \in Few}
    \cup {Array(Pair(s, Pair(t, u))) : s, t, u \in Few}
    \cup {Array(Array(s)) : s \in Few} \cup {Array(Array(Array(s))) : s \in Few}
    \cup {Braces(Key(k, v)) : k \in Keys, v \in Few}
    \cup {Braces(Pair(Key(k, v), Key(l, w))) : k, l \in Keys, v, w \in {<<"7">>, <<"-", "0", ".", "0">>, <<"{", "}">>}}
    \cup {Braces(Pair(Key(k, <<"n">>), Pair(Key(l, <<"n">>), Key(m, <<"n">>)))) : k, l, m \in Keys}
    \cup {Array(Braces(Key(k, s))) : k \in Keys, s \in Few}
    \cup {Array(Pair(Braces(Key(<<Quote, "a", Quote>>, s)), Braces(Key(<<Quote, "a", Quote>>, t)))) : s, t \in Few}

Fragments == {<<"{", "7", "}">>, <<"[", "7">>, <<"[">>, <<"[", "7", "n", "]">>, <<"7", " ", "7">>, <<"{", "}", "]">>,
            <<"{", Quote, "a", Quote, ",", "n", "}">>, <<" ", "[", " ", "7", " ", ",", " ", "n", " ", "]", " ">>,
            <<"{", Quote, "a", Quote, ":">>, <<"{", Quote, "a", Quote, ":", "n", ",", "}">>}

Lines == {<<"\n">>, <<" ", "\r", "\n">>, <<>>, <<"7", "\n", "n">>, <<"7", "\r">>, <<"invalid">>}

MCLine == Documents \cup Fragments \cup Lines \cup {d \o <<"\r", "\n">> : d \in {<<"7">>, <<"[", "n", "]">>}}

MCSerialized == {Braces(Pair(Key(<<Quote, "a", Quote>>, v), Key(<<Quote, "b", Quote>>, w))) :
                   v, w \in {<<"7">>, <<"n">>, <<Quote, Backslash, Quote, "7", Quote>>, <<"[", "]">>, <<"[", "7", ",", "n", ",", "7", "]">>}}
=============================================================================
