---------------------------- MODULE StringTable ----------------------------
(***************************************************************************)
(* The string table of the file the compiler writes (code.cpp): each text  *)
(* is stored once, and with -Ooverlap-strings a text that ends another one *)
(* is found inside it.  stat.cpp keeps what was stored in buckets sorted   *)
(* by strcmp; with the flag a bucket is the texts with one last character, *)
(* without it a bucket makes no difference to what is found.               *)
(*                                                                         *)
(* Characters are numbers, NUL is 0; offset o is chars[o + 1].             *)
(***************************************************************************)
EXTENDS Integers, Sequences, SequencesExt

Texts == Seq(Nat \ {0})

(* What code_genstring works on and leaves behind: code->chars,            *)
(* code->string_cache, code->string_cached_empty (0 if there is none), and *)
(* the offset it returned.  code_t::code_t: offset 0 is a terminator.      *)
EmptyTable == [chars |-> <<0>>, cache |-> <<>>, empty |-> 0, at |-> 0]

(* strcmp(s, t) < 0, for texts without NUL                                 *)
StrLess(s, t) ==
    \/ \E k \in DOMAIN s \cap DOMAIN t :
          s[k] < t[k] /\ \A j \in 1 .. k - 1 : s[j] = t[j]
    \/ Len(s) < Len(t) /\ \A k \in DOMAIN s : s[k] = t[k]

(* Mutant: only the last character of the key is compared.                 *)
EndsAlike(s, key) == Len(key) <= Len(s) /\ s[Len(s)] = key[Len(key)]

EndsWith(s, key) == Len(key) <= Len(s) /\ SubSeq(s, Len(s) - Len(key) + 1, Len(s)) = key

(* code_util_str_htgeth walks the bucket of the key's last character: to   *)
(* the first text that ends with the key, or to one of the key's length    *)
(* that is behind it.                                                      *)
Ending(cache, key) == {k \in DOMAIN cache : EndsWith(cache[k].text, key)}
Stops(cache, key) ==
    {k \in DOMAIN cache : /\ Len(cache[k].text) = Len(key) /\ StrLess(key, cache[k].text)
                          /\ cache[k].text[Len(key)] = key[Len(key)]}
Reached(cache, key) ==
    {k \in Ending(cache, key) : \A stop \in Stops(cache, key) : k < stop}

(* util_htgeth: the text itself.                                           *)
Stored(cache, key) == {k \in DOMAIN cache : cache[k].text = key}

Lookup(cache, key, overlap) ==
    LET hits == IF overlap THEN Reached(cache, key) ELSE Stored(cache, key)
        hit == cache[CHOOSE k \in hits : \A j \in hits : k <= j]
    IN IF hits = {} THEN 0 ELSE hit.at + Len(hit.text) - Len(key)

(* util_htseth keeps a bucket in the order of strcmp.                      *)
Insert(cache, node) ==
    LET smaller == {k \in DOMAIN cache : StrLess(cache[k].text, node.text)}
    IN InsertAt(cache, Cardinality(smaller) + 1, node)

(* code_genstring.  An empty text has a terminator of its own, not that of *)
(* offset 0.                                                               *)
GenEmpty(t) ==
    IF t.empty # 0 THEN [t EXCEPT !.at = t.empty]
    ELSE [t EXCEPT !.at = Len(t.chars), !.empty = Len(t.chars), !.chars = Append(@, 0)]

GenText(t, text, overlap) ==
    LET existing == Lookup(t.cache, text, overlap)
    IN IF existing # 0 THEN [t EXCEPT !.at = existing]
       ELSE [t EXCEPT !.at = Len(t.chars),
                      !.chars = @ \o text \o <<0>>,
                      !.cache = Insert(@, [text |-> text, at |-> Len(t.chars)])]

GenString(t, text, overlap) ==
    IF text = <<>> THEN GenEmpty(t) ELSE GenText(t, text, overlap)

(* prog_getstring and the C string functions, on the file's table.         *)
ReadsAs(cs, at, text) ==
    /\ at + Len(text) + 1 \in DOMAIN cs
    /\ SubSeq(cs, at + 1, at + Len(text)) = text
    /\ cs[at + Len(text) + 1] = 0
=============================================================================
