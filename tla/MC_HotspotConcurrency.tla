---------------------- MODULE MC_HotspotConcurrency ----------------------
(* Model-checking instance of HotspotConcurrency: rule parameters and the *)
(* request contexts.                                                       *)
EXTENDS HotspotConcurrency, TLC

\* An EntryContext: attachments, headers, metadata and arguments.
Ctx(att, hdr, meta, args) ==
    [attachments |-> att, headers |-> hdr, metadata |-> meta, args |-> args]

NoMap == << >>

\* The keys the contexts below yield.
Int7 == Val("int", << "7" >>)
Str9 == Val("string", << "9" >>)

\* A Header rule on "uid" of kind int: a parsed header, an unparseable
\* header falling back to a "uid=9" argument, a struct without the field
\* (no key), and an attachment under "uid".
HeaderContexts ==
    { Ctx(NoMap, "uid" :> << "7" >>, NoMap, << Val("string", << "a" >>) >>),
      Ctx(NoMap, "uid" :> << "x" >>, NoMap, << Val("string", << "uid", "9" >>) >>),
      Ctx(NoMap, NoMap, NoMap,
          << [kind |-> "struct", fields |-> "other" :> Val("int", << "1" >>)] >>),
      Ctx("uid" :> Int7, NoMap, NoMap, << Val("string", << "b" >>) >>) }

\* Str9 has a specific limit of 1.
MCSpecificItems == Str9 :> 1

\* One context whose key is the argument "uid=9".
KeyValueContexts == { Ctx(NoMap, NoMap, NoMap, << Val("string", << "uid", "9" >>) >>) }

\* A context carrying the key both as an attachment and as the header of
\* a Header rule, next to a plain header one.
ConflictContexts ==
    { Ctx(NoMap, "uid" :> << "7" >>, NoMap, << Val("string", << "a" >>) >>),
      Ctx("uid" :> Val("string", << "5" >>), "uid" :> << "7" >>, NoMap,
          << Val("string", << "a" >>) >>) }

\* No argument has a specific item.
NoSpecificItems == [x \in {} |-> 0]

\* Goroutines are interchangeable.
ProcSymmetry == Permutations(Procs)
=============================================================================
