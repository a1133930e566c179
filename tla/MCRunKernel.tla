---------------------------- MODULE MCRunKernel ----------------------------
(***************************************************************************)
(* Claims and watch sets for the model-checking runs of RunKernel.         *)
(***************************************************************************)
EXTENDS RunKernel

Claim(cls, key, writes) ==
  [cls |-> cls, key |-> key, writes |-> writes, acks |-> {}]

\* Every obligation watches the one file.
WatchAll == [o \in Obl |-> File]

\* Every obligation has a file of its own; the last one watches all.
WatchOwn ==
  [o \in Obl |-> IF \E p \in Obl : p > o THEN {o} ELSE File]

NoEpisodeWrites == {{}}
AnyEpisodeWrites == SUBSET File

\* Claims without a key below the contract's ceiling.
PlainClaims ==
  {Claim("read_only", NoKey, {})}
    \cup {Claim("reversible", NoKey, W) : W \in SUBSET File \ {{}}}

\* The same below two files: one of them is written by every claim.
SharedClaims ==
  {Claim("read_only", NoKey, {}), Claim("reversible", NoKey, {2}),
   Claim("reversible", NoKey, File)}

\* Claims of every class, an irreversible one with its key.
AllClaims ==
  {Claim(c, IF c = "irreversible" THEN "once" ELSE NoKey, File) :
     c \in Classes}

\* One claim per way the finalization treats a class.
FinalizedClaims == {c \in AllClaims : c.cls # "compensatable"}

\* The same key in every claim.
KeyedClaims == {Claim("reversible", "k", File)}

\* One of each kind, and one that prepare() refuses.
EveryClaim ==
  AllClaims \cup KeyedClaims \cup {Claim("irreversible", NoKey, File)}
=============================================================================
