---------------------------- MODULE ConfigFileMC ----------------------------
(* Small instances of ConfigFile for TLC, and the walk along credential    *)
(* sources as the code does it.                                            *)
EXTENDS ConfigFile, Sequences, TLC

CONSTANTS a1, a2, i1, i2, p1, p2

MCAccounts == {a1, a2}
MCIds      == {i1, i2}
MCProcs    == {p1, p2}
MCSymmetry == Permutations(MCAccounts) \union Permutations(MCIds)
                \union Permutations(MCProcs)

\* The loop of `credential_source_chain`: whether it ends with a chain.
Walk[c \in Configs, chain \in Seq(Accounts)] ==
  LET current == chain[Len(chain)]
      next == c.source[current]
  IN CASE current \notin c.accounts -> FALSE
       [] current \in c.accounts /\ next = None -> TRUE
       [] current \in c.accounts /\ next # None ->
            IF \E i \in 1..Len(chain) : chain[i] = next THEN FALSE
            ELSE Walk[c, Append(chain, next)]

\* ChainEnds is what the loop computes.
ASSUME WalkIsChainEnds ==
  \A A \in SUBSET Accounts, s \in [Accounts -> Accounts \union {None}],
     a \in Accounts :
    LET c == [BareConfig(A, None) EXCEPT !.source = s]
    IN Walk[c, <<a>>] <=> ChainEnds(c, a)
=============================================================================
