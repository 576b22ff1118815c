--------------------------- MODULE MC_ClientCall ---------------------------
EXTENDS ClientCall
CONSTANTS b1, b2

\* Wrappers built with no options; with both block fallbacks; with only a
\* server resource extractor (the same list given to a server wrapper);
\* with both extractors and a client fallback that a later nil option
\* unsets again.
MCOptionLists ==
    { << >>,
      << Opt("clientBlockFallback", "fn"), Opt("streamClientBlockFallback", "fn") >>,
      << Opt("serverResourceExtract", "fn") >>,
      << Opt("serverResourceExtract", "fn"), Opt("streamClientResourceExtract", "fn"),
         Opt("clientBlockFallback", "fn"), Opt("clientBlockFallback", "nil") >> }
=============================================================================
