---------------------------- MODULE MCSourceIntake ----------------------------
(***************************************************************************)
(* Instances of SourceIntake for TLC: the keys and the bytes there are.    *)
(***************************************************************************)
EXTENDS SourceIntake

MCCaller == Upload \cup Conversion

MCObjectKey == {SourceKey(h) : h \in Content}
               \cup {ArtifactKey(h, v) : h \in Content, v \in ParserVersion}

\* Refused, ingested, and ingested and transferable.
MCMetadata ==
    {[contentType |-> "supported", contentClass |-> "publisherLicensed",
      route |-> "publisherApi", itemLicence |-> "unconfirmed"],
     [contentType |-> "supported", contentClass |-> "arxivPreprint",
      route |-> "openRepository", itemLicence |-> "unconfirmed"],
     [contentType |-> "supported", contentClass |-> "arxivPreprint",
      route |-> "openRepository", itemLicence |-> "confirmed"]}

MCBytes == Content \cup Markdown
=============================================================================
