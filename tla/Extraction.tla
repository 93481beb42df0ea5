----------------------------- MODULE Extraction ----------------------------
(***************************************************************************)
(* The registry of text extractors (src/src/extraction.py) and its two     *)
(* entry points: the batch command goes by a file's suffix, the processor  *)
(* by the MIME type in its message, which the filesystem and blob walkers  *)
(* derive from a suffix.  A MIME type is the normalised one: without       *)
(* parameters, in lower case.                                              *)
(***************************************************************************)
EXTENDS Functions

TextSuffixes == {".txt", ".json", ".yml", ".yaml", ".md", ".csv", ".xml"}

Extractors ==
    [s \in {".pdf", ".docx"} \cup TextSuffixes |->
        CASE s = ".pdf"  -> "pdf"
          [] s = ".docx" -> "docx"
          [] OTHER       -> "plain"]

SupportedSuffixes == DOMAIN Extractors

Word == "application/vnd.openxmlformats-officedocument.wordprocessingml.document"

\* The type of a suffix that has one.
Mime(s) ==
    CASE s = ".pdf"  -> "application/pdf"
      [] s = ".docx" -> Word
      [] s = ".txt"  -> "text/plain"
      [] s = ".json" -> "application/json"
      [] s \in {".yml", ".yaml"} -> "application/yaml"
      [] s = ".md"   -> "text/markdown"
      [] s = ".csv"  -> "text/csv"
      [] s = ".xml"  -> "application/xml"

\* Mutant: a suffix that got an extractor and no MIME type.
SuffixToMimeShort ==
    [s \in {".pdf", ".docx", ".txt", ".json", ".yml", ".md", ".csv", ".xml"} |-> Mime(s)]

SuffixToMime ==
    [s \in {".pdf", ".docx", ".txt", ".json", ".yml", ".yaml", ".md", ".csv", ".xml"} |->
        Mime(s)]

YamlAliases == {"application/x-yaml", "text/yaml"}

\* The map inverted, and then the aliases.  Two suffixes share a type, and it does
\* not matter which of them the inversion keeps.
MimeToSuffix ==
    [m \in Range(SuffixToMime) \cup YamlAliases \cup {"text/xml"} |->
        CASE m \in YamlAliases -> ".yaml"
          [] m = "text/xml"    -> ".xml"
          [] OTHER -> CHOOSE s \in DOMAIN SuffixToMime : SuffixToMime[s] = m]

\* MIME types that begin with text/, of the ones that occur.
TextMimes == {"text/plain", "text/markdown", "text/csv", "text/yaml", "text/xml",
              "text/html"}

NoExtractor == "none"       \* UnsupportedFormatError

\* extract_text: the extractor a file's suffix, in lower case, leads to.
BySuffix(s) == IF s \in SupportedSuffixes THEN Extractors[s] ELSE NoExtractor

\* extract_text_from_bytes: the extractor a MIME type leads to.
ByMime(m) ==
    IF m \in DOMAIN MimeToSuffix THEN Extractors[MimeToSuffix[m]]
    ELSE IF m \in TextMimes THEN Extractors[".txt"]
    ELSE NoExtractor

\* mime_type_for_suffix, and its None.
MimeFor(s) == IF s \in DOMAIN SuffixToMime THEN SuffixToMime[s] ELSE "None"
============================================================================
