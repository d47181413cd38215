------------------------------- MODULE MCSite -------------------------------
(* Site and Csp for TLC: names in byte order, with aliases, constants and  *)
(* the version asset in each other's way.                                  *)
EXTENDS Csp

NotFoundPage == <<"404", ".", "html">>
License == <<"LICENSE">>
Dashed == <<"A", "-", "b", ".", "css">>
Nested == <<"a", "/", "b", ".", "css">>
NestedIndex == <<"a", "/", "index", ".", "html">>
App == <<"app", ".", "js">>
AppPage == <<"app", ".", "js", ".", "html">>
Index == <<"index", ".", "html">>
NotFoundFile == <<"not", ".", "found">>
VersionPage == <<"v", ".", "html">>

SortedNames ==
    <<NotFoundPage, Dashed, License, Nested, NestedIndex, App, AppPage, Index,
      NotFoundFile, VersionPage, VersionFile>>

Uppercase ==
    [w \in UNION {ToSet(f) : f \in ToSet(SortedNames)} |->
        CASE w = "a" -> "A"
          [] w = "b" -> "B"
          [] w = "v" -> "V"
          [] w = "app" -> "APP"
          [] w = "css" -> "CSS"
          [] w = "found" -> "FOUND"
          [] w = "html" -> "HTML"
          [] w = "index" -> "INDEX"
          [] w = "js" -> "JS"
          [] w = "not" -> "NOT"
          [] w = "txt" -> "TXT"
          [] OTHER -> w]

WithDigit == {"404"}

LinksBetween ==
    [f \in ToSet(SortedNames) |->
        CASE f = Index -> {App, Nested, VersionPage, VersionFile}
          [] f = NestedIndex -> {App, NotFoundPage}
          [] f = VersionPage -> {App, Index}
          [] f = NotFoundPage -> {Dashed}
          [] OTHER -> {}]

(* Pages with styles say so, and one without does.                         *)
MentionsIn ==
    [f \in ToSet(SortedNames) |->
        IF f \in {NotFoundPage, Index, AppPage} THEN {"style-src"} ELSE {}]

Embeds == {{}, {"br"}, {"br", "zstd", "gzip"}}
AllEmbedded == {{"br", "zstd", "gzip"}}

=============================================================================
