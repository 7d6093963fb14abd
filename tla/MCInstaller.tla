---------------------------- MODULE MCInstaller -----------------------------
\* Instances of Installer for TLC.
EXTENDS Installer

FilesAndLinks == {[kind |-> "reg", data |-> d] : d \in 1..2} \cup {[kind |-> "sym", data |-> 1]}

\* A package that replaces an earlier one, one that replaces a later one, and
\* two that do not replace each other.
EachWay == {{<<3, 1>>, <<1, 2>>}}

\* The path is new, or apko made a file there before any package.
NewOrMade == {Nothing, [kind |-> "reg", data |-> 1]}
=============================================================================
