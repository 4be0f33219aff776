------------------------------ MODULE MCSyncer ------------------------------
EXTENDS Syncer

Content(e, y, p, r) == [endpoint |-> e, policy |-> y, pipeline |-> p, project |-> r]

\* An Endpoint that comes and goes and a Policy that is granted and revoked, beside a Pipeline
\* only the whole run takes live, and a change together with the projects registered.
SmallContents ==
    {Content("open", "grant", "a", "one"), Content(Absent, "grant", "b", "one"),
     Content("closed", Absent, "a", "two")}

StartContents == {content \in SmallContents : content.endpoint = "open"}

\* An Endpoint that gives its catalogue publication up.
PublishedContents == {Content(e, "grant", "a", "one") : e \in {"open", "closed"}}
=============================================================================
