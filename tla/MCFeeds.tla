------------------------------ MODULE MCFeeds ------------------------------
EXTENDS Feeds
=============================================================================
